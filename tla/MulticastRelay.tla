--------------------------- MODULE MulticastRelay --------------------------
(***************************************************************************)
(* What ecmh promises the links it connects, without its tables, protocol  *)
(* versions, records, reports and main loop: it remembers which link wants *)
(* which group from which source and copies a packet to exactly the other  *)
(* links that want it.  HubRelay shows that the hub implements this.       *)
(***************************************************************************)
EXTENDS Integers

CONSTANTS
    Links, Groups, Sources,
    Any,       \* the wish for every source
    Lifetime   \* a wish that was renewed this long ago is still kept

VARIABLES
    want,      \* <<group, link, source or Any>> -> ticks since it was renewed
    ready,     \* the links a packet can be sent on
    copies     \* the <<link, group>> of the copies the last step sent

rvars == <<want, ready, copies>>

Wishes == Groups \X Links \X (Sources \cup {Any})

RInit ==
    /\ want = [w \in {} |-> 0]
    /\ ready \in SUBSET Links
    /\ copies = {}

\* A step that copies nothing; links may come up and go down meanwhile.
Silent == ready' \in SUBSET Links /\ copies' = {}

\* Link i says what it wants of group m: its own wishes for this group may
\* be renewed, start or end, and nobody else's are touched.
Learn(m, i) ==
    /\ Silent
    /\ LET was == want
           now == want'
       IN /\ DOMAIN now \subseteq Wishes
          /\ \A w \in DOMAIN now : now[w] = 0 \/ (w \in DOMAIN was /\ now[w] = was[w])
          /\ \A w \in DOMAIN was \cup DOMAIN now :
                \/ w[1] = m /\ w[2] = i
                \/ w \in DOMAIN was /\ w \in DOMAIN now /\ now[w] = was[w]

\* Exactly the wishes that outlived their lifetime are forgotten.
Lasting(f) == [w \in {v \in DOMAIN f : f[v] <= Lifetime} |-> f[w]]

Forget == Silent /\ want' = Lasting(want)

\* A tick; ages beyond the lifetime need not be told apart.
Aging(f) == [w \in DOMAIN f |-> IF f[w] <= Lifetime THEN f[w] + 1 ELSE f[w]]

Pass == Silent /\ want' = Aging(want)

\* A packet of source s for group m comes in on link i: every other link
\* that is ready and wants it gets a copy, and no one else does.
Relay(i, s, m) ==
    /\ LET takers == {w \in DOMAIN want : w[1] = m /\ w[2] \in ready \ {i} /\ w[3] \in {Any, s}}
       IN copies' = {<<w[2], m>> : w \in takers}
    /\ ready' \in SUBSET Links
    /\ UNCHANGED want

Quiet == Silent /\ UNCHANGED want

RNext ==
    \/ Quiet
    \/ Pass
    \/ \E m \in Groups, i \in Links : Learn(m, i)
    \/ Forget
    \/ \E i \in Links, s \in Sources, m \in Groups : Relay(i, s, m)

RSpec == RInit /\ [][RNext]_rvars
=============================================================================
