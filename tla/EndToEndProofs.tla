--------------------------- MODULE EndToEndProofs ---------------------------
(* The processes of the end-to-end tests, each for every value of its      *)
(* constants: the channel peer, the containers of a test's nodes and the   *)
(* waits for the node's events.                                            *)
EXTENDS ChannelPeer, TestNodes, EventWaits, TLAPS

-----------------------------------------------------------------------------
(* Facts on sequences and small sets.                                      *)

\* Sequences with the same entries are the same.
LEMMA SameSequence ==
    ASSUME NEW S, NEW s \in Seq(S), NEW t \in Seq(S), Len(s) = Len(t),
           \A i \in 1 .. Len(s) : s[i] = t[i]
    PROVE  s = t
<1>1. /\ DOMAIN s = 1 .. Len(s) /\ DOMAIN t = 1 .. Len(s)
      /\ s = [i \in DOMAIN s |-> s[i]] /\ t = [i \in DOMAIN t |-> t[i]]
  OBVIOUS
<1> QED BY <1>1, Zenon

\* The entries of a concatenation.
LEMMA Concatenation ==
    ASSUME NEW S, NEW s \in Seq(S), NEW t \in Seq(S)
    PROVE  /\ s \o t \in Seq(S) /\ Len(s \o t) = Len(s) + Len(t)
           /\ \A i \in 1 .. Len(s) + Len(t) :
                (s \o t)[i] = IF i <= Len(s) THEN s[i] ELSE t[i - Len(s)]
<1>1. s \o t \in Seq(S) /\ Len(s \o t) = Len(s) + Len(t)
  OBVIOUS
<1>2. ASSUME NEW i \in 1 .. Len(s) + Len(t)
      PROVE (s \o t)[i] = IF i <= Len(s) THEN s[i] ELSE t[i - Len(s)]
  OBVIOUS
<1> QED BY <1>1, <1>2, Zenon

\* Taking the first entry of a queue.
LEMMA HeadAndTail ==
    ASSUME NEW S, NEW s \in Seq(S), s # << >>
    PROVE  /\ Head(s) \in S /\ Tail(s) \in Seq(S) /\ Len(Tail(s)) = Len(s) - 1
           /\ \A i \in 1 .. Len(Tail(s)) : Tail(s)[i] = s[i + 1]
  OBVIOUS

\* The empty queue.
LEMMA EmptySequence ==
    ASSUME NEW S
    PROVE << >> \in Seq(S) /\ Len(<< >>) = 0 /\ \A s \in Seq(S) : s # << >> => Len(s) \in Nat \ {0}
  OBVIOUS

\* Appending an entry.
LEMMA Appending ==
    ASSUME NEW S, NEW s \in Seq(S), NEW e \in S PROVE Append(s, e) \in Seq(S)
  OBVIOUS

\* The empty sequence adds nothing.
LEMMA AddsNothing == ASSUME NEW S, NEW s \in Seq(S) PROVE s \o << >> = s
  OBVIOUS

\* A set of which any two members are the same has at most one member.
LEMMA AtMostOne ==
    ASSUME NEW S, \A x, y \in S : x = y
    PROVE  Cardinality(S) <= 1
<1> DEFINE Body(f) == [T \in SUBSET S |-> IF T = {} THEN 0 ELSE 1 + f[T \ {CHOOSE x : x \in T}]]
           g == [T \in SUBSET S |-> IF T = {} THEN 0 ELSE 1]
           h == CHOOSE f : f = Body(f)
<1>1. ASSUME NEW T \in SUBSET S, T # {}
      PROVE  T \ {CHOOSE x : x \in T} = {} /\ {} \in SUBSET S
  <2>1. (CHOOSE x : x \in T) \in T
    BY <1>1, Zenon
  <2> QED BY <1>1, <2>1, Zenon
<1>2. g = Body(g)
  <2>1. ASSUME NEW T \in SUBSET S PROVE g[T] = Body(g)[T]
    <3>1. CASE T = {}
      BY <3>1, Zenon
    <3>2. CASE T # {}
      <4>1. g[T] = 1 /\ g[{}] = 0
        BY <1>1, <3>2, Zenon
      <4>2. Body(g)[T] = 1 + g[{}]
        BY <1>1, <3>2, Zenon
      <4> HIDE DEF g
      <4>3. 1 + g[{}] = 1
        BY <4>1
      <4> QED BY <4>1, <4>2, <4>3, Zenon
    <3> QED BY <3>1, <3>2, Zenon
  <2> QED BY <2>1, Zenon
<1>3. h = Body(h)
  BY <1>2, Zenon
<1>4. Cardinality(S) = h[S]
  BY Zenon DEF Cardinality
<1> HIDE DEF h
<1>5. CASE S = {}
  <2>1. h[S] = 0
    BY <1>3, <1>5, Zenon
  <2> QED BY <1>4, <2>1
<1>6. CASE S # {}
  <2>1. h[{}] = 0
    BY <1>3, Zenon
  <2>2. h[S] = 1 + h[{}]
    BY <1>1, <1>3, <1>6, Zenon
  <2> QED BY <1>4, <2>1, <2>2
<1> QED BY <1>5, <1>6, Zenon

-----------------------------------------------------------------------------
(* The channel peer: PeerInv is inductive.                                 *)

\* What the parent puts in the queue of commands.
Commands == [op : {"send", "recreate"}, n : Nat]

\* What the child puts in the queue of results.
Results == [n : Nat, ok : BOOLEAN]

\* The types the argument needs.
QueueTypes ==
    /\ commands \in Nat /\ channel \in BOOLEAN
    /\ arrived \in Nat /\ snapshot \in Nat /\ forwarded \in Nat
    /\ cmd_q \in Seq(Commands) /\ result_q \in Seq(Results)
    /\ received \in Seq(Nat) /\ evt_q \in Seq(Nat)
    /\ cpc \in {"none", "closing", "dead"} \cup Startup \cup Serving

\* What the child put and the parent has not yet taken, by the parent's step.
\* The child puts one result before it serves and one for each command, and
\* the parent gives the next command only once it has taken the last result;
\* after a timeout it gives none.
OneAnswer ==
    /\ ppc = "new" => /\ cpc = "none" /\ cmd_q = << >> /\ result_q = << >>
                      /\ ~channel
    /\ cpc \in {"mesh", "initial", "ready"} => channel
    /\ ppc = "entering" =>
         /\ cmd_q = << >>
         /\ \/ result_q = << >> /\ cpc \in Startup \cup {"closing", "dead"}
            \/ /\ Len(result_q) = 1 /\ Head(result_q).ok
               /\ channel /\ cpc \in Serving \cup {"dead"}
            \/ /\ Len(result_q) = 1 /\ ~Head(result_q).ok
               /\ cpc \in {"closing", "dead"}
    /\ ppc \in {"body", "waiting"} =>
         /\ result_q = << >> /\ cmd_q = << >>
         /\ channel /\ cpc \in Serving \cup {"dead"}
    /\ ppc = "running" =>
         /\ cpc \in Serving \cup {"dead"}
         /\ \/ /\ result_q = << >> /\ channel
               /\ Len(cmd_q) = 1 /\ Head(cmd_q).n = commands
            \/ /\ cmd_q = << >>
               /\ Len(result_q) = 1 /\ Head(result_q).n = commands
               /\ Head(result_q).ok => channel

\* The messages are numbered as they arrive; position by position.
Numbered ==
    /\ forwarded <= snapshot /\ snapshot <= arrived
    /\ Len(received) + Len(evt_q) = forwarded
    /\ \A i \in 1 .. Len(received) : received[i] = i
    /\ \A i \in 1 .. Len(evt_q) : evt_q[i] = Len(received) + i

\* While the body runs, stop_evt is not set: the child serves on.
NotStopped == ppc \in {"new", "entering", "body", "running", "waiting"} => ~stop_evt

\* The inductive invariant of the channel peer.
PeerInv == QueueTypes /\ OneAnswer /\ Numbered /\ NotStopped
-----------------------------------------------------------------------------
\* Taking the only result or command leaves the queue empty.
LEMMA TailOfOne ==
    ASSUME NEW S, NEW q \in Seq(S), Len(q) = 1
    PROVE  Tail(q) = << >> /\ Head(q) \in S /\ q # << >>
<1>1. q # << >>
  BY EmptySequence
<1>2. Head(q) \in S /\ Tail(q) \in Seq(S) /\ Len(Tail(q)) = 0
  BY <1>1, HeadAndTail
<1>3. Tail(q) = << >>
  BY <1>2, EmptySequence, Zenon
<1> QED
  BY <1>1, <1>2, <1>3, Zenon

\* A result or command put into an empty queue is its only one.
LEMMA AppendToEmpty ==
    ASSUME NEW S, NEW q \in Seq(S), q = << >>, NEW x \in S
    PROVE  /\ Append(q, x) \in Seq(S) /\ Len(Append(q, x)) = 1
           /\ Head(Append(q, x)) = x /\ Append(q, x) # << >>
OBVIOUS

\* PutResult puts a result.
LEMMA PutResultType ==
    ASSUME QueueTypes, NEW n \in Nat, NEW ok \in BOOLEAN, PutResult(n, ok)
    PROVE  /\ result_q' \in Seq(Results)
           /\ result_q = << >> =>
                /\ Len(result_q') = 1 /\ Head(result_q') = [n |-> n, ok |-> ok]
<1>1. [n |-> n, ok |-> ok] \in Results
  BY Zenon DEF Results
<1> QED
  BY <1>1, AppendToEmpty DEF PutResult, QueueTypes

\* A queue of one answers: every result in it has that number.
LEMMA OnlyResult ==
    ASSUME NEW S, NEW q \in Seq(S), Len(q) = 1
    PROVE  DOMAIN q = {1} /\ Head(q) = q[1]
OBVIOUS

\* Forwarding puts the new part of the snapshot behind what is in evt_q.
LEMMA ForwardNumbers ==
    ASSUME QueueTypes, Numbered, Forward
    PROVE  Numbered' /\ evt_q' \in Seq(Nat)
<1> DEFINE new == [i \in 1 .. snapshot - forwarded |-> forwarded + i]
<1>1. snapshot - forwarded \in Nat
  BY DEF QueueTypes, Numbered
<1>2. new \in [1 .. snapshot - forwarded -> Nat]
  BY <1>1 DEF QueueTypes
<1>3. new \in Seq(Nat) /\ Len(new) = snapshot - forwarded
  BY <1>1, <1>2
<1>4. \A i \in 1 .. Len(new) : new[i] = forwarded + i
  BY <1>3, Zenon
<1> HIDE DEF new
<1>5. evt_q' = evt_q \o new
  BY Zenon DEF Forward, new
<1>6. evt_q' \in Seq(Nat) /\ Len(evt_q') = Len(evt_q) + Len(new)
  BY <1>3, <1>5, Concatenation, Zenon DEF QueueTypes
<1>7. received' = received /\ forwarded' = snapshot /\ snapshot' = snapshot
        /\ arrived' = arrived
  BY Zenon DEF Forward, parentOnly
<1>8. ASSUME NEW i \in 1 .. Len(evt_q')
      PROVE  evt_q'[i] = Len(received) + i
  <2>1. CASE i <= Len(evt_q)
    <3>1. i \in 1 .. Len(evt_q) /\ evt_q'[i] = evt_q[i]
      BY <2>1, <1>3, <1>5, <1>6 DEF QueueTypes
    <3> QED
      BY <3>1, Zenon DEF Numbered
  <2>2. CASE i > Len(evt_q)
    <3>1. i - Len(evt_q) \in 1 .. Len(new) /\ evt_q'[i] = new[i - Len(evt_q)]
      BY <2>2, <1>3, <1>5, <1>6 DEF QueueTypes
    <3>2. evt_q'[i] = forwarded + (i - Len(evt_q))
      BY <3>1, <1>4, Zenon
    <3>3. Len(received) \in Nat /\ Len(evt_q) \in Nat /\ i \in Nat
      BY <1>6 DEF QueueTypes
    <3>4. Len(received) + Len(evt_q) = forwarded
      BY Zenon DEF Numbered
    <3>5. forwarded + (i - Len(evt_q)) = Len(received) + i
      BY <3>3, <3>4
    <3> QED
      BY <3>2, <3>5, Zenon
  <2>3. Len(evt_q) \in Nat /\ i \in Nat
    BY <1>6 DEF QueueTypes
  <2> QED
    BY <2>1, <2>2, <2>3
<1>9. Len(received) + Len(evt_q') = snapshot
  <2>1. Len(received) \in Nat /\ Len(evt_q) \in Nat /\ forwarded \in Nat /\ snapshot \in Nat
    BY DEF QueueTypes
  <2>2. Len(received) + Len(evt_q) = forwarded
    BY Zenon DEF Numbered
  <2> QED
    BY <1>3, <1>6, <2>1, <2>2
<1> QED
  BY <1>6, <1>7, <1>8, <1>9 DEF Numbered, QueueTypes

\* Taking one event moves it from the head of evt_q to the end of _received.
LEMMA TakeNumbers ==
    ASSUME QueueTypes, Numbered, evt_q # << >>,
           received' = Append(received, Head(evt_q)), evt_q' = Tail(evt_q),
           UNCHANGED <<arrived, snapshot, forwarded>>
    PROVE  Numbered' /\ evt_q' \in Seq(Nat) /\ received' \in Seq(Nat)
<1>1. /\ Head(evt_q) = evt_q[1] /\ 1 \in 1 .. Len(evt_q) /\ Head(evt_q) \in Nat
      /\ evt_q' \in Seq(Nat) /\ Len(evt_q') = Len(evt_q) - 1
      /\ \A i \in 1 .. Len(evt_q') : evt_q'[i] = evt_q[i + 1]
  BY DEF QueueTypes
<1>2. Head(evt_q) = Len(received) + 1
  BY <1>1, Zenon DEF Numbered
<1>3. /\ received' \in Seq(Nat) /\ Len(received') = Len(received) + 1
      /\ \A i \in 1 .. Len(received) : received'[i] = received[i]
      /\ received'[Len(received) + 1] = Head(evt_q)
  BY <1>1 DEF QueueTypes
<1>4. Len(received) \in Nat /\ Len(evt_q) \in Nat
  BY DEF QueueTypes
<1>5. \A i \in 1 .. Len(received') : received'[i] = i
  BY <1>2, <1>3, <1>4 DEF Numbered
<1>6. \A i \in 1 .. Len(evt_q') : evt_q'[i] = Len(received') + i
  <2> TAKE i \in 1 .. Len(evt_q')
  <2>1. i \in Nat /\ i + 1 \in 1 .. Len(evt_q) /\ evt_q'[i] = evt_q[i + 1]
    BY <1>1, <1>4
  <2>2. evt_q[i + 1] = Len(received) + (i + 1)
    BY <2>1, Zenon DEF Numbered
  <2> QED
    BY <2>1, <2>2, <1>3, <1>4
<1> QED
  BY <1>1, <1>3, <1>4, <1>5, <1>6 DEF Numbered

\* Nothing of the events changes in the other steps.
LEMMA NumberedStays ==
    ASSUME Numbered, UNCHANGED <<received, evt_q, forwarded, snapshot, arrived>>
    PROVE  Numbered'
BY Zenon DEF Numbered

-----------------------------------------------------------------------------
\* The invariant holds before the peer is entered.
LEMMA PeerInvInit == PeerInit => PeerInv
<1> SUFFICES ASSUME PeerInit PROVE PeerInv
  BY Zenon
<1>1. QueueTypes
  BY EmptySequence, Zenon DEF PeerInit, QueueTypes
<1>2. OneAnswer
  BY Zenon DEF PeerInit, OneAnswer
<1>3. Numbered
  BY DEF PeerInit, Numbered
<1>4. NotStopped
  BY Zenon DEF PeerInit, NotStopped
<1> QED
  BY <1>1, <1>2, <1>3, <1>4, Zenon DEF PeerInv

\* Every step of the parent keeps the invariant.
LEMMA ParentKeepsInv ==
    ASSUME PeerInv, ParentStep
    PROVE  PeerInv'
<1> USE DEF PeerInv
<1>1. CASE Enter
  <2>1. QueueTypes'
    BY <1>1, Zenon DEF Enter, QueueTypes, Startup
  <2>2. OneAnswer'
    BY <1>1, Zenon DEF Enter, OneAnswer, Startup
  <2>3. Numbered'
    BY <1>1, NumberedStays, Zenon DEF Enter
  <2>4. NotStopped'
    BY <1>1, Zenon DEF Enter, NotStopped
  <2> QED
    BY <2>1, <2>2, <2>3, <2>4, Zenon
<1>2. CASE EnterOutcome
  <2>1. QueueTypes'
    <3>1. result_q' \in Seq(Results)
      BY <1>2, HeadAndTail, Zenon DEF EnterOutcome, QueueTypes
    <3> QED
      BY <1>2, <3>1, Zenon DEF EnterOutcome, QueueTypes, childOnly
  <2>2. OneAnswer'
    <3>1. CASE result_q # << >>
      <4>1. Len(result_q) = 1 /\ result_q' = Tail(result_q)
        BY <1>2, <3>1, Zenon DEF EnterOutcome, OneAnswer
      <4>2. result_q' = << >>
        BY <4>1, TailOfOne, Zenon DEF QueueTypes
      <4> QED
        BY <1>2, <3>1, <4>2, Zenon DEF EnterOutcome, OneAnswer, BeginExit, childOnly
    <3>2. CASE result_q = << >>
      BY <1>2, <3>2, Zenon DEF EnterOutcome, OneAnswer, BeginExit, childOnly
    <3> QED
      BY <3>1, <3>2, Zenon
  <2>3. Numbered'
    BY <1>2, NumberedStays, Zenon DEF EnterOutcome, childOnly
  <2>4. NotStopped'
    BY <1>2, Zenon DEF EnterOutcome, NotStopped, BeginExit
  <2> QED
    BY <2>1, <2>2, <2>3, <2>4
<1>3. ASSUME NEW op \in {"send", "recreate"}, PutCommand(op)
      PROVE  PeerInv'
  <2> DEFINE c == [op |-> op, n |-> commands']
  <2>1. cmd_q = << >> /\ result_q = << >> /\ channel /\ cpc \in Serving \cup {"dead"}
    BY <1>3, Zenon DEF PutCommand, OneAnswer
  <2>2. commands' \in Nat /\ c \in Commands
    BY <1>3 DEF PutCommand, QueueTypes, Commands
  <2>3. /\ cmd_q' \in Seq(Commands) /\ Len(cmd_q') = 1 /\ Head(cmd_q') = c
    BY <1>3, <2>1, <2>2, AppendToEmpty DEF PutCommand, QueueTypes
  <2>4. QueueTypes'
    BY <1>3, <2>2, <2>3, Zenon DEF PutCommand, QueueTypes, childOnly
  <2>5. OneAnswer'
    BY <1>3, <2>1, <2>3 DEF PutCommand, OneAnswer, childOnly
  <2>6. Numbered'
    BY <1>3, NumberedStays, Zenon DEF PutCommand, childOnly
  <2>7. NotStopped'
    BY <1>3, Zenon DEF PutCommand, NotStopped
  <2> QED
    BY <2>4, <2>5, <2>6, <2>7, Zenon
<1>4. CASE RunOutcome
  <2>1. QueueTypes'
    <3>1. result_q' \in Seq(Results)
      BY <1>4, HeadAndTail, Zenon DEF RunOutcome, QueueTypes
    <3> QED
      BY <1>4, <3>1, Zenon DEF RunOutcome, QueueTypes, childOnly
  <2>2. OneAnswer'
    <3>1. CASE result_q # << >>
      <4>1. Len(result_q) = 1 /\ result_q' = Tail(result_q) /\ cmd_q = << >>
        BY <1>4, <3>1, Zenon DEF RunOutcome, OneAnswer
      <4>2. result_q' = << >>
        BY <4>1, TailOfOne, Zenon DEF QueueTypes
      <4> QED
        BY <1>4, <3>1, <4>1, <4>2, Zenon DEF RunOutcome, OneAnswer, BeginExit, childOnly
    <3>2. CASE result_q = << >>
      BY <1>4, <3>2, Zenon DEF RunOutcome, OneAnswer, BeginExit, childOnly
    <3> QED
      BY <3>1, <3>2
  <2>3. Numbered'
    BY <1>4, NumberedStays, Zenon DEF RunOutcome, childOnly
  <2>4. NotStopped'
    BY <1>4, Zenon DEF RunOutcome, NotStopped, BeginExit
  <2> QED
    BY <2>1, <2>2, <2>3, <2>4
<1>5. CASE wait_for_received
  <2>1. Numbered' /\ evt_q' \in Seq(Nat) /\ received' \in Seq(Nat)
    <3>1. CASE UNCHANGED <<evt_q, received>>
      BY <1>5, <3>1, NumberedStays, Zenon DEF wait_for_received, childOnly, QueueTypes
    <3>2. CASE ~UNCHANGED <<evt_q, received>>
      <4>1. /\ evt_q # << >> /\ received' = Append(received, Head(evt_q))
            /\ evt_q' = Tail(evt_q) /\ UNCHANGED <<arrived, snapshot, forwarded>>
        BY <1>5, <3>2, Zenon DEF wait_for_received, childOnly
      <4> QED
        BY <4>1, TakeNumbers, Zenon
    <3> QED
      BY <3>1, <3>2, Zenon
  <2>2. QueueTypes'
    <3>1. commands' \in Nat
      BY <1>5 DEF wait_for_received, QueueTypes
    <3>2. UNCHANGED <<channel, arrived, snapshot, forwarded, cmd_q, result_q, cpc>>
      BY <1>5, Zenon DEF wait_for_received, childOnly
    <3> QED
      BY <2>1, <3>1, <3>2, Zenon DEF QueueTypes
  <2>3. OneAnswer'
    BY <1>5, Zenon DEF wait_for_received, OneAnswer, childOnly
  <2>4. NotStopped'
    BY <1>5, Zenon DEF wait_for_received, NotStopped
  <2> QED
    BY <2>1, <2>2, <2>3, <2>4, Zenon
<1>6. CASE BodyDone
  <2>1. QueueTypes'
    BY <1>6, Zenon DEF BodyDone, QueueTypes, childOnly
  <2>2. OneAnswer'
    BY <1>6, Zenon DEF BodyDone, OneAnswer, BeginExit, childOnly
  <2>3. Numbered'
    BY <1>6, NumberedStays, Zenon DEF BodyDone, childOnly
  <2>4. NotStopped'
    BY <1>6, Zenon DEF BodyDone, NotStopped, BeginExit
  <2> QED
    BY <2>1, <2>2, <2>3, <2>4
<1>7. CASE EndExit
  <2>1. QueueTypes'
    BY <1>7, Zenon DEF EndExit, QueueTypes
  <2>2. OneAnswer'
    BY <1>7, Zenon DEF EndExit, OneAnswer
  <2>3. Numbered'
    BY <1>7, NumberedStays, Zenon DEF EndExit
  <2>4. NotStopped'
    BY <1>7, Zenon DEF EndExit, NotStopped
  <2> QED
    BY <2>1, <2>2, <2>3, <2>4
<1> QED
  BY <1>1, <1>2, <1>3, <1>4, <1>5, <1>6, <1>7, Zenon DEF ParentStep

\* Every step of the child keeps the invariant.
LEMMA ChildKeepsInv ==
    ASSUME PeerInv, ChildStep
    PROVE  PeerInv'
<1> USE DEF PeerInv
<1>1. CASE StartupStep
  <2>1. Numbered'
    BY <1>1, NumberedStays, Zenon DEF StartupStep, parentOnly
  <2>2. NotStopped'
    BY <1>1, Zenon DEF StartupStep, NotStopped, parentOnly
  <2>3. CASE cpc' = After(cpc) /\ channel' = (channel \/ cpc = "create") /\ UNCHANGED result_q
    <3>1. cpc' \in Startup /\ (cpc' \in {"mesh", "initial", "ready"} => channel')
      BY <1>1, <2>3, Zenon DEF StartupStep, After, Startup, OneAnswer, QueueTypes
    <3>2. QueueTypes'
      BY <1>1, <2>3, <3>1, Zenon DEF StartupStep, QueueTypes, parentOnly
    <3>3. OneAnswer'
      BY <1>1, <2>3, <3>1, Zenon DEF StartupStep, OneAnswer, parentOnly, Startup, Serving
    <3> QED
      BY <2>1, <2>2, <3>2, <3>3, Zenon
  <2>4. CASE StartupFails
    <3>1. result_q' \in Seq(Results)
            /\ (result_q = << >> => Len(result_q') = 1 /\ ~Head(result_q').ok)
      <4>1. /\ result_q' \in Seq(Results)
            /\ result_q = << >> =>
                 Len(result_q') = 1 /\ Head(result_q') = [n |-> 0, ok |-> FALSE]
        BY <2>4, PutResultType, Zenon DEF StartupFails
      <4>2. ~[n |-> 0, ok |-> FALSE].ok
        BY Zenon
      <4> QED
        BY <4>1, <4>2, Zenon
    <3>2. cpc' \in {"dead", "closing"}
      BY <2>4, Zenon DEF StartupFails
    <3>3. QueueTypes'
      BY <1>1, <2>4, <3>1, <3>2, Zenon
         DEF StartupStep, StartupFails, QueueTypes, parentOnly
    <3>4. OneAnswer'
      BY <1>1, <2>4, <3>1, <3>2, Zenon
         DEF StartupStep, StartupFails, OneAnswer, parentOnly, Startup, Serving
    <3> QED
      BY <2>1, <2>2, <3>3, <3>4
  <2> QED
    BY <1>1, <2>3, <2>4, Zenon DEF StartupStep
<1>2. CASE Ready
  <2>1. Numbered'
    BY <1>2, NumberedStays, Zenon DEF Ready, parentOnly
  <2>2. NotStopped'
    BY <1>2, Zenon DEF Ready, NotStopped, parentOnly
  <2>3. CASE PutResult(0, TRUE) /\ cpc' = "snapshot"
    <3>1. result_q' \in Seq(Results)
            /\ (result_q = << >> => Len(result_q') = 1 /\ Head(result_q').ok)
      <4>1. /\ result_q' \in Seq(Results)
            /\ result_q = << >> =>
                 Len(result_q') = 1 /\ Head(result_q') = [n |-> 0, ok |-> TRUE]
        BY <2>3, PutResultType, Zenon
      <4>2. [n |-> 0, ok |-> TRUE].ok
        BY Zenon
      <4> QED
        BY <4>1, <4>2, Zenon
    <3>2. QueueTypes'
      BY <1>2, <2>3, <3>1, Zenon DEF Ready, QueueTypes, parentOnly, Serving
    <3>3. OneAnswer'
      BY <1>2, <2>3, <3>1, Zenon DEF Ready, OneAnswer, parentOnly, Startup, Serving
    <3> QED
      BY <2>1, <2>2, <3>2, <3>3
  <2>4. CASE UNCHANGED result_q /\ cpc' = "closing"
    <3>1. QueueTypes'
      BY <1>2, <2>4, Zenon DEF Ready, QueueTypes, parentOnly
    <3>2. OneAnswer'
      BY <1>2, <2>4, Zenon DEF Ready, OneAnswer, parentOnly, Startup, Serving
    <3> QED
      BY <2>1, <2>2, <3>1, <3>2
  <2> QED
    BY <1>2, <2>3, <2>4, Zenon DEF Ready
<1>3. CASE Arrive
  <2>1. QueueTypes'
    BY <1>3 DEF Arrive, QueueTypes, parentOnly
  <2>2. OneAnswer'
    BY <1>3, Zenon DEF Arrive, OneAnswer, parentOnly
  <2>3. Numbered'
    BY <1>3 DEF Arrive, Numbered, parentOnly, QueueTypes
  <2>4. NotStopped'
    BY <1>3, Zenon DEF Arrive, NotStopped, parentOnly
  <2> QED
    BY <2>1, <2>2, <2>3, <2>4
<1>4. CASE TakeSnapshot
  <2>1. QueueTypes'
    BY <1>4, Zenon DEF TakeSnapshot, QueueTypes, parentOnly, Serving
  <2>2. OneAnswer'
    BY <1>4, Zenon DEF TakeSnapshot, OneAnswer, NotStopped, parentOnly, Serving, Startup
  <2>3. Numbered'
    BY <1>4 DEF TakeSnapshot, Numbered, parentOnly, QueueTypes
  <2>4. NotStopped'
    BY <1>4, Zenon DEF TakeSnapshot, NotStopped, parentOnly
  <2> QED
    BY <2>1, <2>2, <2>3, <2>4
<1>5. CASE Forward
  <2>1. QueueTypes'
    BY <1>5, ForwardNumbers, Zenon DEF Forward, QueueTypes, parentOnly, Serving
  <2>2. OneAnswer'
    BY <1>5, Zenon DEF Forward, OneAnswer, parentOnly, Serving, Startup
  <2>3. Numbered'
    BY <1>5, ForwardNumbers, Zenon
  <2>4. NotStopped'
    BY <1>5, Zenon DEF Forward, NotStopped, parentOnly
  <2> QED
    BY <2>1, <2>2, <2>3, <2>4
<1>6. CASE Serve
  <2>1. Numbered'
    BY <1>6, NumberedStays, Zenon DEF Serve, parentOnly
  <2>2. NotStopped'
    BY <1>6, Zenon DEF Serve, NotStopped, parentOnly
  <2>3. CASE cmd_q = << >>
    <3>1. UNCHANGED <<cmd_q, result_q, channel>>
      BY <1>6, <2>3, Zenon DEF Serve
    <3>2. QueueTypes'
      BY <1>6, <3>1, Zenon DEF Serve, QueueTypes, parentOnly, Serving
    <3>3. OneAnswer'
      BY <1>6, <3>1, Zenon DEF Serve, OneAnswer, parentOnly, Serving, Startup
    <3> QED
      BY <2>1, <2>2, <3>2, <3>3
  <2>4. CASE cmd_q # << >>
    <3>1. Head(cmd_q) \in Commands /\ Head(cmd_q).n \in Nat /\ cmd_q' = Tail(cmd_q)
            /\ cmd_q' \in Seq(Commands)
      <4>1. Head(cmd_q) \in Commands /\ Tail(cmd_q) \in Seq(Commands)
        BY <2>4, HeadAndTail, Zenon DEF QueueTypes
      <4>2. Head(cmd_q).n \in Nat
        BY <4>1, Zenon DEF Commands
      <4>3. cmd_q' = Tail(cmd_q)
        BY <1>6, <2>4, Zenon DEF Serve
      <4> QED
        BY <4>1, <4>2, <4>3, Zenon
    <3>2. PICK ok \in BOOLEAN :
            /\ PutResult(Head(cmd_q).n, ok)
            /\ channel' \in BOOLEAN
            /\ ok => channel' = channel \/ channel'
      BY <1>6, <2>4, Zenon DEF Serve, Recreate, QueueTypes
    <3>3. /\ result_q' \in Seq(Results)
          /\ result_q = << >> => /\ Len(result_q') = 1
                                 /\ Head(result_q').n = Head(cmd_q).n
                                 /\ Head(result_q').ok = ok
      <4>1. /\ result_q' \in Seq(Results)
            /\ result_q = << >> => /\ Len(result_q') = 1
                                   /\ Head(result_q') = [n |-> Head(cmd_q).n, ok |-> ok]
        BY <3>1, <3>2, PutResultType, Zenon
      <4> QED BY <4>1
    <3>4. QueueTypes'
      BY <1>6, <3>1, <3>2, <3>3, Zenon DEF Serve, QueueTypes, parentOnly, Serving
    <3>5. ppc \in {"running", "joining", "done"} \/ ppc \notin
            {"new", "entering", "body", "waiting", "running"}
      BY <1>6, <2>4, Zenon DEF OneAnswer, Serve
    <3>6. ASSUME ppc = "running"
          PROVE  /\ cmd_q' = << >> /\ Len(result_q') = 1
                 /\ Head(result_q').n = commands /\ (Head(result_q').ok => channel')
      <4>1. result_q = << >> /\ channel /\ Len(cmd_q) = 1 /\ Head(cmd_q).n = commands
        BY <3>6, <2>4, Zenon DEF OneAnswer
      <4>2. cmd_q' = << >>
        BY <4>1, <3>1, TailOfOne, Zenon DEF QueueTypes
      <4> QED
        BY <4>1, <4>2, <3>2, <3>3, Zenon
    <3>7. OneAnswer'
      BY <1>6, <3>5, <3>6, Zenon DEF Serve, OneAnswer, parentOnly, Serving
    <3> QED
      BY <2>1, <2>2, <3>4, <3>7, Zenon
  <2> QED
    BY <2>3, <2>4, Zenon
<1>7. CASE Close \/ Die
  <2>1. QueueTypes'
    BY <1>7, Zenon DEF Close, Die, QueueTypes, parentOnly
  <2>2. OneAnswer'
    BY <1>7, Zenon DEF Close, Die, OneAnswer, parentOnly, Startup, Serving
  <2>3. Numbered'
    BY <1>7, NumberedStays, Zenon DEF Close, Die, parentOnly
  <2>4. NotStopped'
    BY <1>7, Zenon DEF Close, Die, NotStopped, parentOnly
  <2> QED
    BY <2>1, <2>2, <2>3, <2>4
<1> QED
  BY <1>1, <1>2, <1>3, <1>4, <1>5, <1>6, <1>7, Zenon DEF ChildStep

\* The invariant of the two processes holds at every moment.
THEOREM PeerInvariant == PeerSpec => []PeerInv
<1>1. PeerInit => PeerInv
  BY PeerInvInit, Zenon
<1>2. PeerInv /\ [PeerNext]_peerVars => PeerInv'
  <2> SUFFICES ASSUME PeerInv, [PeerNext]_peerVars PROVE PeerInv'
    BY Zenon
  <2>1. CASE UNCHANGED peerVars
    BY <2>1 DEF peerVars, PeerInv, QueueTypes, OneAnswer, Numbered, NotStopped
  <2>2. CASE PeerNext
    BY <2>2, ParentKeepsInv, ChildKeepsInv, Zenon DEF PeerNext
  <2> QED
    BY <2>1, <2>2, Zenon
<1> QED
  BY <1>1, <1>2, PTL DEF PeerSpec

\* For any number of commands and messages, the result _run takes is that of
\* its own command, and the body always has a peer with an open channel.
THEOREM AnswersAreOwn == PeerSpec => []AckIsOwn
<1>1. PeerInv => AckIsOwn
  <2> SUFFICES ASSUME PeerInv PROVE AckIsOwn
    BY Zenon
  <2>1. ppc \in {"body", "waiting"} =>
          /\ result_q = << >> /\ cmd_q = << >>
          /\ channel /\ cpc \in Serving \cup {"dead"}
    BY Zenon DEF PeerInv, OneAnswer
  <2>2. ASSUME ppc = "running"
        PROVE  /\ Len(result_q) + Len(cmd_q) <= 1
               /\ \A i \in DOMAIN result_q : result_q[i].n = commands
    <3>1. CASE result_q = << >> /\ Len(cmd_q) = 1
      BY <3>1
    <3>2. CASE cmd_q = << >> /\ Len(result_q) = 1 /\ Head(result_q).n = commands
      <4>1. DOMAIN result_q = {1} /\ Head(result_q) = result_q[1]
        BY <3>2, OnlyResult, Zenon DEF PeerInv, QueueTypes
      <4> QED
        BY <3>2, <4>1
    <3> QED
      BY <2>2, <3>1, <3>2, Zenon DEF PeerInv, OneAnswer
  <2> QED
    BY <2>1, <2>2, Zenon DEF AckIsOwn
<1> QED
  BY <1>1, PeerInvariant, PTL

\* For any number of arrivals, what wait_for_received has and what is still
\* queued are the forwarded messages, each once and in order.
THEOREM ReceivedAlwaysInOrder == PeerSpec => []ReceivedInOrder
<1>1. PeerInv => ReceivedInOrder
  <2> SUFFICES ASSUME PeerInv PROVE ReceivedInOrder
    OBVIOUS
  <2> DEFINE all == received \o evt_q
             want == [i \in 1 .. forwarded |-> i]
  <2>1. received \in Seq(Nat) /\ evt_q \in Seq(Nat) /\ forwarded \in Nat
          /\ snapshot \in Nat /\ arrived \in Nat
    BY Zenon DEF PeerInv, QueueTypes
  <2>2. /\ all \in Seq(Nat) /\ Len(all) = forwarded
        /\ \A i \in 1 .. forwarded :
             all[i] = IF i <= Len(received) THEN received[i] ELSE evt_q[i - Len(received)]
    BY <2>1, Concatenation DEF PeerInv, Numbered
  <2> HIDE DEF all
  <2>3. ASSUME NEW i \in 1 .. forwarded PROVE all[i] = i
    <3>1. i \in Nat /\ Len(received) \in Nat /\ Len(evt_q) \in Nat
            /\ Len(received) + Len(evt_q) = forwarded
      BY <2>1 DEF PeerInv, Numbered
    <3>2. CASE i <= Len(received)
      <4>1. i \in 1 .. Len(received) /\ all[i] = received[i]
        BY <3>1, <3>2, <2>2
      <4> QED
        BY <4>1, Zenon DEF PeerInv, Numbered
    <3>3. CASE i > Len(received)
      <4>a. i - Len(received) \in 1 .. Len(evt_q) /\ ~(i <= Len(received))
        BY <2>3, <3>1, <3>3
      <4>1. i - Len(received) \in 1 .. Len(evt_q) /\ all[i] = evt_q[i - Len(received)]
        BY <2>2, <2>3, <4>a, Zenon
      <4>2. all[i] = Len(received) + (i - Len(received))
        BY <4>1, Zenon DEF PeerInv, Numbered
      <4> QED
        BY <4>2, <3>1
    <3> QED
      BY <3>1, <3>2, <3>3
  <2>4. all = want
    BY <2>1, <2>2, <2>3
  <2>5. forwarded <= arrived
    BY <2>1 DEF PeerInv, Numbered
  <2> QED
    BY <2>4, <2>5, Zenon DEF ReceivedInOrder, all
<1> QED
  BY <1>1, PeerInvariant, PTL

-----------------------------------------------------------------------------
(* The nodes of a test: NodesInv is inductive.                             *)

\* The test's node holds no container that its teardown would still have to
\* stop: none at all, or one that Docker would not stop.
Released(n) == handle[n] = 0 \/ <<n, handle[n]>> \in refused

\* Where start() is without a container of its own.
Unstarted == {"new", "prepare", "network", "create", "connect", "start", "stopped"}

\* What holds of one node.
NodeRight(n) ==
    /\ at[n] = "new" => attempt[n] = 0
    /\ at[n] = "prepare" => attempt[n] < MaxAttempts
    /\ at[n] \in Starting \ {"prepare"} => attempt[n] # 0
    /\ at[n] \in Unstarted => Released(n)
    /\ at[n] \in {"health", "info"} => handle[n] # 0
    /\ handle[n] # 0 => \E j \in DOMAIN waku_nodes : waku_nodes[j] = n
    /\ \A i \in 1 .. MaxAttempts :
         docker[<<n, i>>] \in Live => i = handle[n] \/ <<n, i>> \in refused

\* Where the test is: the teardown starts when every start() has ended, and what
\* it has passed is released.
TestRight ==
    /\ phase \in {"setup", "body"} => stopping = 1
    /\ phase \in {"teardown", "over"} =>
         /\ \A n \in NodeSet : at[n] \notin Starting
         /\ \A j \in 1 .. stopping - 1 : Released(waku_nodes[j])
    /\ phase = "over" => stopping > Len(waku_nodes) /\ postgres # "running"

\* The inductive invariant of a test's containers.
NodesInv ==
    /\ NodesTypeOK
    /\ \A n \in NodeSet : NodeRight(n)
    /\ TestRight /\ InfoCurrent

-----------------------------------------------------------------------------
\* The node m is in DS.waku_nodes.
Registered(m) == \E j \in DOMAIN waku_nodes : waku_nodes[j] = m

\* The step is about the node n: the other nodes stay as they are, none of
\* their containers comes to life, and nothing is taken out of DS.waku_nodes.
Apart(n) ==
    /\ \A m \in NodeSet \ {n} :
         /\ at'[m] = at[m] /\ attempt'[m] = attempt[m]
         /\ handle'[m] = handle[m] /\ info'[m] = info[m]
         /\ \A i \in 1 .. MaxAttempts :
              docker'[<<m, i>>] \in Live => docker[<<m, i>>] \in Live
    /\ refused \subseteq refused'
    /\ \A m : Registered(m) => Registered(m)'

\* A node that no step touches stays right: the containers Docker refuses to
\* stop and the entries of DS.waku_nodes only grow.
LEMMA SameNode ==
    ASSUME NEW m \in NodeSet, NodeRight(m),
           at'[m] = at[m], attempt'[m] = attempt[m], handle'[m] = handle[m],
           \A i \in 1 .. MaxAttempts : docker'[<<m, i>>] \in Live => docker[<<m, i>>] \in Live,
           refused \subseteq refused', Registered(m) => Registered(m)'
    PROVE  NodeRight(m)'
  BY Zenon DEF NodeRight, Released, Registered

\* A step of the set-up or of the body about one node.
LEMMA OneNode ==
    ASSUME NodesInv, NodesTypeOK', NEW n \in NodeSet, Apart(n), NodeRight(n)',
           phase \in {"setup", "body"}, UNCHANGED <<phase, stopping>>,
           at'[n] = "up" => handle'[n] # 0 /\ info'[n] = handle'[n]
    PROVE  NodesInv'
<1>1. \A m \in NodeSet : NodeRight(m)'
  <2>1. ASSUME NEW m \in NodeSet, m # n PROVE NodeRight(m)'
    BY <2>1, SameNode, Zenon DEF NodesInv, Apart
  <2> QED BY <2>1, Zenon
<1>2. TestRight'
  BY Zenon DEF NodesInv, TestRight
<1>3. InfoCurrent'
  BY Zenon DEF NodesInv, InfoCurrent, Apart
<1> QED BY <1>1, <1>2, <1>3, Zenon DEF NodesInv

\* The set-up or the body ends, with an exception or without: no start() is on.
LEMMA ToTeardown ==
    ASSUME NodesInv, NodesTypeOK', \A n \in NodeSet : at[n] \notin Starting,
           phase \in {"setup", "body"}, phase' = "teardown",
           UNCHANGED <<docker, at, attempt, handle, waku_nodes, stopping>>,
           refused \subseteq refused'
    PROVE  NodesInv'
<1>1. \A m \in NodeSet : NodeRight(m)'
  BY SameNode, Zenon DEF NodesInv, Registered
<1>2. stopping' = 1
  BY Zenon DEF NodesInv, TestRight
<1>3. 1 .. stopping' - 1 = {}
  BY <1>2
<1>4. TestRight'
  BY <1>3, Zenon DEF TestRight
<1>5. InfoCurrent'
  BY Zenon DEF InfoCurrent
<1> QED BY <1>1, <1>4, <1>5, Zenon DEF NodesInv

\* A start() is on only before the teardown.
LEMMA StartsEarly ==
    ASSUME NodesInv, NEW n \in NodeSet, at[n] \in Starting
    PROVE  phase \in {"setup", "body"}
  BY Zenon DEF NodesInv, NodesTypeOK, TestRight

\* A move of start() that leaves the container the node holds alone: where it
\* goes next fits the attempts made and the container held.
LEMMA Moves ==
    ASSUME NodesInv, NEW n \in NodeSet,
           NEW x \in Starting \cup {"failed"}, at' = [at EXCEPT ![n] = x],
           NEW k \in 0 .. MaxAttempts, attempt' = [attempt EXCEPT ![n] = k],
           x = "prepare" => k < MaxAttempts,
           x \in Starting \ {"prepare"} => k # 0,
           x \in Unstarted => Released(n),
           x \in {"health", "info"} => handle[n] # 0,
           phase \in {"setup", "body"}, network' \in BOOLEAN, ops' \in 0 .. MaxOps,
           docker' \in [Containers -> {"absent", "created"} \cup Live],
           \A c \in Containers : docker'[c] \in Live => docker[c] \in Live,
           UNCHANGED <<parallel, postgres, handle, info, waku_nodes, phase, stopping, refused>>
    PROVE  NodesInv'
<1>0. NodesTypeOK /\ NodeRight(n)
  BY Zenon DEF NodesInv
<1>1. /\ at' \in [NodeSet -> Starting \cup {"new", "up", "failed", "stopped"}]
      /\ attempt' \in [NodeSet -> 0 .. MaxAttempts]
  BY <1>0, Zenon DEF NodesTypeOK
<1>2. NodesTypeOK'
  BY <1>0, <1>1, Zenon DEF NodesTypeOK
<1>3. /\ at'[n] = x /\ attempt'[n] = k
      /\ \A m \in NodeSet \ {n} : at'[m] = at[m] /\ attempt'[m] = attempt[m]
  BY <1>0, Zenon DEF NodesTypeOK
<1>4. \A m \in NodeSet, i \in 1 .. MaxAttempts :
        docker'[<<m, i>>] \in Live => docker[<<m, i>>] \in Live
  BY Zenon DEF Containers
<1>5. Apart(n)
  BY <1>3, <1>4, Zenon DEF Apart, Registered
<1>6. x # "new" /\ x # "up"
  BY Zenon DEF Starting
<1>7. NodeRight(n)'
  <2>1. Released(n)' <=> Released(n)
    BY Zenon DEF Released
  <2> QED BY <1>0, <1>3, <1>4, <1>6, <2>1, Zenon DEF NodeRight
<1> QED BY <1>2, <1>3, <1>5, <1>6, <1>7, OneNode, Zenon

\* The attempt ended with an exception and left the containers alone.
LEMMA Retries ==
    ASSUME NodesInv, NEW n \in NodeSet, Retry(n), at[n] \in Starting, Released(n),
           network' \in BOOLEAN,
           UNCHANGED <<parallel, docker, postgres, attempt, handle, info, waku_nodes,
                       phase, ops, stopping, refused>>
    PROVE  NodesInv'
<1>0. NodesTypeOK
  BY Zenon DEF NodesInv
<1>1. PICK x \in {"prepare", "failed"} :
        at' = [at EXCEPT ![n] = x] /\ (x = "prepare" => attempt[n] < MaxAttempts)
  BY Zenon DEF Retry
<1>2. x \in Starting \cup {"failed"} /\ x \notin Starting \ {"prepare"}
      /\ x \notin {"health", "info"}
  BY Zenon DEF Starting
<1>3. attempt[n] \in 0 .. MaxAttempts /\ attempt' = [attempt EXCEPT ![n] = attempt[n]]
  BY <1>0, Zenon DEF NodesTypeOK
<1>4. phase \in {"setup", "body"}
  BY StartsEarly, Zenon
<1>5. /\ docker' \in [Containers -> {"absent", "created"} \cup Live]
      /\ ops' \in 0 .. MaxOps
  BY <1>0, Zenon DEF NodesTypeOK
<1> QED BY <1>1, <1>2, <1>3, <1>4, <1>5, Moves, Zenon

\* The steps of start() before the container runs.
LEMMA BeginStep == ASSUME NodesInv, NEW n \in NodeSet, BeginStart(n) PROVE NodesInv'
<1>0. NodesTypeOK /\ NodeRight(n)
  BY Zenon DEF NodesInv
<1>1. /\ phase \in {"setup", "body"} /\ at[n] = "new"
      /\ at' = [at EXCEPT ![n] = "prepare"]
      /\ UNCHANGED <<parallel, network, docker, postgres, attempt, handle, info,
                     waku_nodes, phase, ops, stopping, refused>>
  BY Zenon DEF BeginStart
<1>2. attempt[n] = 0 /\ Released(n)
  BY <1>0, <1>1, Zenon DEF NodeRight, Unstarted
<1>3. 0 \in 0 .. MaxAttempts /\ 0 < MaxAttempts
  BY TestNodesAssumption
<1>4. /\ attempt' = [attempt EXCEPT ![n] = 0] /\ network' \in BOOLEAN
      /\ docker' \in [Containers -> {"absent", "created"} \cup Live] /\ ops' \in 0 .. MaxOps
  BY <1>0, <1>1, <1>2, Zenon DEF NodesTypeOK
<1>5. "prepare" \in Starting \cup {"failed"}
  BY Zenon DEF Starting
<1> QED BY <1>1, <1>2, <1>3, <1>4, <1>5, Moves, Zenon

\* An attempt begins: it looks for the network, fails for good, or is tried again.
LEMMA PrepareStep == ASSUME NodesInv, NEW n \in NodeSet, Prepare(n) PROVE NodesInv'
<1>0. NodesTypeOK /\ NodeRight(n)
  BY Zenon DEF NodesInv
<1> DEFINE k == attempt[n] + 1
<1>1. /\ at[n] = "prepare" /\ attempt' = [attempt EXCEPT ![n] = k]
      /\ UNCHANGED <<parallel, network, docker, postgres, handle, info,
                     waku_nodes, phase, ops, stopping, refused>>
  BY <1>0, Zenon DEF Prepare, NodesTypeOK
<1>2. PICK x \in {"create", "network", "failed", "prepare"} :
        at' = [at EXCEPT ![n] = x] /\ (x = "prepare" => k < MaxAttempts)
  <2>1. at = [at EXCEPT ![n] = "prepare"]
    BY <1>0, <1>1, Zenon DEF NodesTypeOK
  <2> QED BY <2>1, Zenon DEF Prepare
<1>3. x \in Starting \cup {"failed"} /\ x \notin {"health", "info"}
  BY Zenon DEF Starting
<1>4. attempt[n] < MaxAttempts /\ Released(n)
  BY <1>0, <1>1, Zenon DEF NodeRight, Unstarted
<1>5. k \in 0 .. MaxAttempts /\ k # 0
  BY <1>0, <1>4, TestNodesAssumption DEF NodesTypeOK
<1>6. at[n] \in Starting
  BY <1>1, Zenon DEF Starting
<1>7. phase \in {"setup", "body"}
  BY <1>6, StartsEarly, Zenon
<1>8. /\ network' \in BOOLEAN /\ ops' \in 0 .. MaxOps
      /\ docker' \in [Containers -> {"absent", "created"} \cup Live]
  BY <1>0, <1>1, Zenon DEF NodesTypeOK
<1> HIDE DEF k
<1> QED BY <1>1, <1>2, <1>3, <1>4, <1>5, <1>7, <1>8, Moves, Zenon

\* A start() that has a try on and no container that runs goes on to x.
LEMMA GoesOn ==
    ASSUME NodesInv, NEW n \in NodeSet, at[n] \in {"network", "create", "connect", "start"},
           NEW x \in {"create", "connect", "start"}, at' = [at EXCEPT ![n] = x],
           network' \in BOOLEAN,
           docker' \in [Containers -> {"absent", "created"} \cup Live],
           \A c \in Containers : docker'[c] \in Live => docker[c] \in Live,
           UNCHANGED <<parallel, postgres, attempt, handle, info, waku_nodes, phase,
                       ops, stopping, refused>>
    PROVE  NodesInv'
<1>0. NodesTypeOK /\ NodeRight(n)
  BY Zenon DEF NodesInv
<1>1. at[n] \in Starting \ {"prepare"} /\ at[n] \in Unstarted
  BY Zenon DEF Starting, Unstarted
<1>2. attempt[n] # 0 /\ Released(n)
  BY <1>0, <1>1, Zenon DEF NodeRight
<1>3. x \in Starting \cup {"failed"} /\ x \notin {"health", "info"} /\ x # "prepare"
  BY Zenon DEF Starting
<1>4. attempt[n] \in 0 .. MaxAttempts /\ attempt' = [attempt EXCEPT ![n] = attempt[n]]
      /\ ops' \in 0 .. MaxOps
  BY <1>0, Zenon DEF NodesTypeOK
<1>5. phase \in {"setup", "body"}
  BY <1>1, StartsEarly, Zenon
<1> QED BY <1>2, <1>3, <1>4, <1>5, Moves, Zenon

\* The steps up to a container that is created and connected, and their failures.
LEMMA CreateStep ==
    ASSUME NodesInv, NEW n \in NodeSet,
           CreateNetwork(n) \/ CreateContainer(n) \/ ConnectContainer(n)
    PROVE  NodesInv'
<1>0. NodesTypeOK /\ NodeRight(n)
  BY Zenon DEF NodesInv
<1>1. /\ at[n] \in {"network", "create", "connect", "start"}
      /\ UNCHANGED <<parallel, postgres, attempt, handle, info, waku_nodes, phase,
                     ops, stopping, refused>>
  BY Zenon DEF CreateNetwork, CreateContainer, ConnectContainer
<1>2. at[n] \in Starting /\ at[n] \in Unstarted
  BY <1>1, Zenon DEF Starting, Unstarted
<1>3. Released(n)
  BY <1>0, <1>2, Zenon DEF NodeRight
<1>4. /\ network \in BOOLEAN
      /\ docker \in [Containers -> {"absent", "created"} \cup Live]
  BY <1>0, Zenon DEF NodesTypeOK
<1>5. CASE Retry(n) /\ UNCHANGED docker
  <2>1. network' \in BOOLEAN
    BY <1>4, Zenon DEF CreateNetwork, CreateContainer, ConnectContainer
  <2> QED BY <1>1, <1>2, <1>3, <1>5, <2>1, Retries, Zenon
<1>6. ASSUME NEW x \in {"create", "connect", "start"}, at' = [at EXCEPT ![n] = x],
             UNCHANGED docker, network' \in BOOLEAN
      PROVE  NodesInv'
  BY <1>1, <1>4, <1>6, GoesOn, Zenon
<1>7. CASE CreateNetwork(n)
  BY <1>5, <1>6, <1>4, <1>7, Zenon DEF CreateNetwork
<1>8. CASE ConnectContainer(n)
  BY <1>5, <1>6, <1>4, <1>8, Zenon DEF ConnectContainer
<1>9. CASE CreateContainer(n)
  <2>1. CASE Retry(n) /\ UNCHANGED docker
    BY <2>1, <1>5, Zenon
  <2>2. CASE /\ docker' = [docker EXCEPT ![<<n, attempt[n]>>] = "created"]
             /\ at' = [at EXCEPT ![n] = "connect"]
    <3>1. docker' \in [Containers -> {"absent", "created"} \cup Live]
      BY <1>4, <2>2, Zenon
    <3>2. \A c \in Containers : docker'[c] \in Live => docker[c] \in Live
      BY <1>4, <2>2, Zenon DEF Live
    <3>3. network' \in BOOLEAN
      BY <1>4, <1>9, Zenon DEF CreateContainer
    <3> QED BY <1>1, <2>2, <3>1, <3>2, <3>3, GoesOn, Zenon
  <2> QED BY <1>9, <2>1, <2>2, Zenon DEF CreateContainer
<1> QED BY <1>7, <1>8, <1>9, Zenon

\* What _start_docker's append does to DS.waku_nodes.
LEMMA RegistryGrows ==
    ASSUME NEW S, NEW q \in Seq(S), NEW n \in S, NEW r, r = Append(q, n)
    PROVE  /\ r \in Seq(S) /\ Len(r) = Len(q) + 1
           /\ DOMAIN q \subseteq DOMAIN r
           /\ \A j \in DOMAIN q : r[j] = q[j]
           /\ Len(q) + 1 \in DOMAIN r /\ r[Len(q) + 1] = n
<1>1. Len(q) \in Nat /\ DOMAIN q = 1 .. Len(q) /\ r \in Seq(S)
  OBVIOUS
<1>2. Len(r) = Len(q) + 1 /\ DOMAIN r = 1 .. Len(q) + 1
  OBVIOUS
<1>3. DOMAIN q \subseteq DOMAIN r /\ Len(q) + 1 \in DOMAIN r
  BY <1>1, <1>2
<1>4. \A j \in DOMAIN q : r[j] = q[j]
  BY <1>1
<1>5. r[Len(q) + 1] = n
  BY <1>1
<1> QED BY <1>1, <1>2, <1>3, <1>4, <1>5, Zenon

\* container.start succeeds: the container it replaces as the node's own does
\* not run any more or is one that Docker would not stop.
LEMMA StartedStep ==
    ASSUME NodesInv, NEW n \in NodeSet, StartContainer(n) PROVE NodesInv'
<1>0. NodesTypeOK /\ NodeRight(n) /\ at[n] = "start"
  BY Zenon DEF NodesInv, StartContainer
<1>1. at[n] \in Starting /\ at[n] \in Starting \ {"prepare"} /\ at[n] \in Unstarted
  BY <1>0, Zenon DEF Starting, Unstarted
<1>2. attempt[n] # 0 /\ Released(n) /\ phase \in {"setup", "body"}
  BY <1>0, <1>1, StartsEarly, Zenon DEF NodeRight
<1>3. CASE Retry(n) /\ UNCHANGED <<docker, handle, waku_nodes>>
  <2>1. network' \in BOOLEAN
    BY <1>0, Zenon DEF StartContainer, NodesTypeOK
  <2> QED BY <1>1, <1>2, <1>3, <2>1, Retries, Zenon DEF StartContainer
<1>4. CASE /\ docker' = [docker EXCEPT ![<<n, attempt[n]>>] = "running"]
           /\ handle' = [handle EXCEPT ![n] = attempt[n]]
           /\ waku_nodes' = Append(waku_nodes, n)
           /\ at' = [at EXCEPT ![n] = "health"]
  <2>0. UNCHANGED <<parallel, network, postgres, attempt, info, phase, ops, stopping, refused>>
    BY Zenon DEF StartContainer
  <2>1. attempt[n] \in 1 .. MaxAttempts
    BY <1>0, <1>2 DEF NodesTypeOK
  <2>2. <<n, attempt[n]>> \in Containers
    BY <2>1, Zenon DEF Containers
  <2>a. waku_nodes \in Seq(NodeSet)
    BY <1>0, Zenon DEF NodesTypeOK
  <2>3. /\ waku_nodes' \in Seq(NodeSet) /\ Len(waku_nodes') = Len(waku_nodes) + 1
        /\ DOMAIN waku_nodes \subseteq DOMAIN waku_nodes'
        /\ \A j \in DOMAIN waku_nodes : waku_nodes'[j] = waku_nodes[j]
        /\ Len(waku_nodes) + 1 \in DOMAIN waku_nodes'
        /\ waku_nodes'[Len(waku_nodes) + 1] = n
    BY <1>4, <2>a, RegistryGrows
  <2>4. stopping' \in 1 .. Len(waku_nodes') + 1
    BY <1>0, <2>0, <2>3 DEF NodesTypeOK
  <2>5. /\ docker' \in [Containers -> {"absent", "created"} \cup Live]
        /\ at' \in [NodeSet -> Starting \cup {"new", "up", "failed", "stopped"}]
        /\ handle' \in [NodeSet -> 0 .. MaxAttempts]
    BY <1>0, <1>4, <2>1, Zenon DEF NodesTypeOK, Live, Starting
  <2>6. NodesTypeOK'
    BY <1>0, <2>0, <2>3, <2>4, <2>5, Zenon DEF NodesTypeOK
  <2>7. /\ at'[n] = "health" /\ handle'[n] = attempt[n] /\ attempt'[n] = attempt[n]
        /\ \A m \in NodeSet \ {n} : at'[m] = at[m] /\ handle'[m] = handle[m]
    BY <1>0, <1>4, <2>0, Zenon DEF NodesTypeOK
  <2>8. \A m \in NodeSet, i \in 1 .. MaxAttempts :
          docker'[<<m, i>>] = docker[<<m, i>>] \/ (m = n /\ i = attempt[n])
    <3> SUFFICES ASSUME NEW m \in NodeSet, NEW i \in 1 .. MaxAttempts,
                        ~(m = n /\ i = attempt[n])
                 PROVE  docker'[<<m, i>>] = docker[<<m, i>>]
      BY Zenon
    <3>1. <<m, i>> \in Containers /\ <<m, i>> # <<n, attempt[n]>>
      BY Zenon DEF Containers
    <3> QED BY <1>0, <1>4, <3>1, Zenon DEF NodesTypeOK
  <2>9. \A m : Registered(m) => Registered(m)'
    BY <2>3, Zenon DEF Registered
  <2>10. Apart(n)
    BY <2>0, <2>7, <2>8, <2>9, Zenon DEF Apart
  <2>11. Registered(n)'
    BY <2>3, Zenon DEF Registered
  <2>12. \A i \in 1 .. MaxAttempts :
           docker'[<<n, i>>] \in Live => i = handle'[n] \/ <<n, i>> \in refused'
    <3>1. \A i \in 1 .. MaxAttempts : i # 0
      BY TestNodesAssumption
    <3>2. \A i \in 1 .. MaxAttempts :
            docker[<<n, i>>] \in Live => i = handle[n] \/ <<n, i>> \in refused
      BY <1>0, <1>2, Zenon DEF NodeRight
    <3>3. handle[n] = 0 \/ <<n, handle[n]>> \in refused
      BY <1>0, <1>2, Zenon DEF Released
    <3> QED BY <2>0, <2>7, <2>8, <3>1, <3>2, <3>3, Zenon
  <2>13. "health" \notin Unstarted /\ handle'[n] # 0
    BY <1>2, <2>7, Zenon DEF Unstarted
  <2>14. NodeRight(n)'
    BY <1>2, <2>7, <2>11, <2>12, <2>13, Zenon DEF NodeRight, Registered
  <2> QED BY <1>2, <2>0, <2>6, <2>7, <2>10, <2>14, OneNode, Zenon
<1> QED BY <1>3, <1>4, Zenon DEF StartContainer

\* ensure_ready succeeds, first with the health and then with the info.
LEMMA HealthyStep == ASSUME NodesInv, NEW n \in NodeSet, CheckHealthy(n) PROVE NodesInv'
<1>0. NodesTypeOK /\ NodeRight(n)
  BY Zenon DEF NodesInv
<1>1. /\ at[n] = "health" /\ at' = [at EXCEPT ![n] = "info"]
      /\ UNCHANGED <<parallel, network, docker, postgres, attempt, handle, info,
                     waku_nodes, phase, ops, stopping, refused>>
  BY Zenon DEF CheckHealthy
<1>2. at[n] \in Starting \ {"prepare"}
  BY <1>1, Zenon DEF Starting
<1>3. attempt[n] # 0 /\ handle[n] # 0 /\ phase \in {"setup", "body"}
  BY <1>0, <1>1, <1>2, StartsEarly, Zenon DEF NodeRight
<1>4. "info" \in Starting \cup {"failed"} /\ "info" \notin Unstarted /\ "info" # "prepare"
  BY Zenon DEF Starting, Unstarted
<1>5. /\ attempt[n] \in 0 .. MaxAttempts /\ attempt' = [attempt EXCEPT ![n] = attempt[n]]
      /\ network' \in BOOLEAN /\ ops' \in 0 .. MaxOps
      /\ docker' \in [Containers -> {"absent", "created"} \cup Live]
  BY <1>0, <1>1, Zenon DEF NodesTypeOK
<1> QED BY <1>1, <1>3, <1>4, <1>5, Moves, Zenon

\* get_info answers: the info kept is that of the container held.
LEMMA ReadyStep == ASSUME NodesInv, NEW n \in NodeSet, CheckReady(n) PROVE NodesInv'
<1>0. NodesTypeOK /\ NodeRight(n)
  BY Zenon DEF NodesInv
<1>1. /\ at[n] = "info" /\ at' = [at EXCEPT ![n] = "up"]
      /\ info' = [info EXCEPT ![n] = handle[n]]
      /\ UNCHANGED <<parallel, network, docker, postgres, attempt, handle,
                     waku_nodes, phase, ops, stopping, refused>>
  BY Zenon DEF CheckReady
<1>2. at[n] \in Starting
  BY <1>1, Zenon DEF Starting
<1>3. handle[n] # 0 /\ phase \in {"setup", "body"}
  BY <1>0, <1>1, <1>2, StartsEarly, Zenon DEF NodeRight
<1>4. NodesTypeOK'
  BY <1>0, <1>1, Zenon DEF NodesTypeOK
<1>5. /\ at'[n] = "up" /\ info'[n] = handle[n]
      /\ \A m \in NodeSet \ {n} : at'[m] = at[m] /\ info'[m] = info[m]
  BY <1>0, <1>1, Zenon DEF NodesTypeOK
<1>6. Apart(n)
  BY <1>1, <1>5, Zenon DEF Apart, Registered
<1>7. "up" \notin Starting /\ "up" \notin Unstarted
  BY Zenon DEF Starting, Unstarted
<1>8. NodeRight(n)'
  BY <1>0, <1>1, <1>5, <1>7, Zenon DEF NodeRight
<1> QED BY <1>1, <1>3, <1>4, <1>5, <1>6, <1>8, OneNode, Zenon

\* What stop() does, whether it returns or raises.
StopDone(n) ==
    /\ docker' \in [Containers -> {"absent", "created"} \cup Live]
    /\ handle' \in [NodeSet -> 0 .. MaxAttempts]
    /\ refused' \subseteq Containers /\ refused \subseteq refused'
    /\ \A c \in Containers : docker'[c] \in Live => docker[c] \in Live
    /\ \A m \in NodeSet : handle'[m] # 0 => handle'[m] = handle[m]
    /\ \A m \in NodeSet \ {n} : handle'[m] = handle[m]
    /\ \A i \in 1 .. MaxAttempts :
         docker'[<<n, i>>] \in Live => i = handle'[n] \/ <<n, i>> \in refused'
    /\ Released(n)'

\* A stop leaves the node released: the container is gone, or Docker refused.
LEMMA StopReleases ==
    ASSUME NodesTypeOK, NEW n \in NodeSet, NodeRight(n), Stop(n)
    PROVE  StopDone(n)
<1>1. handle[n] # 0 => handle[n] \in 1 .. MaxAttempts /\ <<n, handle[n]>> \in Containers
  BY DEF NodesTypeOK, Containers
<1>2. /\ docker \in [Containers -> {"absent", "created"} \cup Live]
      /\ handle \in [NodeSet -> 0 .. MaxAttempts] /\ refused \subseteq Containers
  BY Zenon DEF NodesTypeOK
<1>3. \A i \in 1 .. MaxAttempts :
        docker[<<n, i>>] \in Live => i = handle[n] \/ <<n, i>> \in refused
  BY Zenon DEF NodeRight
<1>4. CASE StopRaises(n)
  <2>1. /\ refused' = refused \cup {<<n, handle[n]>>} /\ handle[n] # 0
        /\ UNCHANGED <<docker, handle>>
    BY <1>4, Zenon DEF StopRaises
  <2>2. Released(n)' /\ refused' \subseteq Containers
    BY <1>1, <1>2, <2>1, Zenon DEF Released
  <2> QED BY <1>2, <1>3, <2>1, <2>2, Zenon DEF StopDone
<1>5. CASE StopOK(n)
  <2>1. /\ handle' = [handle EXCEPT ![n] = 0] /\ UNCHANGED refused
        /\ docker' = IF handle[n] = 0 THEN docker
                     ELSE [docker EXCEPT ![<<n, handle[n]>>] = "absent"]
    BY <1>5, Zenon DEF StopOK
  <2>2. 0 \in 0 .. MaxAttempts
    BY TestNodesAssumption
  <2>3. /\ handle' \in [NodeSet -> 0 .. MaxAttempts] /\ handle'[n] = 0
        /\ \A m \in NodeSet \ {n} : handle'[m] = handle[m]
    BY <1>2, <2>1, <2>2, Zenon
  <2>4. docker' \in [Containers -> {"absent", "created"} \cup Live]
    BY <1>2, <2>1, Zenon
  <2>5. "absent" \notin Live
    BY Zenon DEF Live
  <2>6. \A c \in Containers : docker'[c] \in Live => docker[c] \in Live
    BY <1>2, <2>1, <2>5, Zenon
  <2>7. handle[n] # 0 => docker'[<<n, handle[n]>>] \notin Live
    BY <1>1, <1>2, <2>1, <2>5, Zenon
  <2>8. \A i \in 1 .. MaxAttempts : i # 0 /\ <<n, i>> \in Containers
    BY DEF Containers
  <2>9. \A i \in 1 .. MaxAttempts : docker'[<<n, i>>] \in Live => <<n, i>> \in refused'
    BY <1>3, <2>1, <2>6, <2>7, <2>8, Zenon
  <2>10. Released(n)' /\ \A m \in NodeSet : handle'[m] # 0 => handle'[m] = handle[m]
    BY <2>3, Zenon DEF Released
  <2> QED BY <1>2, <2>1, <2>3, <2>4, <2>6, <2>9, <2>10, Zenon DEF StopDone
<1> QED BY <1>4, <1>5, Zenon DEF Stop

\* A node that is stopped, or whose start() failed, is right and apart.
LEMMA StoppedNode ==
    ASSUME NodesInv, NEW n \in NodeSet, StopDone(n), at[n] # "new",
           NEW x \in {"prepare", "failed", "stopped"}, at' = [at EXCEPT ![n] = x],
           x = "prepare" => attempt[n] < MaxAttempts,
           phase \in {"setup", "body"}, ops' \in 0 .. MaxOps,
           UNCHANGED <<parallel, network, postgres, attempt, info, waku_nodes,
                       phase, stopping>>
    PROVE  NodesInv'
<1>0. NodesTypeOK /\ NodeRight(n)
  BY Zenon DEF NodesInv
<1>1. x \notin Starting \ {"prepare"} /\ x # "new" /\ x # "up" /\ x \notin {"health", "info"}
      /\ x \in Starting \cup {"new", "up", "failed", "stopped"}
  BY Zenon DEF Starting
<1>2. NodesTypeOK'
  BY <1>0, <1>1, Zenon DEF NodesTypeOK, StopDone
<1>3. /\ at'[n] = x /\ \A m \in NodeSet \ {n} : at'[m] = at[m]
  BY <1>0, Zenon DEF NodesTypeOK
<1>4. \A m \in NodeSet, i \in 1 .. MaxAttempts : <<m, i>> \in Containers
  BY Zenon DEF Containers
<1>5. Apart(n)
  BY <1>3, <1>4, Zenon DEF Apart, Registered, StopDone
<1>6. Released(n)' /\ (handle'[n] # 0 => handle[n] # 0)
  BY Zenon DEF StopDone
<1>7. NodeRight(n)'
  BY <1>0, <1>1, <1>3, <1>6, Zenon DEF NodeRight, StopDone
<1> QED BY <1>1, <1>2, <1>3, <1>5, <1>7, OneNode, Zenon

\* _start_docker stops the container that does not get ready.
LEMMA NeverReadyStep == ASSUME NodesInv, NEW n \in NodeSet, NeverReady(n) PROVE NodesInv'
<1>0. NodesTypeOK /\ NodeRight(n)
  BY Zenon DEF NodesInv
<1>1. /\ at[n] \in {"health", "info"} /\ Stop(n) /\ Retry(n)
      /\ UNCHANGED <<parallel, network, postgres, attempt, info, waku_nodes,
                     phase, ops, stopping>>
  BY Zenon DEF NeverReady
<1>2. at[n] \in Starting /\ at[n] # "new"
  BY <1>1, Zenon DEF Starting
<1>3. StopDone(n) /\ phase \in {"setup", "body"} /\ ops' \in 0 .. MaxOps
  BY <1>0, <1>1, <1>2, StopReleases, StartsEarly, Zenon DEF NodesTypeOK
<1>4. PICK x \in {"prepare", "failed", "stopped"} :
        at' = [at EXCEPT ![n] = x] /\ (x = "prepare" => attempt[n] < MaxAttempts)
  BY <1>1, Zenon DEF Retry
<1> QED BY <1>1, <1>2, <1>3, <1>4, StoppedNode, Zenon

\* The operations of the test body: the first exception ends it.
LEMMA BodyStep ==
    ASSUME NodesInv, NEW n \in NodeSet,
           BodyStop(n) \/ BodyStart(n) \/ BodyRestart(n) \/ BodyPause(n)
    PROVE  NodesInv'
<1>0. NodesTypeOK /\ NodeRight(n) /\ InfoCurrent
  BY Zenon DEF NodesInv
<1>1. /\ phase = "body" /\ ops < MaxOps /\ ops' = ops + 1
      /\ \A m \in NodeSet : at[m] \in {"up", "stopped"}
      /\ UNCHANGED <<parallel, network, postgres, attempt, waku_nodes, stopping>>
  BY Zenon DEF BodyStop, BodyStart, BodyRestart, BodyPause, BodyTurn
<1>2. ops' \in 0 .. MaxOps
  BY <1>0, <1>1, TestNodesAssumption DEF NodesTypeOK
<1>3. \A m \in NodeSet : at[m] \notin Starting
  BY <1>1, Zenon DEF Starting
<1>4. ASSUME phase' = "teardown", NodesTypeOK', UNCHANGED <<docker, at, handle>>,
             refused \subseteq refused'
      PROVE  NodesInv'
  BY <1>1, <1>3, <1>4, ToTeardown, Zenon
<1>5. at[n] = "up" => handle[n] # 0 /\ info[n] = handle[n]
  BY <1>0, <1>1, Zenon DEF InfoCurrent
<1>6. CASE BodyStop(n)
  <2>1. at[n] = "up" /\ UNCHANGED info
    BY <1>6, Zenon DEF BodyStop
  <2>2. CASE StopOK(n) /\ at' = [at EXCEPT ![n] = "stopped"] /\ UNCHANGED phase
    <3>1. StopDone(n)
      BY <1>0, <2>2, StopReleases, Zenon DEF Stop
    <3> QED BY <1>1, <1>2, <2>1, <2>2, <3>1, StoppedNode, Zenon
  <2>3. CASE StopRaises(n) /\ phase' = "teardown" /\ UNCHANGED at
    <3>1. StopDone(n) /\ UNCHANGED <<docker, handle>>
      BY <1>0, <2>3, StopReleases, Zenon DEF Stop, StopRaises
    <3>2. NodesTypeOK' /\ refused \subseteq refused'
      BY <1>0, <1>1, <1>2, <2>1, <2>3, <3>1, Zenon DEF NodesTypeOK, StopDone
    <3> QED BY <1>4, <2>3, <3>1, <3>2, Zenon
  <2> QED BY <1>6, <2>2, <2>3, Zenon DEF BodyStop
<1>7. CASE BodyStart(n)
  <2>1. /\ at[n] = "stopped" /\ attempt[n] < MaxAttempts
        /\ at' = [at EXCEPT ![n] = "prepare"]
        /\ UNCHANGED <<docker, handle, info, phase, refused>>
    BY <1>7, Zenon DEF BodyStart
  <2>2. Released(n)
    BY <1>0, <2>1, Zenon DEF NodeRight, Unstarted
  <2>3. /\ attempt[n] \in 0 .. MaxAttempts /\ attempt' = [attempt EXCEPT ![n] = attempt[n]]
        /\ network' \in BOOLEAN
        /\ docker' \in [Containers -> {"absent", "created"} \cup Live]
    BY <1>0, <1>1, <2>1, Zenon DEF NodesTypeOK
  <2>4. "prepare" \in Starting \cup {"failed"}
    BY Zenon DEF Starting
  <2> QED BY <1>1, <1>2, <2>1, <2>2, <2>3, <2>4, Moves, Zenon
<1>8. CASE BodyRestart(n)
  <2>1. at[n] = "up" /\ UNCHANGED <<docker, at, handle, refused>>
    BY <1>8, Zenon DEF BodyRestart
  <2>2. CASE phase' = "teardown" /\ UNCHANGED info
    <3>1. NodesTypeOK'
      BY <1>0, <1>1, <1>2, <2>1, <2>2, Zenon DEF NodesTypeOK
    <3> QED BY <1>4, <2>1, <2>2, <3>1, Zenon
  <2>3. CASE UNCHANGED phase /\ (UNCHANGED info \/ info' = [info EXCEPT ![n] = handle[n]])
    <3>1. /\ info' \in [NodeSet -> 0 .. MaxAttempts] /\ info'[n] = handle[n]
          /\ \A m \in NodeSet \ {n} : info'[m] = info[m]
      BY <1>0, <1>5, <2>1, <2>3, Zenon DEF NodesTypeOK
    <3>2. NodesTypeOK'
      BY <1>0, <1>1, <1>2, <2>1, <2>3, <3>1, Zenon DEF NodesTypeOK
    <3>3. Apart(n) /\ NodeRight(n)'
      BY <1>0, <1>1, <2>1, <3>1, Zenon DEF Apart, Registered, NodeRight, Released
    <3> QED BY <1>1, <1>5, <2>1, <2>3, <3>1, <3>2, <3>3, OneNode, Zenon
  <2> QED BY <1>8, <2>2, <2>3, Zenon DEF BodyRestart
<1>9. CASE BodyPause(n)
  <2> DEFINE c == <<n, handle[n]>>
  <2>1. at[n] = "up" /\ UNCHANGED <<at, handle, info, refused>>
    BY <1>9, Zenon DEF BodyPause
  <2>2. CASE phase' = "teardown" /\ UNCHANGED docker
    <3>1. NodesTypeOK'
      BY <1>0, <1>1, <1>2, <2>1, <2>2, Zenon DEF NodesTypeOK
    <3> QED BY <1>4, <2>1, <2>2, <3>1, Zenon
  <2>3. CASE /\ docker[c] \in Live /\ UNCHANGED phase
             /\ docker' = [docker EXCEPT ![c] = IF @ = "running" THEN "paused" ELSE "running"]
    <3>1. docker' \in [Containers -> {"absent", "created"} \cup Live]
      BY <1>0, <2>3, Zenon DEF NodesTypeOK, Live
    <3>2. \A d \in Containers : docker'[d] \in Live => docker[d] \in Live
      BY <1>0, <2>3, Zenon DEF NodesTypeOK
    <3>3. \A m \in NodeSet, i \in 1 .. MaxAttempts : <<m, i>> \in Containers
      BY Zenon DEF Containers
    <3>4. NodesTypeOK'
      BY <1>0, <1>1, <1>2, <2>1, <2>3, <3>1, Zenon DEF NodesTypeOK
    <3>5. Apart(n) /\ NodeRight(n)'
      BY <1>0, <1>1, <2>1, <3>2, <3>3, Zenon DEF Apart, Registered, NodeRight, Released
    <3> QED BY <1>1, <1>5, <2>1, <2>3, <3>4, <3>5, OneNode, Zenon
  <2> QED BY <1>9, <2>2, <2>3, Zenon DEF BodyPause
<1> QED BY <1>6, <1>7, <1>8, <1>9, Zenon

\* The set-up and the body end, with an exception or without.
LEMMA EndStep == ASSUME NodesInv, SetupEnds \/ BodyEnds PROVE NodesInv'
<1>0. NodesTypeOK
  BY Zenon DEF NodesInv
<1>1. /\ phase \in {"setup", "body"} /\ phase' \in {"teardown", "body"}
      /\ \A n \in NodeSet : at[n] \notin Starting
      /\ UNCHANGED <<parallel, network, docker, postgres, at, attempt, handle, info,
                     waku_nodes, ops, stopping, refused>>
  BY Zenon DEF SetupEnds, BodyEnds
<1>2. NodesTypeOK'
  BY <1>0, <1>1, Zenon DEF NodesTypeOK
<1>3. CASE phase' = "teardown"
  BY <1>1, <1>2, <1>3, ToTeardown, Zenon
<1>4. CASE phase' = "body"
  <2>1. \A m \in NodeSet : NodeRight(m)'
    BY <1>1, SameNode, Zenon DEF NodesInv, Registered
  <2>2. TestRight' /\ InfoCurrent'
    BY <1>1, <1>4, Zenon DEF NodesInv, TestRight, InfoCurrent
  <2> QED BY <1>2, <2>1, <2>2, Zenon DEF NodesInv
<1> QED BY <1>1, <1>3, <1>4, Zenon

\* close_open_nodes stops the next entry and goes on, whatever stop() raises.
LEMMA CloseStep == ASSUME NodesInv, CloseNode PROVE NodesInv'
<1>0. NodesTypeOK /\ TestRight
  BY Zenon DEF NodesInv
<1>1. /\ phase = "teardown" /\ stopping <= Len(waku_nodes) /\ Stop(waku_nodes[stopping])
      /\ stopping' = stopping + 1
      /\ UNCHANGED <<parallel, network, postgres, at, attempt, info, waku_nodes, phase, ops>>
  BY Zenon DEF CloseNode
<1>2. PICK n \in NodeSet : n = waku_nodes[stopping]
  BY <1>0, <1>1 DEF NodesTypeOK
<1>3. NodeRight(n) /\ StopDone(n)
  BY <1>0, <1>1, <1>2, StopReleases, Zenon DEF NodesInv
<1>4. stopping' \in 1 .. Len(waku_nodes') + 1
  BY <1>0, <1>1 DEF NodesTypeOK
<1>5. NodesTypeOK'
  BY <1>0, <1>1, <1>3, <1>4, Zenon DEF NodesTypeOK, StopDone
<1>6. \A m \in NodeSet : at[m] \notin Starting
  BY <1>0, <1>1, Zenon DEF TestRight
<1>7. \A m \in NodeSet : NodeRight(m)'
  <2>0. \A m \in NodeSet, i \in 1 .. MaxAttempts : <<m, i>> \in Containers
    BY Zenon DEF Containers
  <2>1. ASSUME NEW m \in NodeSet, m # n PROVE NodeRight(m)'
    BY <1>1, <1>3, <2>0, <2>1, SameNode, Zenon DEF NodesInv, StopDone, Registered
  <2>2. "health" \in Starting /\ "info" \in Starting
    BY Zenon DEF Starting
  <2>3. Released(n)' /\ (handle'[n] # 0 => handle[n] # 0)
    BY <1>2, <1>3, Zenon DEF StopDone
  <2>4. NodeRight(n)'
    BY <1>1, <1>2, <1>3, <1>6, <2>2, <2>3, Zenon DEF NodeRight, StopDone
  <2> QED BY <2>1, <2>4, Zenon
<1>8. \A j \in 1 .. stopping' - 1 : Released(waku_nodes[j])'
  <2> SUFFICES ASSUME NEW j \in 1 .. stopping' - 1
               PROVE  Released(waku_nodes[j])'
    BY Zenon
  <2>0. /\ waku_nodes \in Seq(NodeSet) /\ stopping \in Nat
        /\ j \in 1 .. stopping /\ stopping <= Len(waku_nodes)
    BY <1>0, <1>1 DEF NodesTypeOK
  <2>1. j \in DOMAIN waku_nodes /\ (j = stopping \/ j \in 1 .. stopping - 1)
    BY <2>0
  <2>2. waku_nodes[j] \in NodeSet /\ waku_nodes'[j] = waku_nodes[j]
    BY <1>0, <1>1, <2>1 DEF NodesTypeOK
  <2>3. CASE waku_nodes[j] = n
    BY <1>3, <2>2, <2>3, Zenon DEF StopDone, Released
  <2>4. CASE waku_nodes[j] # n
    <3>1. j \in 1 .. stopping - 1
      BY <1>2, <2>1, <2>4, Zenon
    <3>2. Released(waku_nodes[j])
      BY <1>0, <1>1, <3>1, Zenon DEF TestRight
    <3> QED BY <1>3, <2>2, <2>4, <3>2, Zenon DEF StopDone, Released
  <2> QED BY <2>3, <2>4, Zenon
<1>9. TestRight'
  BY <1>1, <1>6, <1>8, Zenon DEF TestRight
<1>10. InfoCurrent'
  BY <1>1, Zenon DEF InfoCurrent
<1> QED BY <1>5, <1>7, <1>9, <1>10, Zenon DEF NodesInv

\* Every other step leaves the nodes and the place of the test alone, but for a
\* container that exits, the postgres container, and the end of the teardown.
LEMMA RestStep ==
    ASSUME NodesInv,
           \/ StartPostgres \/ StopPostgres \/ TeardownEnds
           \/ \E c \in Containers : Crash(c)
           \/ UNCHANGED nodeVars
    PROVE  NodesInv'
<1>0. NodesTypeOK /\ TestRight /\ InfoCurrent
  BY Zenon DEF NodesInv
<1>1. /\ UNCHANGED <<parallel, at, attempt, handle, info, waku_nodes, ops, stopping, refused>>
      /\ network' \in BOOLEAN
      /\ postgres' \in {"unused", "wanted", "running", "failed", "leftover", "removed"}
  BY <1>0, Zenon
     DEF NodesTypeOK, StartPostgres, StopPostgres, TeardownEnds, Crash, nodeVars
<1>2. /\ docker' \in [Containers -> {"absent", "created"} \cup Live]
      /\ \A c \in Containers : docker'[c] \in Live => docker[c] \in Live
  <2>1. "absent" \notin Live
    BY Zenon DEF Live
  <2> QED BY <1>0, <2>1, Zenon DEF NodesTypeOK, StartPostgres, StopPostgres, TeardownEnds,
                 Crash, nodeVars
<1>3. \/ UNCHANGED phase /\ (phase = "over" => UNCHANGED postgres)
      \/ /\ phase = "teardown" /\ phase' = "over" /\ stopping > Len(waku_nodes)
         /\ postgres # "running" /\ UNCHANGED postgres
  BY Zenon DEF StartPostgres, StopPostgres, TeardownEnds, Crash, nodeVars
<1>4. NodesTypeOK'
  BY <1>0, <1>1, <1>2, <1>3, Zenon DEF NodesTypeOK
<1>5. \A m \in NodeSet : NodeRight(m)'
  <2>1. \A m \in NodeSet, i \in 1 .. MaxAttempts : <<m, i>> \in Containers
    BY Zenon DEF Containers
  <2> QED BY <1>1, <1>2, <2>1, SameNode, Zenon DEF NodesInv, Registered
<1>6. \A m : Released(m)' <=> Released(m)
  BY <1>1, Zenon DEF Released
<1>7. TestRight'
  BY <1>0, <1>1, <1>3, <1>6, Zenon DEF TestRight, Released
<1>8. InfoCurrent'
  BY <1>0, <1>1, <1>3, Zenon DEF InfoCurrent
<1> QED BY <1>4, <1>5, <1>7, <1>8, Zenon DEF NodesInv

\* Before the first start() there is no container and no entry.
LEMMA NodesInitially == NodesInit => NodesInv
<1> SUFFICES ASSUME NodesInit PROVE NodesInv
  BY Zenon
<1>1. NodesTypeOK
  BY TestNodesAssumption DEF NodesInit, NodesTypeOK
<1>2. ASSUME NEW n \in NodeSet PROVE NodeRight(n)
  <2>1. /\ at[n] = "new" /\ attempt[n] = 0 /\ handle[n] = 0
        /\ \A i \in 1 .. MaxAttempts : docker[<<n, i>>] = "absent"
    BY <1>2, Zenon DEF NodesInit, Containers
  <2> QED BY <2>1, Zenon DEF NodeRight, Released, Starting, Live
<1>3. TestRight /\ InfoCurrent
  BY Zenon DEF NodesInit, TestRight, InfoCurrent
<1> QED BY <1>1, <1>2, <1>3, Zenon DEF NodesInv

\* The invariant of a test's containers holds for any number of nodes, attempts
\* and operations of the body.
THEOREM NodesInvariant == NodesSpec => []NodesInv
<1>1. NodesInv /\ [NodesNext]_nodeVars => NodesInv'
  <2> SUFFICES ASSUME NodesInv, [NodesNext]_nodeVars PROVE NodesInv'
    BY Zenon
  <2>1. ASSUME NEW n \in NodeSet, StartStep(n) PROVE NodesInv'
    BY <2>1, BeginStep, PrepareStep, CreateStep, StartedStep, HealthyStep, ReadyStep,
       NeverReadyStep, Zenon DEF StartStep
  <2> QED BY <2>1, BodyStep, EndStep, CloseStep, RestStep, Zenon DEF NodesNext, TestStep
<1> QED BY <1>1, NodesInitially, PTL DEF NodesSpec

\* A node never has two running containers, except one Docker would not stop:
\* _start_docker stops a container that never gets ready before it tries again.
THEOREM OneContainerAlways == NodesSpec => []OneContainerPerNode
<1>1. NodesInv => OneContainerPerNode
  <2> SUFFICES ASSUME NodesInv, NEW n \in NodeSet
               PROVE  Cardinality({i \in 1 .. MaxAttempts :
                        docker[<<n, i>>] \in Live /\ <<n, i>> \notin refused}) <= 1
    BY Zenon DEF OneContainerPerNode
  <2> DEFINE S == {i \in 1 .. MaxAttempts :
                     docker[<<n, i>>] \in Live /\ <<n, i>> \notin refused}
  <2>1. S \subseteq {handle[n]}
    BY Zenon DEF NodesInv, NodeRight
  <2>2. \A x, y \in S : x = y
    BY <2>1, Zenon
  <2> HIDE DEF S
  <2>4. Cardinality(S) <= 1
    BY <2>2, AtMostOne, Zenon
  <2> QED BY <2>4, Zenon DEF S
<1> QED BY <1>1, NodesInvariant, PTL

\* After the teardown nothing runs but what Docker would not stop: close_open_nodes
\* reaches every container that any start() of the test left running.
THEOREM TeardownComplete == NodesSpec => []NothingLeftRunning
<1>1. NodesInv => NothingLeftRunning
  <2> SUFFICES ASSUME NodesInv, phase = "over" PROVE NothingLeftRunning
    BY Zenon DEF NothingLeftRunning
  <2>0. NodesTypeOK /\ TestRight
    BY Zenon DEF NodesInv
  <2>1. ASSUME NEW n \in NodeSet PROVE Released(n)
    <3>1. CASE handle[n] = 0
      BY <3>1, Zenon DEF Released
    <3>2. CASE handle[n] # 0
      <4>1. PICK j \in DOMAIN waku_nodes : waku_nodes[j] = n
        BY <2>1, <3>2, Zenon DEF NodesInv, NodeRight
      <4>2. stopping > Len(waku_nodes) /\ stopping \in Nat /\ waku_nodes \in Seq(NodeSet)
        BY <2>0 DEF NodesTypeOK, TestRight
      <4>3. j \in 1 .. stopping - 1
        BY <4>2
      <4> QED BY <2>0, <4>1, <4>3, Zenon DEF TestRight
    <3> QED BY <3>1, <3>2, Zenon
  <2>2. ASSUME NEW c \in Containers \ refused PROVE docker[c] \in {"absent", "created"}
    <3>1. PICK n \in NodeSet, i \in 1 .. MaxAttempts : c = <<n, i>>
      BY <2>2 DEF Containers
    <3>2. i # 0
      BY <3>1
    <3>3. docker[c] \notin Live
      BY <2>1, <2>2, <3>1, <3>2, Zenon DEF NodesInv, NodeRight, Released
    <3> QED BY <2>0, <2>2, <3>3, Zenon DEF NodesTypeOK
  <2>3. postgres # "running"
    BY <2>0, Zenon DEF TestRight
  <2> QED BY <2>2, <2>3, Zenon DEF NothingLeftRunning
<1> QED BY <1>1, NodesInvariant, PTL

\* The info a started node answers with is that of the container it holds now.
THEOREM InfoAlwaysCurrent == NodesSpec => []InfoCurrent
<1>1. NodesInv => InfoCurrent
  BY Zenon DEF NodesInv
<1> QED BY <1>1, NodesInvariant, PTL

-----------------------------------------------------------------------------
(* The waits of a test: WaitsInv is inductive.                             *)

\* The names of the events of a send request.
Names == {"queued", "propagated", "sent", "error"}

\* The types the argument needs.
WaitTypes ==
    /\ WaitsTypeOK
    /\ events \in [Requests -> Seq(Names)]
    /\ buffered \in [Requests -> Seq(Names)] /\ gathered \in [Requests -> Seq(Names)]
    /\ topicHealth \in [Shards -> Seq(BOOLEAN)]

\* The looks so far missed nothing: the last one was at this tick or at the one
\* before, and the target did not hold then.
MissedNothing ==
    /\ since # Never => Target
    /\ wpc = "sleep" => now < timeout_s /\ now <= since
    /\ wpc = "look" => now <= since + 1

\* Every event a GET may still return comes after those returned.
NoEventLost ==
    helper \in Collectors => \A r \in Requests : gathered[r] \o buffered[r] = events[r]

\* What a wait that has ended says is so.
EndsRight ==
    /\ wpc = "none" =>
        since >= IF helper \in Kinds \cup {"assert_no_error"}
                 THEN timeout_s ELSE timeout_s - 1
    /\ wpc = "found" =>
        /\ Target
        /\ helper = "collect_send_events" => gathered[request_id] = events[request_id]

\* The inductive invariant of a wait.
WaitsInv == WaitTypes /\ MissedNothing /\ NoEventLost /\ EndsRight
-----------------------------------------------------------------------------
\* What the test is promised of one request's events.
Promised(s) ==
    /\ s \in Seq(Names)
    /\ \A i, j \in DOMAIN s : s[i] = s[j] => i = j
    /\ \A i, j \in DOMAIN s : s[i] = "propagated" /\ s[j] = "sent" => i < j

\* Every legal sequence of events has each event once, and `propagated` before
\* `sent`.
LEMMA LegalPromised == \A r : \A s \in Legal(r) : Promised(s)
<1>1. /\ Promised(<< >>) /\ Promised(<<"error">>) /\ Promised(<<"propagated">>)
      /\ Promised(<<"queued">>)
  BY DEF Promised, Names
<1>2. Promised(<<"propagated", "sent">>)
  BY DEF Promised, Names
<1>3. Promised(<<"propagated", "error">>)
  BY DEF Promised, Names
<1>4. Promised(<<"queued", "error">>) /\ Promised(<<"queued", "propagated">>)
  BY DEF Promised, Names
<1>5. Promised(<<"queued", "propagated", "sent">>)
  BY DEF Promised, Names
<1>6. Promised(<<"queued", "propagated", "error">>)
  BY DEF Promised, Names
<1>7. <<"queued">> \o << >> = <<"queued">>
  OBVIOUS
<1>a. ASSUME NEW x \in Names PROVE <<"queued">> \o <<x>> = <<"queued", x>>
  <2> DEFINE s == <<"queued">> \o <<x>>
             u == <<"queued", x>>
  <2>1. s \in Seq(Names) /\ u \in Seq(Names) /\ Len(s) = Len(u) /\ Len(u) = 2
    BY <1>a DEF Names
  <2>2. s[1] = u[1] /\ s[2] = u[2]
    BY <1>a DEF Names
  <2>3. \A i \in 1 .. Len(s) : s[i] = u[i]
    BY <2>1, <2>2
  <2> HIDE DEF s, u
  <2>4. s = u
    BY <2>1, <2>3, SameSequence, Zenon
  <2> QED BY <2>4, Zenon DEF s, u
<1>b. ASSUME NEW x \in Names PROVE
         <<"queued">> \o <<"propagated", x>> = <<"queued", "propagated", x>>
  <2> DEFINE s == <<"queued">> \o <<"propagated", x>>
             u == <<"queued", "propagated", x>>
  <2>1. s \in Seq(Names) /\ u \in Seq(Names) /\ Len(s) = Len(u) /\ Len(u) = 3
    BY <1>b DEF Names
  <2>2. s[1] = u[1] /\ s[2] = u[2] /\ s[3] = u[3]
    BY <1>b DEF Names
  <2>3. \A i \in 1 .. Len(s) : s[i] = u[i]
    BY <2>1, <2>2
  <2> HIDE DEF s, u
  <2>4. s = u
    BY <2>1, <2>3, SameSequence, Zenon
  <2> QED BY <2>4, Zenon DEF s, u
<1>c. "error" \in Names /\ "propagated" \in Names /\ "sent" \in Names
  BY Zenon DEF Names
<1> DEFINE All == {<< >>, <<"error">>, <<"propagated">>, <<"propagated", "sent">>,
                   <<"propagated", "error">>}
<1>8. \A r : Outcomes(r) \subseteq All
  BY Zenon DEF Outcomes
<1>9. \A s \in All : Promised(s) /\ Promised(<<"queued">> \o s)
  BY <1>1, <1>2, <1>3, <1>4, <1>5, <1>6, <1>7, <1>a, <1>b, <1>c, Zenon
<1> HIDE DEF All
<1> QED BY <1>8, <1>9, Zenon DEF Legal

\* assert_event_invariants accepts what is promised.
LEMMA PromiseAccepted ==
    ASSUME NEW s, Promised(s), s # << >> PROVE assert_event_invariants(s)
<1> DEFINE At(k) == {i \in DOMAIN s : s[i] = k}
<1>1. ASSUME NEW k PROVE Cardinality(At(k)) <= 1
  <2>1. \A i, j \in At(k) : i = j
    BY Zenon DEF Promised
  <2> HIDE DEF At
  <2> QED BY <2>1, AtMostOne, Zenon
<1>2. \A i \in At("propagated"), j \in At("sent") : i < j
  BY Zenon DEF Promised
<1> QED BY <1>1, <1>2, Zenon DEF assert_event_invariants

\* With what a report added to `e` to make it `t`, the events returned, `g`, and
\* those to come, `b`, are all of `t`.
StillAll(g, b, e, t) ==
    /\ b \o SubSeq(t, Len(e) + 1, Len(t)) \in Seq(Names)
    /\ g \o (b \o SubSeq(t, Len(e) + 1, Len(t))) = t

\* What ReportEvents buffers follows what was there.
LEMMA BufferedFollows ==
    ASSUME NEW g \in Seq(Names), NEW b \in Seq(Names),
           NEW e \in Seq(Names), NEW t \in Seq(Names),
           g \o b = e, Extends(e, t)
    PROVE  StillAll(g, b, e, t)
<1> DEFINE a == SubSeq(t, Len(e) + 1, Len(t))
<1>1. /\ Len(e) \in Nat /\ Len(t) \in Nat /\ Len(e) < Len(t)
      /\ \A i \in 1 .. Len(e) : t[i] = e[i]
  BY DEF Extends
<1>2. /\ a \in Seq(Names) /\ Len(a) = Len(t) - Len(e)
      /\ \A i \in 1 .. Len(a) : a[i] = t[Len(e) + i]
  BY <1>1
<1> HIDE DEF a
<1>3. Len(e) = Len(g) + Len(b)
  OBVIOUS
<1>4. /\ b \o a \in Seq(Names) /\ Len(b \o a) = Len(b) + Len(a)
      /\ \A i \in 1 .. Len(b) + Len(a) :
           (b \o a)[i] = IF i <= Len(b) THEN b[i] ELSE a[i - Len(b)]
  BY <1>2, Concatenation, Zenon
<1> DEFINE c == b \o a
<1>c. /\ c \in Seq(Names) /\ Len(c) = Len(b) + Len(a)
      /\ \A i \in 1 .. Len(b) + Len(a) : c[i] = IF i <= Len(b) THEN b[i] ELSE a[i - Len(b)]
  BY <1>4, Zenon
<1> HIDE DEF c
<1>g. /\ g \o c \in Seq(Names) /\ Len(g \o c) = Len(g) + Len(c)
      /\ \A i \in 1 .. Len(g) + Len(c) : (g \o c)[i] = IF i <= Len(g) THEN g[i] ELSE c[i - Len(g)]
  <2>1. c \in Seq(Names)
    BY <1>c, Zenon
  <2> QED BY <2>1, Concatenation, Zenon
<1> DEFINE d == g \o c
<1> HIDE DEF d
<1>n. Len(g) \in Nat /\ Len(b) \in Nat
  OBVIOUS
<1>l. Len(g) + Len(c) = Len(t)
  <2>1. /\ Len(c) = Len(b) + Len(a) /\ Len(a) = Len(t) - Len(e) /\ Len(e) = Len(g) + Len(b)
        /\ Len(g) \in Nat /\ Len(b) \in Nat /\ Len(e) \in Nat /\ Len(t) \in Nat
    BY <1>1, <1>2, <1>3, <1>c, <1>n, Zenon
  <2> QED BY <2>1
<1>5. /\ d \in Seq(Names) /\ Len(d) = Len(t)
      /\ \A i \in 1 .. Len(t) : d[i] = IF i <= Len(g) THEN g[i] ELSE c[i - Len(g)]
  BY <1>g, <1>l, Zenon DEF d
<1>6. \A i \in 1 .. Len(e) : e[i] = IF i <= Len(g) THEN g[i] ELSE b[i - Len(g)]
  BY <1>3
<1>7. \A i \in 1 .. Len(t) : d[i] = t[i]
  <2> SUFFICES ASSUME NEW i \in 1 .. Len(t) PROVE d[i] = t[i]
    BY Zenon
  <2>1. CASE i <= Len(g)
    BY <1>1, <1>3, <1>5, <1>6, <1>n, <2>1
  <2>2. CASE Len(g) < i /\ i <= Len(e)
    <3>1. c[i - Len(g)] = b[i - Len(g)]
      BY <1>1, <1>2, <1>3, <1>c, <1>n, <2>2
    <3> QED BY <1>1, <1>3, <1>5, <1>6, <1>n, <2>2, <3>1
  <2>3. CASE Len(e) < i
    <3>a. /\ i - Len(g) \in 1 .. Len(b) + Len(a) /\ ~(i - Len(g) <= Len(b))
          /\ (i - Len(g)) - Len(b) = i - Len(e)
      <4>1. Len(a) = Len(t) - Len(e)
        BY <1>2, Zenon
      <4> QED BY <1>1, <1>3, <1>n, <2>3, <4>1
    <3>1. c[i - Len(g)] = a[i - Len(e)]
      <4>1. \A k \in 1 .. Len(b) + Len(a) : c[k] = IF k <= Len(b) THEN b[k] ELSE a[k - Len(b)]
        BY <1>c, Zenon
      <4> QED BY <3>a, <4>1, Zenon
    <3>2. a[i - Len(e)] = t[i]
      BY <1>1, <1>2, <2>3
    <3> QED BY <1>1, <1>3, <1>5, <1>n, <2>3, <3>1, <3>2
  <2>4. i <= Len(g) \/ (Len(g) < i /\ i <= Len(e)) \/ Len(e) < i
    BY <1>1, <1>n
  <2> QED BY <2>1, <2>2, <2>3, <2>4, Zenon
<1>8. d = t
  BY <1>5, <1>7, SameSequence, Zenon
<1> QED BY <1>4, <1>8, Zenon DEF a, c, d, StillAll

-----------------------------------------------------------------------------
\* What each helper waits for, and when it gives up.
LEMMA TargetIs ==
    /\ helper = "connected" => (Target <=> connected)
    /\ helper = "mesh" => (Target <=> \E s \in Shards : Latest(topicHealth[s]))
    /\ helper = "collect_send_kinds" => \A evs :
         Holds(evs, connected, topicHealth) <=>
            Has(evs[request_id], {"propagated"}) /\ Has(evs[request_id], {"sent"})
    /\ helper = "collect_send_events" => \A evs :
         Holds(evs, connected, topicHealth) <=> Has(evs[request_id], {"sent", "error"})
    /\ helper = "collect_sent_request_ids" => \A evs :
         Holds(evs, connected, topicHealth) <=> Cardinality(SentIds(evs)) >= AwaitedIds
<1>1. ASSUME helper = "connected" PROVE Target <=> connected
  BY <1>1, Zenon DEF Target, Holds, Kinds
<1>2. ASSUME helper = "mesh" PROVE Target <=> \E s \in Shards : Latest(topicHealth[s])
  BY <1>2, Zenon DEF Target, Holds, Kinds
<1>3. ASSUME helper = "collect_send_kinds", NEW evs
      PROVE  Holds(evs, connected, topicHealth) <=>
                Has(evs[request_id], {"propagated"}) /\ Has(evs[request_id], {"sent"})
  BY <1>3, Zenon DEF Holds, Kinds
<1>4. ASSUME helper = "collect_send_events", NEW evs
      PROVE  Holds(evs, connected, topicHealth) <=> Has(evs[request_id], {"sent", "error"})
  BY <1>4, Zenon DEF Holds, Kinds
<1>5. ASSUME helper = "collect_sent_request_ids", NEW evs
      PROVE  Holds(evs, connected, topicHealth) <=> Cardinality(SentIds(evs)) >= AwaitedIds
  BY <1>5, Zenon DEF Holds, Kinds
<1> QED BY <1>1, <1>2, <1>3, <1>4, <1>5, Zenon

\* A collect_* poll that has all events of the requests it asked for says
\* what holds of the node.
LEMMA PollsSeeTarget ==
    ASSUME NEW evs,
           \/ /\ helper \in {"collect_send_kinds", "collect_send_events"}
              /\ evs[request_id] = events[request_id]
           \/ /\ helper = "collect_sent_request_ids"
              /\ \A r \in Requests : evs[r] = events[r]
    PROVE  Holds(evs, connected, topicHealth) <=> Target
<1>0. Target <=> Holds(events, connected, topicHealth)
  BY Zenon DEF Target
<1>1. CASE helper = "collect_send_kinds"
  <2>1. evs[request_id] = events[request_id]
    BY <1>1, Zenon
  <2> QED BY <1>0, <1>1, <2>1, TargetIs, Zenon
<1>2. CASE helper = "collect_send_events"
  <2>1. evs[request_id] = events[request_id]
    BY <1>2, Zenon
  <2> QED BY <1>0, <1>2, <2>1, TargetIs, Zenon
<1>3. CASE helper = "collect_sent_request_ids"
  <2>1. \A r \in Requests : evs[r] = events[r]
    BY <1>3, Zenon
  <2>2. SentIds(evs) = SentIds(events)
    BY <2>1, Zenon DEF SentIds
  <2> QED BY <1>0, <1>3, <2>2, TargetIs, Zenon
<1> QED BY <1>1, <1>2, <1>3, Zenon

\* What the test does leaves what it waits for as it is.
LEMMA SameTarget ==
    ASSUME UNCHANGED <<nodeState, helper, request_id>>
    PROVE  /\ Target' <=> Target
           /\ timeout_s' = timeout_s
           /\ events' = events /\ connected' = connected /\ topicHealth' = topicHealth
           /\ since' = since /\ helper' = helper /\ request_id' = request_id
<1>1. /\ events' = events /\ connected' = connected /\ topicHealth' = topicHealth
      /\ since' = since /\ helper' = helper /\ request_id' = request_id
  BY Zenon DEF nodeState
<1>2. Target' <=> Target
  BY <1>1, Zenon DEF Target, Holds, SentIds, AwaitedIds, Has, Latest
<1>3. timeout_s' = timeout_s
  BY <1>1, Zenon DEF timeout_s
<1> QED BY <1>1, <1>2, <1>3, Zenon

\* The time there is.
LEMMA TimeThereIs ==
    ASSUME WaitTypes
    PROVE  /\ timeout_s \in Nat /\ timeout_s <= Timeout /\ now \in Nat /\ now <= Timeout
           /\ since \in Nat /\ Never = Timeout + 1 /\ Timeout \in Nat
<1>1. Timeout \in Nat
  BY EventWaitsAssumption, Zenon
<1>2. now \in 0 .. Timeout /\ since \in 0 .. Never
  BY Zenon DEF WaitTypes, WaitsTypeOK
<1> QED BY <1>1, <1>2 DEF Never, timeout_s

-----------------------------------------------------------------------------
\* What a look at the node may say: found when the target holds, nothing at
\* the deadline, another sleep before it.
LookSays ==
    \/ /\ wpc' = "found" /\ Target
       /\ helper = "collect_send_events" => gathered'[request_id] = events[request_id]
    \/ /\ wpc' = "none" /\ now >= timeout_s
       /\ helper \in Kinds \cup {"assert_no_error"} => ~Target
    \/ wpc' = "sleep" /\ now < timeout_s /\ ~Target
    \/ wpc' = "raised"

\* A look that says so keeps the invariant.
LEMMA LookStep ==
    ASSUME WaitsInv, wpc = "look", UNCHANGED <<nodeState, helper, request_id, now>>,
           buffered' \in [Requests -> Seq(Names)], gathered' \in [Requests -> Seq(Names)],
           NoEventLost', LookSays
    PROVE  WaitsInv'
<1>0. WaitTypes /\ MissedNothing /\ EndsRight
  BY Zenon DEF WaitsInv
<1>1. /\ Target' <=> Target
      /\ timeout_s' = timeout_s
      /\ events' = events /\ connected' = connected /\ topicHealth' = topicHealth
      /\ since' = since /\ helper' = helper /\ request_id' = request_id
  BY SameTarget, Zenon
<1>2. now' = now
  BY Zenon
<1>3. /\ timeout_s \in Nat /\ timeout_s <= Timeout /\ now \in Nat /\ now <= Timeout
      /\ since \in Nat /\ Never = Timeout + 1 /\ Timeout \in Nat
  BY <1>0, TimeThereIs, Zenon
<1>4. Never' = Never
  BY Zenon DEF Never
<1>5. wpc' \in {"look", "sleep", "found", "none", "raised"}
  BY Zenon DEF LookSays
<1>6. WaitTypes'
  BY <1>0, <1>1, <1>2, <1>4, <1>5, Zenon DEF WaitTypes, WaitsTypeOK
<1>7. MissedNothing'
  <2>1. since' # Never' => Target'
    BY <1>0, <1>1, <1>4, Zenon DEF MissedNothing
  <2>2. ASSUME wpc' = "sleep" PROVE now < timeout_s /\ now <= since
    <3>1. now < timeout_s /\ ~Target
      BY <2>2, Zenon DEF LookSays
    <3>2. since = Never
      BY <1>0, <3>1, Zenon DEF MissedNothing
    <3> QED BY <1>3, <3>1, <3>2
  <2>3. wpc' # "look"
    BY Zenon DEF LookSays
  <2> QED BY <1>1, <1>2, <2>1, <2>2, <2>3, Zenon DEF MissedNothing
<1>8. EndsRight'
  <2>1. ASSUME wpc' = "none"
        PROVE  since >= IF helper \in Kinds \cup {"assert_no_error"}
                        THEN timeout_s ELSE timeout_s - 1
    <3>1. /\ now >= timeout_s
          /\ helper \in Kinds \cup {"assert_no_error"} => ~Target
      BY <2>1, Zenon DEF LookSays
    <3>2. now <= since + 1
      BY <1>0, Zenon DEF MissedNothing
    <3>3. CASE helper \in Kinds \cup {"assert_no_error"}
      <4>1. since = Never
        BY <1>0, <3>1, <3>3, Zenon DEF MissedNothing
      <4>2. since >= timeout_s
        BY <1>3, <4>1
      <4> QED BY <3>3, <4>2, Zenon
    <3>4. CASE ~(helper \in Kinds \cup {"assert_no_error"})
      <4>1. since >= timeout_s - 1
        BY <1>3, <3>1, <3>2
      <4> QED BY <3>4, <4>1, Zenon
    <3> QED BY <3>3, <3>4, Zenon
  <2>2. ASSUME wpc' = "found"
        PROVE  /\ Target
               /\ helper = "collect_send_events" => gathered'[request_id] = events[request_id]
    BY <2>2, Zenon DEF LookSays
  <2>3. Kinds' = Kinds
    BY Zenon DEF Kinds
  <2> QED BY <1>1, <2>1, <2>2, <2>3, Zenon DEF EndsRight
<1> QED BY <1>6, <1>7, <1>8, Zenon DEF WaitsInv

\* time.sleep: the next look is one tick later.
LEMMA SleepStep == ASSUME WaitsInv, Sleep PROVE WaitsInv'
<1>0. WaitTypes /\ MissedNothing /\ NoEventLost
  BY Zenon DEF WaitsInv
<1>s. /\ wpc = "sleep" /\ wpc' = "look" /\ now' = now + 1
      /\ UNCHANGED <<nodeState, helper, request_id>> /\ buffered' = buffered /\ gathered' = gathered
  BY Zenon DEF Sleep
<1>1. /\ Target' <=> Target
      /\ timeout_s' = timeout_s
      /\ events' = events /\ connected' = connected /\ topicHealth' = topicHealth
      /\ since' = since /\ helper' = helper /\ request_id' = request_id
  BY <1>s, SameTarget, Zenon
<1>3. /\ timeout_s \in Nat /\ timeout_s <= Timeout /\ now \in Nat /\ now <= Timeout
      /\ since \in Nat /\ Never = Timeout + 1 /\ Timeout \in Nat
  BY <1>0, TimeThereIs, Zenon
<1>4. Never' = Never /\ Collectors' = Collectors
  BY Zenon DEF Never, Collectors
<1>5. now < timeout_s /\ now <= since
  BY <1>0, <1>s, Zenon DEF MissedNothing
<1>6. now' \in 0 .. Timeout /\ now' <= since + 1
  BY <1>3, <1>5, <1>s
<1>7. WaitTypes'
  BY <1>0, <1>1, <1>4, <1>6, <1>s, Zenon DEF WaitTypes, WaitsTypeOK
<1>8. MissedNothing'
  <2>1. wpc' # "sleep"
    BY <1>s, Zenon
  <2> QED BY <1>0, <1>1, <1>4, <1>6, <1>s, <2>1, Zenon DEF MissedNothing
<1>9. NoEventLost'
  BY <1>0, <1>1, <1>4, <1>s, Zenon DEF NoEventLost
<1>10. EndsRight'
  <2>1. wpc' # "none" /\ wpc' # "found"
    BY <1>s, Zenon
  <2> QED BY <2>1, Zenon DEF EndsRight
<1> QED BY <1>7, <1>8, <1>9, <1>10, Zenon DEF WaitsInv

\* The helpers that read what event_callback appended or what the node's
\* latest status is.
LEMMA LocalLookStep ==
    ASSUME WaitsInv, wait_for_event \/ wait_for_connected \/ wait_for_mesh
    PROVE  WaitsInv'
<1>0. WaitTypes /\ NoEventLost
  BY Zenon DEF WaitsInv
<1>1. /\ wpc = "look" /\ UNCHANGED <<nodeState, helper, request_id, now>>
      /\ buffered' = buffered /\ gathered' = gathered
  BY Zenon DEF wait_for_event, wait_for_connected, wait_for_mesh, LookThenDeadline,
         DeadlineThenLook
<1>2. buffered' \in [Requests -> Seq(Names)] /\ gathered' \in [Requests -> Seq(Names)]
  BY <1>0, <1>1, Zenon DEF WaitTypes
<1>3. NoEventLost'
  <2>1. helper' = helper /\ events' = events
    BY <1>1, Zenon DEF nodeState
  <2> QED BY <1>0, <1>1, <2>1, Zenon DEF NoEventLost, Collectors
<1>4. /\ timeout_s \in Nat /\ now \in Nat
  BY <1>0, TimeThereIs, Zenon
<1>5. LookSays
  <2>1. CASE wait_for_event
    <3>1. /\ helper # "collect_send_events"
          /\ wpc' = IF Target THEN "found" ELSE IF now >= timeout_s THEN "none" ELSE "sleep"
      BY <2>1, Zenon DEF wait_for_event, LookThenDeadline, Kinds
    <3>2. now >= timeout_s \/ now < timeout_s
      BY <1>4
    <3> QED BY <3>1, <3>2, Zenon DEF LookSays
  <2>2. ASSUME helper \in {"connected", "mesh"}, DeadlineThenLook(Target)
        PROVE  LookSays
    <3>1. /\ helper # "collect_send_events" /\ helper \notin Kinds \cup {"assert_no_error"}
          /\ wpc' = IF now >= timeout_s THEN "none" ELSE IF Target THEN "found" ELSE "sleep"
      BY <2>2, Zenon DEF DeadlineThenLook, Kinds
    <3>2. now >= timeout_s \/ now < timeout_s
      BY <1>4
    <3> QED BY <3>1, <3>2, Zenon DEF LookSays
  <2>3. CASE wait_for_connected
    <3>1. helper = "connected" /\ DeadlineThenLook(connected)
      BY <2>3, Zenon DEF wait_for_connected
    <3>2. DeadlineThenLook(Target)
      BY <3>1, TargetIs, Zenon DEF DeadlineThenLook
    <3> QED BY <2>2, <3>1, <3>2, Zenon
  <2>4. CASE wait_for_mesh
    <3>1. helper = "mesh" /\ DeadlineThenLook(\E s \in Shards : Latest(topicHealth[s]))
      BY <2>4, Zenon DEF wait_for_mesh
    <3>2. DeadlineThenLook(Target)
      BY <3>1, TargetIs, Zenon DEF DeadlineThenLook
    <3> QED BY <2>2, <3>1, <3>2, Zenon
  <2> QED BY <2>1, <2>3, <2>4, Zenon
<1> QED BY <1>1, <1>2, <1>3, <1>5, LookStep, Zenon

\* The GETs of a poll return what is missing, and lose nothing.
LEMMA FetchTakesAll ==
    ASSUME WaitsInv, helper \in Collectors, UNCHANGED <<events, helper>>,
           NEW rs \in SUBSET Requests, Fetch(rs)
    PROVE  /\ buffered' \in [Requests -> Seq(Names)] /\ gathered' \in [Requests -> Seq(Names)]
           /\ \A r \in rs : gathered'[r] = events[r]
           /\ NoEventLost'
<1>1. /\ buffered \in [Requests -> Seq(Names)] /\ gathered \in [Requests -> Seq(Names)]
      /\ events \in [Requests -> Seq(Names)]
      /\ \A r \in Requests : gathered[r] \o buffered[r] = events[r]
  BY Zenon DEF WaitsInv, WaitTypes, NoEventLost
<1>2. << >> \in Seq(Names)
  OBVIOUS
<1>f. /\ gathered' = [r \in Requests |->
                        IF r \in rs THEN gathered[r] \o buffered[r] ELSE gathered[r]]
      /\ buffered' = [r \in Requests |-> IF r \in rs THEN << >> ELSE buffered[r]]
  BY Zenon DEF Fetch
<1>3. ASSUME NEW r \in Requests
      PROVE  /\ gathered'[r] = IF r \in rs THEN events[r] ELSE gathered[r]
             /\ buffered'[r] = IF r \in rs THEN << >> ELSE buffered[r]
             /\ gathered'[r] \in Seq(Names) /\ buffered'[r] \in Seq(Names)
             /\ gathered'[r] \o buffered'[r] = events[r]
  <2>1. /\ gathered'[r] = IF r \in rs THEN events[r] ELSE gathered[r]
        /\ buffered'[r] = IF r \in rs THEN << >> ELSE buffered[r]
    BY <1>1, <1>f, Zenon
  <2>2. events[r] \o << >> = events[r]
    BY <1>1, AddsNothing, Zenon
  <2> QED BY <1>1, <1>2, <2>1, <2>2, Zenon
<1>4. buffered' \in [Requests -> Seq(Names)] /\ gathered' \in [Requests -> Seq(Names)]
  <2>1. /\ gathered' = [r \in Requests |-> gathered'[r]]
        /\ buffered' = [r \in Requests |-> buffered'[r]]
    BY <1>f, Zenon
  <2> QED BY <1>3, <2>1, Zenon
<1>5. NoEventLost'
  BY <1>3, Zenon DEF NoEventLost
<1>6. \A r \in rs : gathered'[r] = events[r]
  BY <1>3, Zenon
<1> QED BY <1>4, <1>5, <1>6, Zenon

\* One poll of a collect_* helper.
LEMMA CollectStep ==
    ASSUME WaitsInv, collect_send_kinds \/ collect_send_events \/ collect_sent_request_ids
    PROVE  WaitsInv'
<1>0. WaitTypes /\ NoEventLost /\ request_id \in Requests
  BY Zenon DEF WaitsInv, WaitTypes, WaitsTypeOK
<1>1. PICK rs \in SUBSET Requests :
        /\ Collect(rs) /\ helper \in Collectors
        /\ \/ helper \in {"collect_send_kinds", "collect_send_events"} /\ request_id \in rs
           \/ helper = "collect_sent_request_ids" /\ rs = Requests
        /\ helper = "collect_send_events" => request_id \in rs
  <2>1. CASE collect_send_kinds
    <3>1. helper # "collect_send_events" /\ helper \in Collectors
      BY <2>1, Zenon DEF collect_send_kinds, Collectors
    <3> QED BY <1>0, <2>1, <3>1, Zenon DEF collect_send_kinds
  <2>2. CASE collect_send_events
    BY <1>0, <2>2, Zenon DEF collect_send_events, Collectors
  <2>3. CASE collect_sent_request_ids
    <3>1. helper # "collect_send_events" /\ helper \in Collectors
      BY <2>3, Zenon DEF collect_sent_request_ids, Collectors
    <3> QED BY <2>3, <3>1, Zenon DEF collect_sent_request_ids
  <2> QED BY <2>1, <2>2, <2>3, Zenon
<1>2. UNCHANGED <<nodeState, helper, request_id, now>> /\ UNCHANGED <<events, helper>>
  BY <1>1, Zenon DEF Collect, nodeState
<1>3. /\ helper \notin Kinds \cup {"assert_no_error"}
      /\ timeout_s \in Nat /\ now \in Nat
  BY <1>0, <1>1, TimeThereIs, Zenon DEF Kinds, Collectors
<1>4. CASE now < timeout_s /\ Fetch(rs) /\ DeadlineThenLook(Holds(gathered', connected, topicHealth))
  <2>1. /\ buffered' \in [Requests -> Seq(Names)] /\ gathered' \in [Requests -> Seq(Names)]
        /\ \A r \in rs : gathered'[r] = events[r]
        /\ NoEventLost'
    BY <1>1, <1>2, <1>4, FetchTakesAll, Zenon
  <2>2. Holds(gathered', connected, topicHealth) <=> Target
    BY <1>1, <2>1, PollsSeeTarget, Zenon
  <2>3. ~(now >= timeout_s)
    BY <1>3, <1>4
  <2>4. /\ wpc = "look"
        /\ wpc' = IF Target THEN "found" ELSE "sleep"
    BY <1>4, <2>2, <2>3, Zenon DEF DeadlineThenLook
  <2>5. LookSays
    BY <1>1, <1>4, <2>1, <2>4, Zenon DEF LookSays
  <2> QED BY <1>2, <2>1, <2>4, <2>5, LookStep, Zenon
<1>5. CASE UNCHANGED <<buffered, gathered>> /\ wpc = "look" /\ LookSays
  <2>1. buffered' = buffered /\ gathered' = gathered
    BY <1>5, Zenon
  <2>2. buffered' \in [Requests -> Seq(Names)] /\ gathered' \in [Requests -> Seq(Names)]
    BY <1>0, <2>1, Zenon DEF WaitTypes
  <2>3. NoEventLost'
    <3>1. helper' = helper /\ events' = events
      BY <1>2, Zenon
    <3> QED BY <1>0, <2>1, <3>1, Zenon DEF NoEventLost, Collectors
  <2> QED BY <1>2, <1>5, <2>2, <2>3, LookStep, Zenon
<1>6. CASE now >= timeout_s /\ DeadlineThenLook(FALSE) /\ UNCHANGED <<buffered, gathered>>
  <2>1. wpc = "look" /\ wpc' = "none"
    BY <1>6, Zenon DEF DeadlineThenLook
  <2> QED BY <1>3, <1>5, <1>6, <2>1, Zenon DEF LookSays
<1>7. CASE wpc = "look" /\ wpc' = "raised" /\ UNCHANGED <<buffered, gathered>>
  BY <1>5, <1>7, Zenon DEF LookSays
<1> QED BY <1>1, <1>4, <1>6, <1>7, Zenon DEF Collect

\* What the node reports while a test waits: the tick from which the target
\* holds is not before the last look.
LEMMA ReportedInTime ==
    ASSUME WaitsInv, Running, UNCHANGED <<helper, request_id, wpc, now>>, Observe,
           NoEventLost',
           events' \in [Requests -> Seq(Names)], \A r \in Requests : events'[r] \in Legal(r),
           buffered' \in [Requests -> Seq(Names)], gathered' \in [Requests -> Seq(Names)],
           topicHealth' \in [Shards -> Seq(BOOLEAN)], connected' \in BOOLEAN
    PROVE  WaitsInv'
<1>0. WaitTypes /\ MissedNothing
  BY Zenon DEF WaitsInv
<1>1. helper' = helper /\ request_id' = request_id /\ wpc' = wpc /\ now' = now
  BY Zenon
<1>2. timeout_s' = timeout_s /\ Never' = Never
  BY <1>1, Zenon DEF timeout_s, Never
<1>3. /\ timeout_s \in Nat /\ timeout_s <= Timeout /\ now \in Nat /\ now <= Timeout
      /\ since \in Nat /\ Never = Timeout + 1 /\ Timeout \in Nat
  BY <1>0, TimeThereIs, Zenon
<1>4. /\ since' # Never => Target'
      /\ since' \in {Never, now, since}
  BY Zenon DEF Observe
<1>5. since' \in 0 .. Never
  <2>1. since \in 0 .. Never
    BY <1>0, Zenon DEF WaitTypes, WaitsTypeOK
  <2> QED BY <1>3, <1>4, <2>1
<1>6. WaitTypes'
  <2>1. \A s \in Shards : topicHealth'[s] \in Seq(BOOLEAN)
    BY Zenon
  <2> QED BY <1>0, <1>1, <1>2, <1>5, <2>1, Zenon DEF WaitTypes, WaitsTypeOK
<1>7. MissedNothing'
  <2>1. /\ wpc = "sleep" => now < timeout_s /\ now <= since'
        /\ wpc = "look" => now <= since' + 1
    <3>1. /\ wpc = "sleep" => now < timeout_s /\ now <= since
          /\ wpc = "look" => now <= since + 1
      BY <1>0, Zenon DEF MissedNothing
    <3>2. ASSUME now <= since PROVE now <= since'
      BY <1>3, <1>4, <3>2
    <3>3. ASSUME now <= since + 1 PROVE now <= since' + 1
      <4>1. CASE since' = Never
        BY <1>3, <4>1
      <4>2. CASE since' = now
        BY <1>3, <4>2
      <4>3. CASE since' = since
        BY <3>3, <4>3, Zenon
      <4> QED BY <1>4, <4>1, <4>2, <4>3, Zenon
    <3> QED BY <3>1, <3>2, <3>3, Zenon
  <2> QED BY <1>1, <1>2, <1>4, <2>1, Zenon DEF MissedNothing
<1>8. EndsRight'
  <2>1. wpc' # "none" /\ wpc' # "found"
    BY <1>1, Zenon DEF Running
  <2> QED BY <2>1, Zenon DEF EndsRight
<1> QED BY <1>6, <1>7, <1>8, Zenon DEF WaitsInv

\* The node reports events of a request.
LEMMA EventsStep == ASSUME WaitsInv, ReportEvents PROVE WaitsInv'
<1>0. /\ WaitTypes /\ NoEventLost /\ request_id \in Requests
      /\ events \in [Requests -> Seq(Names)] /\ \A r \in Requests : events[r] \in Legal(r)
      /\ buffered \in [Requests -> Seq(Names)] /\ gathered \in [Requests -> Seq(Names)]
      /\ topicHealth \in [Shards -> Seq(BOOLEAN)] /\ connected \in BOOLEAN
  BY Zenon DEF WaitsInv, WaitTypes, WaitsTypeOK
<1>1. /\ Running /\ Observe /\ UNCHANGED <<helper, request_id, wpc, now>>
      /\ helper' = helper /\ connected' = connected
      /\ topicHealth' = topicHealth /\ gathered' = gathered
  BY Zenon DEF ReportEvents
<1>2. PICK r \in Requests :
        /\ Report(r)
        /\ buffered' = IF helper \in Collectors
                       THEN [buffered EXCEPT ![r] = @ \o
                               SubSeq(events'[r], Len(events[r]) + 1, Len(events'[r]))]
                       ELSE buffered
  BY Zenon DEF ReportEvents
<1>3. PICK s \in Legal(r) :
        /\ Extends(events[r], s)
        /\ events' = [events EXCEPT ![r] = s]
  BY <1>2, Zenon DEF Report
<1>4. s \in Seq(Names)
  BY LegalPromised, Zenon DEF Promised
<1>5. events'[r] = s /\ \A q \in Requests : q # r => events'[q] = events[q]
  BY <1>0, <1>3, Zenon
<1>6. /\ events' \in [Requests -> Seq(Names)]
      /\ \A q \in Requests : events'[q] \in Legal(q)
  BY <1>0, <1>3, <1>4, <1>5, Zenon
<1>7. CASE helper \in Collectors
  <2> DEFINE b == buffered[r] \o SubSeq(s, Len(events[r]) + 1, Len(s))
  <2>1. gathered[r] \o buffered[r] = events[r]
    BY <1>0, <1>7, Zenon DEF NoEventLost
  <2>2. b \in Seq(Names) /\ gathered[r] \o b = s
    <3>1. gathered[r] \in Seq(Names) /\ buffered[r] \in Seq(Names) /\ events[r] \in Seq(Names)
      BY <1>0, Zenon
    <3>2. Extends(events[r], s)
      BY <1>3, Zenon
    <3>3. StillAll(gathered[r], buffered[r], events[r], s)
      BY <1>4, <2>1, <3>1, <3>2, BufferedFollows, Zenon
    <3> QED BY <3>3, Zenon DEF StillAll
  <2>3. buffered' = [buffered EXCEPT ![r] = b]
    BY <1>2, <1>5, <1>7, Zenon
  <2> HIDE DEF b
  <2>4. /\ buffered' \in [Requests -> Seq(Names)] /\ buffered'[r] = b
        /\ \A q \in Requests : q # r => buffered'[q] = buffered[q]
    BY <1>0, <2>2, <2>3, Zenon
  <2>5. NoEventLost'
    BY <1>0, <1>1, <1>5, <1>7, <2>2, <2>4, Zenon DEF NoEventLost
  <2> QED BY <1>0, <1>1, <1>6, <2>4, <2>5, ReportedInTime, Zenon
<1>8. CASE helper \notin Collectors
  <2>1. buffered' = buffered
    BY <1>2, <1>8, Zenon
  <2>2. NoEventLost'
    BY <1>1, <1>8, Zenon DEF NoEventLost, Collectors
  <2> QED BY <1>0, <1>1, <1>6, <2>1, <2>2, ReportedInTime, Zenon
<1> QED BY <1>7, <1>8, Zenon

\* It reports its connection, or the health of a shard.
LEMMA StatusStep == ASSUME WaitsInv, ReportStatus PROVE WaitsInv'
<1>0. /\ WaitTypes /\ NoEventLost
      /\ events \in [Requests -> Seq(Names)] /\ \A r \in Requests : events[r] \in Legal(r)
      /\ buffered \in [Requests -> Seq(Names)] /\ gathered \in [Requests -> Seq(Names)]
      /\ topicHealth \in [Shards -> Seq(BOOLEAN)] /\ connected \in BOOLEAN
  BY Zenon DEF WaitsInv, WaitTypes, WaitsTypeOK
<1>1. /\ Running /\ Observe /\ UNCHANGED <<helper, request_id, wpc, now>>
      /\ helper' = helper /\ events' = events
      /\ buffered' = buffered /\ gathered' = gathered
  BY Zenon DEF ReportStatus
<1>2. topicHealth' \in [Shards -> Seq(BOOLEAN)] /\ connected' \in BOOLEAN
  <2>1. CASE connected' = TRUE /\ UNCHANGED topicHealth
    BY <1>0, <2>1, Zenon
  <2>2. ASSUME UNCHANGED connected, NEW s \in Shards, NEW h \in BOOLEAN,
               topicHealth' = [topicHealth EXCEPT ![s] = Append(@, h)]
        PROVE  topicHealth' \in [Shards -> Seq(BOOLEAN)] /\ connected' \in BOOLEAN
    <3>1. topicHealth[s] \in Seq(BOOLEAN)
      BY <1>0, Zenon
    <3>2. Append(topicHealth[s], h) \in Seq(BOOLEAN)
      BY <3>1, Appending, Zenon
    <3> QED BY <1>0, <2>2, <3>2, Zenon
  <2> QED BY <2>1, <2>2, Zenon DEF ReportStatus
<1>3. NoEventLost'
  BY <1>0, <1>1, Zenon DEF NoEventLost, Collectors
<1> QED BY <1>0, <1>1, <1>2, <1>3, ReportedInTime, Zenon

\* A wait starts with nothing seen.
LEMMA WaitsInitially == WaitsInit => WaitsInv
<1> SUFFICES ASSUME WaitsInit PROVE WaitsInv
  OBVIOUS
<1>1. /\ helper \in Helpers /\ request_id \in Requests
      /\ wpc = "look" /\ now = 0
      /\ connected = FALSE /\ topicHealth = [s \in Shards |-> << >>]
      /\ buffered = [r \in Requests |-> << >>]
      /\ gathered = [r \in Requests |-> << >>]
      /\ events = [r \in Requests |-> << >>]
      /\ since = Never
  BY Zenon DEF WaitsInit, REInit
<1>2. /\ << >> \in Seq(Names) /\ << >> \in Seq(BOOLEAN)
      /\ << >> \o << >> = << >>
  OBVIOUS
<1>3. \A r : << >> \in Legal(r)
  BY Zenon DEF Legal, Outcomes
<1>4. now \in 0 .. Timeout /\ since \in 0 .. Never /\ now <= since + 1
  BY <1>1, EventWaitsAssumption DEF Never
<1>5. WaitTypes
  BY <1>1, <1>2, <1>3, <1>4, Zenon DEF WaitTypes, WaitsTypeOK
<1>6. wpc # "sleep" /\ wpc # "none" /\ wpc # "found"
  BY <1>1, Zenon
<1>7. MissedNothing /\ EndsRight
  BY <1>1, <1>4, <1>6, Zenon DEF MissedNothing, EndsRight
<1>8. NoEventLost
  BY <1>1, <1>2, Zenon DEF NoEventLost
<1> QED BY <1>5, <1>7, <1>8, Zenon DEF WaitsInv

\* The invariant of the waits, for every timeout, every number of requests and
\* shards, and whatever the node reports between two steps of the test.
THEOREM WaitsInvariant == WaitsSpec => []WaitsInv
<1>1. WaitsInv /\ [WaitsNext]_waitVars => WaitsInv'
  <2> SUFFICES ASSUME WaitsInv, [WaitsNext]_waitVars PROVE WaitsInv'
    OBVIOUS
  <2>1. CASE Sleep
    BY <2>1, SleepStep, Zenon
  <2>2. CASE wait_for_event \/ wait_for_connected \/ wait_for_mesh
    BY <2>2, LocalLookStep, Zenon
  <2>3. CASE collect_send_kinds \/ collect_send_events \/ collect_sent_request_ids
    BY <2>3, CollectStep, Zenon
  <2>4. CASE ReportEvents
    BY <2>4, EventsStep, Zenon
  <2>5. CASE ReportStatus
    BY <2>5, StatusStep, Zenon
  <2>6. CASE UNCHANGED waitVars
    <3>1. /\ events' = events /\ helper' = helper /\ request_id' = request_id /\ wpc' = wpc
          /\ now' = now /\ connected' = connected /\ topicHealth' = topicHealth
          /\ buffered' = buffered /\ gathered' = gathered /\ since' = since
      BY <2>6, Zenon DEF waitVars
    <3>2. UNCHANGED <<nodeState, helper, request_id>>
      BY <3>1, Zenon DEF nodeState
    <3>3. /\ Target' <=> Target
          /\ timeout_s' = timeout_s
      BY <3>2, SameTarget, Zenon
    <3>4. WaitTypes'
      BY <3>1, Zenon DEF WaitsInv, WaitTypes, WaitsTypeOK, Never
    <3>5. MissedNothing'
      BY <3>1, <3>3, Zenon DEF WaitsInv, MissedNothing, Never
    <3>6. NoEventLost' /\ EndsRight'
      BY <3>1, <3>3, Zenon DEF WaitsInv, NoEventLost, EndsRight, Collectors, Kinds
    <3> QED BY <3>4, <3>5, <3>6, Zenon DEF WaitsInv
  <2> QED BY <2>1, <2>2, <2>3, <2>4, <2>5, <2>6, Zenon DEF WaitsNext, WaitStep
<1> QED BY <1>1, WaitsInitially, PTL DEF WaitsSpec

\* A wait of the tests that gives up has missed nothing that was there in time,
\* one that succeeds does so on what the node says then, the polls of
\* collect_send_events return every event in order, and
\* assert_event_invariants accepts whatever the API promises.
THEOREM WaitsAlwaysRight == WaitsSpec => []WaitsRight
<1>1. WaitsInv => WaitsRight
  <2> SUFFICES ASSUME WaitsInv PROVE WaitsRight
    OBVIOUS
  <2>1. EndsRight /\ \A r \in Requests : events[r] \in Legal(r)
    BY Zenon DEF WaitsInv, WaitTypes, WaitsTypeOK
  <2>2. \A r \in Requests : events[r] # << >> => assert_event_invariants(events[r])
    BY <2>1, LegalPromised, PromiseAccepted, Zenon
  <2> QED BY <2>1, <2>2, Zenon DEF EndsRight, WaitsRight
<1> QED BY <1>1, WaitsInvariant, PTL

=============================================================================
