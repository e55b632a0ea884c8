------------------------- MODULE HubMessages_proofs -------------------------
(***************************************************************************)
(* Proofs about HubMessages, for any pages, any number of calls, uploaded        *)
(* streams and server messages, and any split of the received text.              *)
(* HubTypeOK says that the queue of the connection is in a state of QueueSpec      *)
(* and runs as long as the connection is open; the other invariants are about     *)
(* the ids of the calls, the answers to the server and the uploads.               *)
(***************************************************************************)
EXTENDS HubMessages, FiniteSetTheorems, SequenceTheorems, WellFoundedInduction, TLAPS

-----------------------------------------------------------------------------
(* TransportSendQueue, for any messages and any number of calls.  The invariant says of the *)
(* three places a ticket can be in, the server, the network and the buffer, that each is       *)
(* in order and each is before the next, and that what the loop waits for has left the buffer. *)
Results == {"pending", "ok", "fail"}

\* The state between two turns of the event loop; only the queue of a stopped connection ends.
QueueTypeOK ==
    /\ IsSequence(sent) /\ transport \in {"socket", "request"}
    /\ promise \in Seq(Results) /\ Len(promise) = Len(sent)
    /\ buffer \in Seq(Nat) /\ flying \in Seq(Nat) /\ network \in Seq(Nat) /\ wire \in Seq(Nat)
    /\ signalled \in BOOLEAN /\ executing \in BOOLEAN
    /\ loop \in {"waiting", "sending", "refused", "ended"}
    /\ loop \in {"waiting", "ended"} => flying = << >>
    /\ loop = "ended" => ~executing

\* Every ticket of s is smaller than every ticket of t.
Before(s, t) == \A i \in DOMAIN s, j \in DOMAIN t : s[i] < t[j]

\* The places are in order, and hold tickets of calls that were made.
InOrder ==
    /\ Increasing(wire) /\ Increasing(network) /\ Increasing(buffer)
    /\ Before(wire, network) /\ Before(wire, buffer) /\ Before(network, buffer)
    /\ Before(flying, buffer)
Issued(s) == \A t \in Tickets(s) : t \in DOMAIN promise

\* The data the loop waits for was taken, or it was refused and is nowhere else.
Left == Tickets(wire) \cup Tickets(network)
Carried ==
    /\ loop = "sending" => Tickets(flying) \subseteq Left
    /\ loop = "refused" => transport = "socket" /\ Tickets(flying) \cap Left = {}
QueueInv ==
    /\ QueueTypeOK /\ InOrder /\ Carried
    /\ Issued(wire) /\ Issued(network) /\ Issued(flying) /\ Issued(buffer)
    /\ PendingIsHeld /\ OutcomeIsTrue

-----------------------------------------------------------------------------

\* What is known of the elements of a concatenation
LEMMA ConcatElements ==
    ASSUME NEW S, NEW s \in Seq(S), NEW t \in Seq(S)
    PROVE  /\ s \o t \in Seq(S) /\ Len(s \o t) = Len(s) + Len(t)
           /\ DOMAIN s = 1..Len(s) /\ DOMAIN t = 1..Len(t) /\ DOMAIN (s \o t) = 1..(Len(s) + Len(t))
           /\ \A i \in 1..Len(s) : (s \o t)[i] = s[i]
           /\ \A i \in 1..Len(t) : (s \o t)[Len(s) + i] = t[i]
           /\ \A i \in DOMAIN (s \o t) : \/ i \in 1..Len(s) /\ (s \o t)[i] = s[i]
                                         \/ i - Len(s) \in 1..Len(t) /\ (s \o t)[i] = t[i - Len(s)]
  OBVIOUS

\* The length of a concatenation of any two sequences
LEMMA JoinedLength ==
    ASSUME NEW S, NEW T, NEW s \in Seq(S), NEW t \in Seq(T)
    PROVE  s \o t \in Seq(S \cup T) /\ Len(s \o t) = Len(s) + Len(t)
  <1>1. s \in Seq(S \cup T) /\ t \in Seq(S \cup T)
    OBVIOUS
  <1> QED BY <1>1

\* A concatenation is in order exactly if its parts are and the first is before the second.
LEMMA ConcatIncreasing ==
    ASSUME NEW s \in Seq(Nat), NEW t \in Seq(Nat)
    PROVE  Increasing(s \o t) <=> Increasing(s) /\ Increasing(t) /\ Before(s, t)
  <1>0. /\ \A i \in DOMAIN s : s[i] \in Nat
        /\ \A i \in DOMAIN t : t[i] \in Nat
    OBVIOUS
  <1>1. ASSUME Increasing(s \o t) PROVE Increasing(s) /\ Increasing(t) /\ Before(s, t)
    <2>1. ASSUME NEW i \in DOMAIN s, NEW j \in DOMAIN s, i < j PROVE s[i] < s[j]
      <3>1. i \in DOMAIN (s \o t) /\ j \in DOMAIN (s \o t)
        BY <2>1, ConcatElements
      <3>2. (s \o t)[i] < (s \o t)[j]
        BY <1>1, <2>1, <3>1 DEF Increasing
      <3> QED BY <3>2, ConcatElements
    <2>2. ASSUME NEW i \in DOMAIN t, NEW j \in DOMAIN t, i < j PROVE t[i] < t[j]
      <3>1. /\ Len(s) + i \in DOMAIN (s \o t) /\ Len(s) + j \in DOMAIN (s \o t)
            /\ Len(s) + i < Len(s) + j
        BY <2>2, ConcatElements
      <3>2. (s \o t)[Len(s) + i] < (s \o t)[Len(s) + j]
        BY <1>1, <3>1 DEF Increasing
      <3> QED BY <3>2, ConcatElements, SMTT(30)
    <2>3. ASSUME NEW i \in DOMAIN s, NEW j \in DOMAIN t PROVE s[i] < t[j]
      <3>1. /\ i \in DOMAIN (s \o t) /\ Len(s) + j \in DOMAIN (s \o t)
            /\ i < Len(s) + j
        BY <2>3, ConcatElements
      <3>2. (s \o t)[i] < (s \o t)[Len(s) + j]
        BY <1>1, <3>1 DEF Increasing
      <3> QED BY <3>2, ConcatElements, SMTT(30)
    <2> QED BY <2>1, <2>2, <2>3 DEF Increasing, Before
  <1>2. ASSUME Increasing(s), Increasing(t), Before(s, t) PROVE Increasing(s \o t)
    <2>1. SUFFICES ASSUME NEW i \in DOMAIN (s \o t), NEW j \in DOMAIN (s \o t), i < j
                   PROVE  (s \o t)[i] < (s \o t)[j]
      BY DEF Increasing
    <2>2. CASE i \in 1..Len(s) /\ j \in 1..Len(s)
      BY <1>2, <2>1, <2>2, ConcatElements DEF Increasing
    <2>3. CASE i \in 1..Len(s) /\ j - Len(s) \in 1..Len(t)
      BY <1>2, <2>1, <2>3, ConcatElements DEF Before
    <2>4. CASE i - Len(s) \in 1..Len(t) /\ j - Len(s) \in 1..Len(t)
      BY <1>2, <2>1, <2>4, ConcatElements DEF Increasing
    <2> QED BY <2>1, <2>2, <2>3, <2>4, ConcatElements
  <1> QED BY <1>1, <1>2

\* A concatenation is before or after what both of its parts are.
LEMMA ConcatBefore ==
    ASSUME NEW s \in Seq(Nat), NEW t \in Seq(Nat), NEW u \in Seq(Nat)
    PROVE  /\ Before(s \o t, u) <=> Before(s, u) /\ Before(t, u)
           /\ Before(u, s \o t) <=> Before(u, s) /\ Before(u, t)
  <1>1. ASSUME Before(s \o t, u) PROVE Before(s, u) /\ Before(t, u)
    <2>1. ASSUME NEW i \in DOMAIN s, NEW j \in DOMAIN u PROVE s[i] < u[j]
      <3>1. i \in DOMAIN (s \o t) /\ (s \o t)[i] = s[i]
        BY ConcatElements
      <3> QED BY <1>1, <3>1 DEF Before
    <2>2. ASSUME NEW i \in DOMAIN t, NEW j \in DOMAIN u PROVE t[i] < u[j]
      <3>1. Len(s) + i \in DOMAIN (s \o t) /\ (s \o t)[Len(s) + i] = t[i]
        BY ConcatElements
      <3> QED BY <1>1, <3>1 DEF Before
    <2> QED BY <2>1, <2>2 DEF Before
  <1>2. ASSUME Before(s, u), Before(t, u) PROVE Before(s \o t, u)
    <2>1. SUFFICES ASSUME NEW i \in DOMAIN (s \o t), NEW j \in DOMAIN u PROVE (s \o t)[i] < u[j]
      BY DEF Before
    <2>2. \/ i \in DOMAIN s /\ (s \o t)[i] = s[i]
          \/ i - Len(s) \in DOMAIN t /\ (s \o t)[i] = t[i - Len(s)]
      BY ConcatElements
    <2> QED BY <1>2, <2>2 DEF Before
  <1>3. ASSUME Before(u, s \o t) PROVE Before(u, s) /\ Before(u, t)
    <2>1. ASSUME NEW i \in DOMAIN u, NEW j \in DOMAIN s PROVE u[i] < s[j]
      <3>1. j \in DOMAIN (s \o t) /\ (s \o t)[j] = s[j]
        BY ConcatElements
      <3> QED BY <1>3, <3>1 DEF Before
    <2>2. ASSUME NEW i \in DOMAIN u, NEW j \in DOMAIN t PROVE u[i] < t[j]
      <3>1. Len(s) + j \in DOMAIN (s \o t) /\ (s \o t)[Len(s) + j] = t[j]
        BY ConcatElements
      <3> QED BY <1>3, <3>1 DEF Before
    <2> QED BY <2>1, <2>2 DEF Before
  <1>4. ASSUME Before(u, s), Before(u, t) PROVE Before(u, s \o t)
    <2>1. SUFFICES ASSUME NEW i \in DOMAIN u, NEW j \in DOMAIN (s \o t) PROVE u[i] < (s \o t)[j]
      BY DEF Before
    <2>2. \/ j \in DOMAIN s /\ (s \o t)[j] = s[j]
          \/ j - Len(s) \in DOMAIN t /\ (s \o t)[j] = t[j - Len(s)]
      BY ConcatElements
    <2> QED BY <1>4, <2>2 DEF Before
  <1> QED BY <1>1, <1>2, <1>3, <1>4

\* InOrder has the parts of SentInOrder.
LEMMA InOrderIsSentInOrder == QueueTypeOK /\ InOrder => SentInOrder
  <1> SUFFICES ASSUME QueueTypeOK, InOrder PROVE SentInOrder
    OBVIOUS
  <1> USE DEF QueueTypeOK, InOrder
  <1>1. wire \o network \in Seq(Nat)
    OBVIOUS
  <1>2. Increasing(wire \o network)
    BY ConcatIncreasing
  <1>3. Before(wire \o network, buffer)
    BY ConcatBefore
  <1> QED BY <1>1, <1>2, <1>3, ConcatIncreasing DEF SentInOrder

\* The tickets of a concatenation are those of its parts.
LEMMA ConcatTickets ==
    ASSUME NEW s \in Seq(Nat), NEW t \in Seq(Nat)
    PROVE  Tickets(s \o t) = Tickets(s) \cup Tickets(t)
  <1>1. ASSUME NEW x \in Tickets(s \o t) PROVE x \in Tickets(s) \cup Tickets(t)
    <2>1. PICK i \in DOMAIN (s \o t) : x = (s \o t)[i]
      BY DEF Tickets
    <2>2. \/ i \in DOMAIN s /\ (s \o t)[i] = s[i]
          \/ i - Len(s) \in DOMAIN t /\ (s \o t)[i] = t[i - Len(s)]
      BY ConcatElements
    <2> QED BY <2>1, <2>2 DEF Tickets
  <1>2. ASSUME NEW x \in Tickets(s) PROVE x \in Tickets(s \o t)
    <2>1. PICK i \in DOMAIN s : x = s[i]
      BY DEF Tickets
    <2>2. i \in DOMAIN (s \o t) /\ (s \o t)[i] = s[i]
      BY ConcatElements
    <2> QED BY <2>1, <2>2 DEF Tickets
  <1>3. ASSUME NEW x \in Tickets(t) PROVE x \in Tickets(s \o t)
    <2>1. PICK i \in DOMAIN t : x = t[i]
      BY DEF Tickets
    <2>2. Len(s) + i \in DOMAIN (s \o t) /\ (s \o t)[Len(s) + i] = t[i]
      BY ConcatElements
    <2> QED BY <2>1, <2>2 DEF Tickets
  <1> QED BY <1>1, <1>2, <1>3

\* The empty sequence has no tickets, and so every order.
LEMMA EmptyInOrder ==
    /\ Tickets(<< >>) = {} /\ Increasing(<< >>)
    /\ \A s : Before(s, << >>) /\ Before(<< >>, s)
  BY DEF Tickets, Increasing, Before

-----------------------------------------------------------------------------

LEMMA QueueInitially == QueueInit => QueueInv
  <1> SUFFICES ASSUME QueueInit PROVE QueueInv
    OBVIOUS
  <1>1. QueueTypeOK
    <2>1. Len(<< >>) = 0 /\ \A S : << >> \in Seq(S)
      OBVIOUS
    <2>2. promise \in Seq(Results) /\ IsSequence(sent) /\ Len(promise) = Len(sent)
      BY <2>1 DEF QueueInit, IsSequence
    <2> QED BY <2>1, <2>2 DEF QueueInit, QueueTypeOK
  <1>2. InOrder
    BY EmptyInOrder DEF QueueInit, InOrder
  <1>3. /\ PendingIsHeld /\ OutcomeIsTrue /\ Carried
        /\ Issued(wire) /\ Issued(network) /\ Issued(flying) /\ Issued(buffer)
    BY EmptyInOrder DEF QueueInit, PendingIsHeld, OutcomeIsTrue, Carried, Issued
  <1> QED BY <1>1, <1>2, <1>3 DEF QueueInv

\* The tickets of new calls come after all the others, and their promises are pending.
LEMMA SendSomeKeeps == QueueInv /\ SendSome => QueueInv'
  <1> SUFFICES ASSUME QueueInv, SendSome PROVE QueueInv'
    OBVIOUS
  <1> DEFINE messages == SubSeq(sent', Len(sent) + 1, Len(sent'))
             new == [i \in DOMAIN messages |-> Len(sent) + i]
             pending == [i \in DOMAIN messages |-> "pending"]
  <1>0. QueueTypeOK /\ executing /\ SendAll(messages)
    BY DEF QueueInv, SendSome
  <1>1. /\ messages \in Seq(Tickets(sent')) /\ DOMAIN messages = 1..Len(messages)
        /\ Len(messages) \in Nat /\ Len(sent) \in Nat
    BY <1>0 DEF QueueTypeOK, SendSome, IsSequence
  <1> HIDE DEF messages
  <1>2. /\ new \in Seq(Nat) /\ Len(new) = Len(messages) /\ DOMAIN new = 1..Len(messages)
        /\ pending \in Seq(Results) /\ Len(pending) = Len(messages)
        /\ \A i \in DOMAIN new : new[i] = Len(sent) + i
        /\ \A i \in DOMAIN messages : pending[i] = "pending"
    BY <1>1 DEF Results
  <1> HIDE DEF new, pending
  <1>3. /\ sent' = sent \o messages /\ promise' = promise \o pending /\ buffer' = buffer \o new
        /\ signalled' = (signalled \/ messages # << >>)
        /\ UNCHANGED <<transport, executing, loop, flying, network, wire>>
    BY <1>0 DEF SendAll, new, pending
  <1>13. /\ promise \in Seq(Results) /\ Len(promise) = Len(sent)
         /\ promise \o pending \in Seq(Results)
         /\ Len(promise \o pending) = Len(promise) + Len(pending)
    <2>1. promise \in Seq(Results) /\ pending \in Seq(Results) /\ Len(promise) = Len(sent)
      BY <1>0, <1>2 DEF QueueTypeOK
    <2> QED BY <2>1, ConcatElements
  <1>4. QueueTypeOK'
    <2>1. IsSequence(sent') /\ Len(sent') = Len(sent) + Len(messages)
      <3>1. IsSequence(sent') /\ IsSequence(sent)
        BY <1>0 DEF SendSome, QueueTypeOK
      <3> QED BY <1>1, <1>3, <3>1, JoinedLength DEF IsSequence
    <2>2. promise' \in Seq(Results) /\ Len(promise') = Len(promise) + Len(messages)
      BY <1>2, <1>3, <1>13 DEF QueueTypeOK
    <2>3. buffer' \in Seq(Nat)
      BY <1>0, <1>2, <1>3, ConcatElements DEF QueueTypeOK
    <2> QED BY <1>0, <1>3, <2>1, <2>2, <2>3 DEF QueueTypeOK
  <1>5. /\ Before(wire, new) /\ Before(network, new) /\ Before(flying, new) /\ Before(buffer, new)
        /\ Increasing(new)
    <2>1. DOMAIN promise = 1..Len(sent)
      BY <1>0 DEF QueueTypeOK
    <2>2. ASSUME NEW s \in Seq(Nat), Issued(s) PROVE Before(s, new)
      <3>1. \A i \in DOMAIN s : s[i] \in 1..Len(sent)
        BY <2>1, <2>2 DEF Issued, Tickets
      <3>2. \A j \in DOMAIN new : new[j] > Len(sent)
        BY <1>1, <1>2
      <3>3. \A i \in DOMAIN s, j \in DOMAIN new : s[i] < new[j]
        BY <1>1, <1>2, <3>1, <3>2
      <3> QED BY <3>3 DEF Before
    <2>3. Increasing(new)
      BY <1>1, <1>2 DEF Increasing
    <2> QED BY <1>0, <2>2, <2>3 DEF QueueInv, QueueTypeOK
  <1>6. InOrder'
    <2>1. Increasing(buffer \o new)
      BY <1>0, <1>2, <1>5, ConcatIncreasing DEF QueueInv, InOrder, QueueTypeOK
    <2>2. /\ Before(wire, buffer \o new) /\ Before(network, buffer \o new)
          /\ Before(flying, buffer \o new)
      BY <1>0, <1>2, <1>5, ConcatBefore DEF QueueInv, InOrder, QueueTypeOK
    <2>3. InOrder
      BY DEF QueueInv
    <2> QED BY <1>3, <2>1, <2>2, <2>3 DEF InOrder
  <1>7. /\ DOMAIN promise = 1..Len(sent) /\ DOMAIN promise' = 1..(Len(sent) + Len(messages))
        /\ \A t \in 1..Len(sent) : promise'[t] = promise[t]
        /\ \A t \in DOMAIN promise' \ 1..Len(sent) :
               promise'[t] = "pending" /\ t - Len(sent) \in 1..Len(messages)
    <2>1. /\ DOMAIN promise = 1..Len(sent) /\ DOMAIN (promise \o pending) = 1..(Len(sent) + Len(messages))
          /\ \A t \in 1..Len(sent) : (promise \o pending)[t] = promise[t]
          /\ \A t \in 1..Len(messages) : (promise \o pending)[Len(sent) + t] = pending[t]
      BY <1>2, <1>13, ConcatElements, SMTT(30)
    <2>2. ASSUME NEW t \in DOMAIN (promise \o pending) \ 1..Len(sent)
          PROVE  (promise \o pending)[t] = "pending" /\ t - Len(sent) \in 1..Len(messages)
      <3>1. t - Len(sent) \in 1..Len(messages) /\ Len(sent) + (t - Len(sent)) = t
        BY <1>1, <2>1
      <3> QED BY <1>1, <1>2, <2>1, <3>1
    <2> QED BY <1>3, <2>1, <2>2
  <1>8. Tickets(buffer') = Tickets(buffer) \cup Tickets(new)
    BY <1>0, <1>2, <1>3, ConcatTickets DEF QueueTypeOK
  <1>9. /\ \A t \in Tickets(new) : t \in DOMAIN promise' /\ t \notin 1..Len(sent)
        /\ \A t \in DOMAIN promise' \ 1..Len(sent) : t \in Tickets(new)
    <2>1. ASSUME NEW t \in Tickets(new) PROVE t \in DOMAIN promise' /\ t \notin 1..Len(sent)
      BY <1>1, <1>2, <1>7 DEF Tickets
    <2>2. ASSUME NEW t \in DOMAIN promise' \ 1..Len(sent) PROVE t \in Tickets(new)
      <3>1. t - Len(sent) \in DOMAIN new /\ new[t - Len(sent)] = t
        BY <1>1, <1>2, <1>7
      <3> QED BY <3>1 DEF Tickets
    <2> QED BY <2>1, <2>2
  <1>10. (Issued(wire) /\ Issued(network) /\ Issued(flying) /\ Issued(buffer))'
    <2>1. DOMAIN promise \subseteq DOMAIN promise'
      BY <1>1, <1>7
    <2>2. Issued(wire)' /\ Issued(network)' /\ Issued(flying)'
      BY <1>3, <2>1 DEF QueueInv, Issued, Tickets
    <2>3. Issued(buffer)'
      BY <1>8, <1>9, <2>1 DEF QueueInv, Issued
    <2> QED BY <2>2, <2>3
  <1>11. PendingIsHeld'
    <2>1. SUFFICES ASSUME NEW t \in DOMAIN promise'
                   PROVE  promise'[t] = "pending" <=>
                              loop # "ended" /\ (t \in Tickets(buffer') \/ t \in Tickets(flying))
      BY <1>3 DEF PendingIsHeld
    <2>2. CASE t \in 1..Len(sent)
      BY <1>7, <1>8, <1>9, <2>2 DEF QueueInv, PendingIsHeld
    <2>3. CASE t \notin 1..Len(sent)
      BY <1>0, <1>7, <1>8, <1>9, <2>3 DEF QueueTypeOK
    <2> QED BY <2>2, <2>3
  <1>12. OutcomeIsTrue' /\ Carried'
    <2>1. UNCHANGED <<Tickets(wire), Tickets(network), Tickets(flying), transport, loop>>
      BY <1>3 DEF Tickets
    <2>2. Carried'
      BY <2>1 DEF QueueInv, Carried, Left
    <2>3. OutcomeIsTrue'
      BY <1>7, <2>1 DEF QueueInv, OutcomeIsTrue
    <2> QED BY <2>2, <2>3
  <1> QED BY <1>4, <1>6, <1>10, <1>11, <1>12 DEF QueueInv

\* Settling leaves the promises a sequence with the same tickets.
LEMMA SettleTyped ==
    ASSUME QueueTypeOK, NEW tickets, NEW result \in Results, Settle(tickets, result)
    PROVE  /\ promise' \in Seq(Results) /\ Len(promise') = Len(sent)
           /\ DOMAIN promise' = DOMAIN promise
           /\ \A t \in DOMAIN promise : promise'[t] = IF t \in tickets THEN result ELSE promise[t]
  <1>1. /\ promise \in Seq(Results) /\ Len(promise) = Len(sent) /\ Len(promise) \in Nat
        /\ DOMAIN promise = 1..Len(promise) /\ \A t \in DOMAIN promise : promise[t] \in Results
    BY DEF QueueTypeOK
  <1>2. promise' = [t \in 1..Len(promise) |-> IF t \in tickets THEN result ELSE promise[t]]
    BY <1>1 DEF Settle
  <1>3. promise' \in [1..Len(promise) -> Results]
    BY <1>1, <1>2
  <1> QED BY <1>1, <1>2, <1>3

\* A step that leaves the calls and their places alone keeps what is said of them.
LEMMA OthersSame ==
    ASSUME QueueInv, UNCHANGED <<transport, promise, buffer, loop, flying, network, wire>>
    PROVE  /\ InOrder' /\ Carried' /\ PendingIsHeld' /\ OutcomeIsTrue'
           /\ Issued(wire)' /\ Issued(network)' /\ Issued(flying)' /\ Issued(buffer)'
  <1>1. InOrder' /\ Carried'
    BY DEF QueueInv, InOrder, Carried, Left
  <1>2. PendingIsHeld' /\ OutcomeIsTrue'
    BY DEF QueueInv, PendingIsHeld, OutcomeIsTrue
  <1>3. Issued(wire)' /\ Issued(network)' /\ Issued(flying)' /\ Issued(buffer)'
    BY DEF QueueInv, Issued
  <1> QED BY <1>1, <1>2, <1>3

LEMMA StopQueueKeeps == QueueInv /\ StopQueue => QueueInv'
  <1> SUFFICES ASSUME QueueInv, StopQueue PROVE QueueInv'
    OBVIOUS
  <1>1. /\ executing' = FALSE /\ signalled' = TRUE
        /\ UNCHANGED <<transport, sent, promise, buffer, loop, flying, network, wire>>
    BY DEF StopQueue
  <1>2. QueueTypeOK'
    BY <1>1 DEF QueueInv, QueueTypeOK
  <1> QED BY <1>1, <1>2, OthersSame DEF QueueInv

\* What is buffered is behind all that has left and what the loop waits for.
LEMMA BufferBehind ==
    ASSUME QueueInv
    PROVE  Tickets(buffer) \cap (Left \cup Tickets(flying)) = {}
  <1>1. ASSUME NEW s \in Seq(Nat), Before(s, buffer) PROVE Tickets(s) \cap Tickets(buffer) = {}
    BY <1>1 DEF Before, Tickets, QueueInv, QueueTypeOK
  <1> QED BY <1>1 DEF QueueInv, QueueTypeOK, InOrder, Left

\* What was buffered is what is sent; nothing was in flight.
LEMMA LoopSendsKeeps == QueueInv /\ LoopSends => QueueInv'
  <1> SUFFICES ASSUME QueueInv, LoopSends PROVE QueueInv'
    OBVIOUS
  <1>1. /\ QueueTypeOK /\ flying = << >> /\ flying' = buffer /\ buffer' = << >>
        /\ loop = "waiting" /\ loop' = "sending" /\ network' = network \o buffer
        /\ UNCHANGED <<transport, sent, promise, executing, wire>> /\ signalled' = FALSE
        /\ transport = "socket" => \A t \in DOMAIN promise : promise[t] # "fail"
    BY DEF QueueInv, LoopSends, MaySend, QueueTypeOK
  <1>2. QueueTypeOK'
    <2>1. buffer' \in Seq(Nat) /\ network' \in Seq(Nat)
      BY <1>1 DEF QueueTypeOK
    <2> QED BY <1>1, <2>1 DEF QueueTypeOK
  <1>3. InOrder'
    <2>1. Increasing(network \o buffer)
      BY <1>1, ConcatIncreasing DEF QueueInv, InOrder, QueueTypeOK
    <2>2. Before(wire, network \o buffer)
      BY <1>1, ConcatBefore DEF QueueInv, InOrder, QueueTypeOK
    <2> QED BY <1>1, <2>1, <2>2, EmptyInOrder DEF QueueInv, InOrder
  <1>4. Tickets(network') = Tickets(network) \cup Tickets(buffer)
    BY <1>1, ConcatTickets DEF QueueTypeOK
  <1>5. (Issued(wire) /\ Issued(network) /\ Issued(flying) /\ Issued(buffer))'
    BY <1>1, <1>4, EmptyInOrder DEF QueueInv, Issued
  <1>6. Carried'
    BY <1>1, <1>4 DEF Carried, Left
  <1>7. PendingIsHeld'
    BY <1>1, EmptyInOrder DEF QueueInv, PendingIsHeld
  <1>8. OutcomeIsTrue'
    BY <1>1, <1>4 DEF QueueInv, OutcomeIsTrue
  <1> QED BY <1>2, <1>3, <1>5, <1>6, <1>7, <1>8 DEF QueueInv

\* What a socket refuses has been nowhere.
LEMMA LoopRefusedKeeps == QueueInv /\ LoopRefused => QueueInv'
  <1> SUFFICES ASSUME QueueInv, LoopRefused PROVE QueueInv'
    OBVIOUS
  <1>1. /\ QueueTypeOK /\ flying = << >> /\ flying' = buffer /\ buffer' = << >>
        /\ loop = "waiting" /\ loop' = "refused" /\ transport = "socket"
        /\ UNCHANGED <<transport, sent, promise, executing, network, wire>> /\ signalled' = FALSE
    BY DEF QueueInv, LoopRefused, QueueTypeOK
  <1>2. QueueTypeOK'
    <2>1. buffer' \in Seq(Nat)
      BY <1>1
    <2> QED BY <1>1, <2>1 DEF QueueTypeOK
  <1>3. InOrder'
    BY <1>1, EmptyInOrder DEF QueueInv, InOrder
  <1>4. (Issued(wire) /\ Issued(network) /\ Issued(flying) /\ Issued(buffer))'
    BY <1>1, EmptyInOrder DEF QueueInv, Issued
  <1>5. Carried'
    BY <1>1, BufferBehind DEF Carried, Left
  <1>6. PendingIsHeld'
    BY <1>1, EmptyInOrder DEF QueueInv, PendingIsHeld
  <1>7. OutcomeIsTrue'
    BY <1>1 DEF QueueInv, OutcomeIsTrue
  <1> QED BY <1>2, <1>3, <1>4, <1>5, <1>6, <1>7 DEF QueueInv

\* The promises that are rejected are all that were pending.
LEMMA LoopEndsKeeps == QueueInv /\ LoopEnds => QueueInv'
  <1> SUFFICES ASSUME QueueInv, LoopEnds PROVE QueueInv'
    OBVIOUS
  <1>1. /\ QueueTypeOK /\ flying = << >> /\ loop = "waiting" /\ loop' = "ended" /\ ~executing
        /\ UNCHANGED <<transport, sent, buffer, signalled, executing, flying, network, wire>>
        /\ Settle(Tickets(buffer), "fail")
    BY DEF QueueInv, LoopEnds, QueueTypeOK
  <1>2. /\ promise' \in Seq(Results) /\ Len(promise') = Len(sent)
        /\ DOMAIN promise' = DOMAIN promise
        /\ \A t \in DOMAIN promise :
               promise'[t] = IF t \in Tickets(buffer) THEN "fail" ELSE promise[t]
    BY <1>1, SettleTyped DEF Results
  <1>3. QueueTypeOK'
    BY <1>1, <1>2 DEF QueueTypeOK
  <1>4. InOrder' /\ (Issued(wire) /\ Issued(network) /\ Issued(flying) /\ Issued(buffer))'
    BY <1>1, <1>2 DEF QueueInv, InOrder, Issued, Tickets
  <1>5. PendingIsHeld'
    <2>1. \A t \in DOMAIN promise : promise'[t] # "pending"
      BY <1>1, <1>2, EmptyInOrder DEF QueueInv, PendingIsHeld
    <2> QED BY <1>1, <1>2, <2>1 DEF PendingIsHeld
  <1>6. OutcomeIsTrue' /\ Carried'
    BY <1>1, <1>2, BufferBehind DEF QueueInv, OutcomeIsTrue, Carried, Left
  <1> QED BY <1>3, <1>4, <1>5, <1>6 DEF QueueInv

\* The promises that are settled are those of the data the loop waited for, none of which is
\* buffered; a request that failed takes what it carries with it.
LEMMA TransportEndsKeeps ==
    ASSUME QueueInv, NEW result \in {"ok", "fail"}, TransportEnds(result),
           network' = network \/ (network' = << >> /\ transport = "request"),
           result = "ok" => loop = "sending" /\ (transport = "request" => network = << >>),
           result = "fail" => loop = "refused" \/ transport = "request"
    PROVE  QueueInv'
  <1>1. /\ QueueTypeOK /\ flying' = << >> /\ loop \in {"sending", "refused"} /\ loop' = "waiting"
        /\ UNCHANGED <<transport, sent, buffer, signalled, executing, wire>>
        /\ Settle(Tickets(flying), result)
    BY DEF QueueInv, TransportEnds
  <1>2. /\ promise' \in Seq(Results) /\ Len(promise') = Len(sent)
        /\ DOMAIN promise' = DOMAIN promise
        /\ \A t \in DOMAIN promise :
               promise'[t] = IF t \in Tickets(flying) THEN result ELSE promise[t]
    BY <1>1, SettleTyped DEF Results
  <1>3. QueueTypeOK'
    <2>1. << >> \in Seq(Nat)
      OBVIOUS
    <2> QED BY <1>1, <1>2, <2>1 DEF QueueTypeOK
  <1>4. InOrder'
    BY <1>1, EmptyInOrder DEF QueueInv, InOrder
  <1>5. (Issued(wire) /\ Issued(network) /\ Issued(flying) /\ Issued(buffer))'
    BY <1>1, <1>2, EmptyInOrder DEF QueueInv, Issued
  <1>6. Carried'
    BY <1>1 DEF Carried
  <1>7. PendingIsHeld'
    <2>1. SUFFICES ASSUME NEW t \in DOMAIN promise
                   PROVE  promise'[t] = "pending" <=> t \in Tickets(buffer)
      BY <1>1, <1>2, EmptyInOrder DEF PendingIsHeld
    <2>2. promise[t] = "pending" <=> t \in Tickets(buffer) \/ t \in Tickets(flying)
      BY <1>1 DEF QueueInv, PendingIsHeld
    <2> QED BY <1>2, <2>2, BufferBehind
  <1>8. OutcomeIsTrue'
    <2>1. SUFFICES ASSUME NEW t \in DOMAIN promise
                   PROVE  /\ promise'[t] = "ok" => t \in Tickets(wire)
                                  \/ (transport = "socket" /\ t \in Tickets(network'))
                          /\ promise'[t] = "fail" /\ transport = "socket" =>
                                  t \notin Tickets(wire) \cup Tickets(network')
      BY <1>1, <1>2 DEF OutcomeIsTrue
    <2>2. /\ promise[t] = "ok" => t \in Tickets(wire)
                  \/ (transport = "socket" /\ t \in Tickets(network))
          /\ promise[t] = "fail" /\ transport = "socket" =>
                  t \notin Tickets(wire) \cup Tickets(network)
      BY DEF QueueInv, OutcomeIsTrue
    <2>3. Carried
      BY DEF QueueInv
    <2>4. transport \in {"socket", "request"}
      BY <1>1 DEF QueueTypeOK
    <2>5. transport = "socket" => network' = network
      BY <2>4
    <2>6. CASE t \in Tickets(flying)
      BY <1>1, <1>2, <2>3, <2>4, <2>5, <2>6, EmptyInOrder DEF Carried, Left
    <2>7. CASE t \notin Tickets(flying)
      BY <1>2, <2>2, <2>4, <2>5, <2>7
    <2> QED BY <2>6, <2>7
  <1> QED BY <1>3, <1>4, <1>5, <1>6, <1>7, <1>8 DEF QueueInv

LEMMA TransportSentKeeps == QueueInv /\ TransportSent => QueueInv'
  BY TransportEndsKeeps DEF TransportSent

LEMMA TransportFailedKeeps == QueueInv /\ TransportFailed => QueueInv'
  BY TransportEndsKeeps DEF TransportFailed

\* What arrives was behind what had arrived and stays before what is buffered.
LEMMA ArriveKeeps == QueueInv /\ Arrive => QueueInv'
  <1> SUFFICES ASSUME QueueInv, Arrive PROVE QueueInv'
    OBVIOUS
  <1>1. /\ QueueTypeOK /\ wire' = wire \o network /\ network' = << >>
        /\ UNCHANGED <<transport, sent, promise, buffer, signalled, executing, loop, flying>>
    BY DEF QueueInv, Arrive
  <1>2. wire \in Seq(Nat) /\ network \in Seq(Nat) /\ buffer \in Seq(Nat) /\ InOrder
    BY <1>1 DEF QueueInv, QueueTypeOK
  <1>3. QueueTypeOK'
    <2>1. network' \in Seq(Nat) /\ wire' \in Seq(Nat)
      BY <1>1, <1>2
    <2> QED BY <1>1, <2>1 DEF QueueTypeOK
  <1>4. InOrder'
    <2>1. Increasing(wire \o network)
      BY <1>2, ConcatIncreasing DEF InOrder
    <2>2. Before(wire \o network, buffer)
      BY <1>2, ConcatBefore DEF InOrder
    <2> QED BY <1>1, <1>2, <2>1, <2>2, EmptyInOrder DEF InOrder
  <1>5. Tickets(wire') = Tickets(wire) \cup Tickets(network) /\ Tickets(network') = {}
    BY <1>1, <1>2, ConcatTickets, EmptyInOrder
  <1>6. (Issued(wire) /\ Issued(network) /\ Issued(flying) /\ Issued(buffer))'
    BY <1>1, <1>5 DEF QueueInv, Issued
  <1>7. Carried' /\ OutcomeIsTrue'
    BY <1>1, <1>5 DEF QueueInv, Carried, Left, OutcomeIsTrue
  <1>8. PendingIsHeld'
    BY <1>1 DEF QueueInv, PendingIsHeld
  <1> QED BY <1>3, <1>4, <1>6, <1>7, <1>8 DEF QueueInv

LEMMA QueueSame == QueueInv /\ UNCHANGED qvars => QueueInv'
  <1> SUFFICES ASSUME QueueInv, UNCHANGED qvars PROVE QueueInv'
    OBVIOUS
  <1>1. QueueTypeOK'
    BY DEF qvars, QueueInv, QueueTypeOK
  <1> QED BY <1>1, OthersSame DEF QueueInv, qvars

\* Every step of the queue keeps the invariant.
LEMMA QueueInvHolds == QueueSpec => []QueueInv
  <1>1. QueueInv /\ [QueueNext]_qvars => QueueInv'
    <2> SUFFICES ASSUME QueueInv, [QueueNext]_qvars PROVE QueueInv'
      OBVIOUS
    <2>1. CASE SendSome
      BY <2>1, SendSomeKeeps
    <2>2. CASE StopQueue
      BY <2>2, StopQueueKeeps
    <2>3. CASE LoopSends
      BY <2>3, LoopSendsKeeps
    <2>4. CASE LoopEnds
      BY <2>4, LoopEndsKeeps
    <2>5. CASE TransportSent
      BY <2>5, TransportSentKeeps
    <2>6. CASE TransportFailed
      BY <2>6, TransportFailedKeeps
    <2>7. CASE LoopRefused
      BY <2>7, LoopRefusedKeeps
    <2>8. CASE Arrive
      BY <2>8, ArriveKeeps
    <2>9. CASE UNCHANGED qvars
      BY <2>9, QueueSame
    <2> QED BY <2>1, <2>2, <2>3, <2>4, <2>5, <2>6, <2>7, <2>8, <2>9 DEF QueueNext
  <1> QED BY <1>1, QueueInitially, PTL DEF QueueSpec

-----------------------------------------------------------------------------

\* TransportSendQueue: what the server got, what the network carries and what is buffered are
\* the calls of send() in their order, none twice, for any messages and any failures.
THEOREM SentInOrderHolds == QueueSpec => []SentInOrder
  <1>1. QueueInv => SentInOrder
    BY InOrderIsSentInOrder DEF QueueInv
  <1> QED BY <1>1, QueueInvHolds, PTL

\* TransportSendQueue.send: a promise is settled by the end of its own data: fulfilled when the
\* server has them (a POST) or the socket took them, rejected by a socket only when they were
\* never sent.
THEOREM OutcomeIsTrueHolds == QueueSpec => []OutcomeIsTrue
  <1>1. QueueInv => OutcomeIsTrue
    BY DEF QueueInv
  <1> QED BY <1>1, QueueInvHolds, PTL

\* TransportSendQueue._sendLoop: a promise is pending exactly while its data waits in a queue
\* that has not ended, so that stop() leaves nobody waiting.
THEOREM PendingIsHeldHolds == QueueSpec => []PendingIsHeld
  <1>1. QueueInv => PendingIsHeld
    BY DEF QueueInv
  <1> QED BY <1>1, QueueInvHolds, PTL

-----------------------------------------------------------------------------
(* HubMessages *)

ClientMessages ==
    [type : {"Invocation", "StreamInvocation", "StreamItem", "Completion", "CancelInvocation"},
     id : Int, streams : Seq(Nat)]
ServerMessages ==
    [type : {"Invocation", "StreamItem", "Completion", "Ping", "Later"}, id : Int, streams : {<< >>}]
CallRecords ==
    [kind : {"invoke", "send", "stream"}, id : Int, uploads : Seq(Nat), ticket : Nat,
     caught : BOOLEAN, outcome : {"pending", "answered", "resolved", "rejected"},
     observed : BOOLEAN, cancel : BOOLEAN, waits : Nat, tolerant : BOOLEAN,
     live : SUBSET Nat, items : Nat, chain : Seq(ClientMessages)]

\* An invocation of the server, whatever its handlers are
IsInvocation(v) ==
    /\ v = [id |-> v.id, left |-> v.left, result |-> v.result, threw |-> v.threw,
            several |-> v.several, answers |-> v.answers]
    /\ v.id \in Int /\ v.id <= 0 /\ v.threw \in BOOLEAN /\ v.several \in BOOLEAN
    /\ v.answers \in Seq({"error", "result"})

\* The types of the fields.  The state of the connection and that of its queue agree: a closed
\* connection sends nothing, an open one has a queue that takes it.
HubTypeOK ==
    /\ page \in Pages /\ open \in BOOLEAN /\ open = executing
    /\ nextId \in Nat /\ callbacks \subseteq Nat
    /\ sent \in Seq(ClientMessages)
    /\ calls \in Seq(CallRecords)
    /\ IsSequence(invocations) /\ \A i \in DOMAIN invocations : IsInvocation(invocations[i])
    /\ IsSequence(served) /\ served # << >> /\ served[1] = Handshake
    /\ \A i \in 2..Len(served) : /\ served[i] \in ServerMessages
                                 /\ served[i].type = "Invocation" => served[i].id <= 0
    /\ delivered \in 0..Len(served) /\ received \in BOOLEAN /\ (received <=> delivered > 0)
HubInv == QueueInv /\ HubTypeOK

\* Only send() has no id; the ids of the other calls are drawn once.
IdsDrawn(cs) ==
    /\ \A k \in DOMAIN cs : /\ cs[k].kind = "send" <=> cs[k].id = -1
                            /\ cs[k].id \in -1..nextId - 1
    /\ \A k, l \in DOMAIN cs : k # l /\ cs[k].id # -1 => cs[k].id # cs[l].id

\* An item of the server is for a call of stream() that was made before.
ItemsOfStreams ==
    \A i \in DOMAIN served : served[i].type = "StreamItem" =>
        \E k \in DOMAIN calls : calls[k].kind = "stream" /\ calls[k].id = served[i].id

Registered(ids, cs) ==
    \A k \in DOMAIN cs : cs[k].id \in ids <=> Awaited(cs[k]) /\ cs[k].outcome = "pending"
CallbackInv == IdsDrawn(calls) /\ ItemsOfStreams /\ Registered(callbacks, calls)

\* The server numbers its invocations by their place in what it sends.
ServerIds ==
    \A i \in 2..Len(served) : served[i].type = "Invocation" => served[i].id \in {0, -i}

\* Of the invocations vs and the messages s sent so far: up to `seen' the server's ids have been
\* used, each by one invocation; the completions of an id are those of its invocation.
AnswerInv(s, vs, seen) ==
    /\ \A i \in DOMAIN vs : vs[i].id \in -seen..0
    /\ \A i, j \in DOMAIN vs : i # j /\ vs[i].id # 0 => vs[i].id # vs[j].id
    /\ \A i \in DOMAIN vs : Len(vs[i].answers) = IF vs[i].id # 0 /\ vs[i].left = << >> THEN 1 ELSE 0
    /\ \A i \in DOMAIN vs : vs[i].several => vs[i].id # 0
    /\ \A t \in DOMAIN s : s[t].type = "Completion" /\ s[t].id < 0 =>
           \E i \in DOMAIN vs : vs[i].id = s[t].id /\ vs[i].left = << >>
    /\ \A t, u \in DOMAIN s : t # u /\ s[t].type = "Completion" /\ s[t].id < 0 => s[t] # s[u]

IsUpload(m) == m.type \in {"StreamItem", "Completion"} /\ m.id >= 0

\* Every upload is of a stream that its call announced; streams of two calls differ.
StreamsOwned(cs) ==
    /\ \A k \in DOMAIN cs : \A x \in Tickets(cs[k].uploads) : x < nextId
    /\ \A k, l \in DOMAIN cs : k # l => Tickets(cs[k].uploads) \cap Tickets(cs[l].uploads) = {}
    /\ \A k \in DOMAIN cs : cs[k].live \subseteq Tickets(cs[k].uploads)
    /\ \A k \in DOMAIN cs : \A c \in DOMAIN cs[k].chain :
           /\ cs[k].chain[c].id \in Tickets(cs[k].uploads)
           /\ cs[k].chain[c].type \in {"StreamItem", "Completion"}
           /\ cs[k].chain[c].streams = << >>

\* The streams that messages name were announced in the past.
StreamsDrawn(s) ==
    \A t \in DOMAIN s : /\ \A x \in Tickets(s[t].streams) : x < nextId
                        /\ IsUpload(s[t]) => s[t].id < nextId

\* What has ended sends nothing more: an end is behind the items, in the chain of a call and in
\* what was sent.
EndsLast(s, cs) ==
    /\ \A k \in DOMAIN cs : \A c \in DOMAIN cs[k].chain :
           cs[k].chain[c].type = "Completion" => cs[k].chain[c].id \notin cs[k].live
    /\ \A k \in DOMAIN cs : \A t \in DOMAIN s :
           s[t].type = "Completion" => s[t].id \notin cs[k].live
    /\ \A k \in DOMAIN cs : \A c, d \in DOMAIN cs[k].chain :
           cs[k].chain[c].type = "StreamItem" /\ cs[k].chain[d].type = "Completion"
               /\ cs[k].chain[c].id = cs[k].chain[d].id => c < d
    /\ \A t \in DOMAIN s : \A k \in DOMAIN cs : \A c \in DOMAIN cs[k].chain :
           s[t].type = "Completion" /\ s[t].id = cs[k].chain[c].id =>
               cs[k].chain[c].type # "StreamItem"

\* UploadsInOrder of the calls of send()
UploadsSentInOrder(s) ==
    /\ \A t, u \in DOMAIN s : IsUpload(s[u]) /\ s[u].id \in Tickets(s[t].streams) => t < u
    /\ \A t, u \in DOMAIN s :
           /\ s[t].type = "StreamItem" /\ s[u].type = "Completion" /\ s[t].id = s[u].id => t < u
           /\ s[t].type = "StreamItem" => s[t].id >= 0

UploadInv ==
    StreamsOwned(calls) /\ StreamsDrawn(sent) /\ EndsLast(sent, calls) /\ UploadsSentInOrder(sent)

-----------------------------------------------------------------------------
(* Induction, and what the two recursive functions of the model compute *)

\* Induction over the naturals, for a set instead of a predicate
LEMMA NatSetInduction ==
    ASSUME NEW T \in SUBSET Nat, 0 \in T, \A n \in T : n + 1 \in T
    PROVE  T = Nat
  <1> DEFINE less == OpToRel(<, Nat)
             missing == Nat \ T
  <1> SUFFICES ASSUME missing # {} PROVE FALSE
    OBVIOUS
  <1>1. missing \subseteq Nat
    OBVIOUS
  <1>2. IsWellFoundedOn(less, Nat)
    BY NatLessThanWellFounded, Zenon
  <1>3. \A i, j \in Nat : i < j => <<i, j>> \in less
    BY DEF OpToRel
  <1> HIDE DEF less
  <1>4. PICK n \in missing : \A k \in missing : ~(<<k, n>> \in less)
    <2> HIDE DEF missing
    <2> QED BY <1>1, <1>2, WFMin
  <1>5. n \in Nat /\ n # 0 /\ n - 1 \in Nat /\ n - 1 < n
    BY <1>4
  <1>6. n - 1 \in T
    BY <1>3, <1>4, <1>5
  <1> QED BY <1>4, <1>5, <1>6

\* The function of DispatchAll exists: DispatchAll is its last value.
LEMMA DispatchAllUnfolds ==
    ASSUME NEW messages, Len(messages) \in Nat
    PROVE  \E f : /\ f[0] = Inbox
                  /\ \A n \in 1..Len(messages) : f[n] = DispatchMessage(f[n - 1], messages[n])
                  /\ DispatchAll(messages) = f[Len(messages)]
  <1> DEFINE P(k) == \E f : f = [n \in 0..k |-> IF n = 0 THEN Inbox
                                                ELSE DispatchMessage(f[n - 1], messages[n])]
             T == {k \in Nat : P(k)}
  <1>1. P(0)
    <2> DEFINE f == [n \in 0..0 |-> Inbox]
    <2>1. f = [n \in 0..0 |-> IF n = 0 THEN Inbox ELSE DispatchMessage(f[n - 1], messages[n])]
      OBVIOUS
    <2> QED BY <2>1
  <1>2. ASSUME NEW k \in Nat, P(k) PROVE P(k + 1)
    <2>1. PICK f : f = [n \in 0..k |-> IF n = 0 THEN Inbox
                                       ELSE DispatchMessage(f[n - 1], messages[n])]
      BY <1>2
    <2> DEFINE g == [n \in 0..(k + 1) |-> IF n = k + 1 THEN DispatchMessage(f[k], messages[n])
                                          ELSE f[n]]
    <2>2. ASSUME NEW n \in 0..(k + 1)
          PROVE  g[n] = IF n = 0 THEN Inbox ELSE DispatchMessage(g[n - 1], messages[n])
      <3>1. CASE n = k + 1
        <4>1. n # 0 /\ n - 1 = k /\ k \in 0..(k + 1) /\ k # k + 1
          BY <3>1
        <4> QED BY <3>1, <4>1
      <3>2. CASE n \in 0..k /\ n = 0
        BY <2>1, <3>2
      <3>3. CASE n \in 0..k /\ n # 0
        <4>1. g[n] = f[n] /\ g[n - 1] = f[n - 1]
          BY <3>3
        <4>2. f[n] = DispatchMessage(f[n - 1], messages[n])
          BY <2>1, <3>3
        <4> HIDE DEF g
        <4> QED BY <3>3, <4>1, <4>2
      <3> QED BY <3>1, <3>2, <3>3
    <2>3. g = [n \in 0..(k + 1) |-> g[n]]
      OBVIOUS
    <2> HIDE DEF g
    <2>4. g = [n \in 0..(k + 1) |-> IF n = 0 THEN Inbox ELSE DispatchMessage(g[n - 1], messages[n])]
      BY <2>2, <2>3
    <2> QED BY <2>4
  <1>3. P(Len(messages))
    <2>1. 0 \in T /\ T \subseteq Nat /\ \A n \in T : n + 1 \in T
      <3> HIDE DEF P
      <3> QED BY <1>1, <1>2
    <2>2. T = Nat
      <3> HIDE DEF T
      <3> QED BY <2>1, NatSetInduction
    <2> QED BY <2>2
  <1> DEFINE after == CHOOSE f : f = [n \in 0..Len(messages) |->
                         IF n = 0 THEN Inbox ELSE DispatchMessage(f[n - 1], messages[n])]
  <1>4. after = [n \in 0..Len(messages) |->
                    IF n = 0 THEN Inbox ELSE DispatchMessage(after[n - 1], messages[n])]
    BY <1>3
  <1>5. DispatchAll(messages) = after[Len(messages)]
    BY DEF DispatchAll
  <1> HIDE DEF after
  <1>6. after[0] = Inbox /\ \A n \in 1..Len(messages) :
                                after[n] = DispatchMessage(after[n - 1], messages[n])
    BY <1>4
  <1> QED BY <1>5, <1>6

\* The same for OfType
LEMMA OfTypeUnfolds ==
    ASSUME NEW s, Len(s) \in Nat, NEW types
    PROVE  \E f : /\ f[0] = << >>
                  /\ \A n \in 1..Len(s) :
                         f[n] = IF s[n].type \in types THEN Append(f[n - 1], s[n]) ELSE f[n - 1]
                  /\ OfType(s, types) = f[Len(s)]
  <1> DEFINE P(k) == \E f : f = [n \in 0..k |->
                         IF n = 0 THEN << >>
                         ELSE IF s[n].type \in types THEN Append(f[n - 1], s[n]) ELSE f[n - 1]]
             T == {k \in Nat : P(k)}
  <1>1. P(0)
    <2> DEFINE f == [n \in 0..0 |-> << >>]
    <2>1. f = [n \in 0..0 |->
                  IF n = 0 THEN << >>
                  ELSE IF s[n].type \in types THEN Append(f[n - 1], s[n]) ELSE f[n - 1]]
      OBVIOUS
    <2> QED BY <2>1
  <1>2. ASSUME NEW k \in Nat, P(k) PROVE P(k + 1)
    <2>1. PICK f : f = [n \in 0..k |->
                           IF n = 0 THEN << >>
                           ELSE IF s[n].type \in types THEN Append(f[n - 1], s[n]) ELSE f[n - 1]]
      BY <1>2
    <2> DEFINE g == [n \in 0..(k + 1) |->
                        IF n = k + 1
                        THEN IF s[n].type \in types THEN Append(f[k], s[n]) ELSE f[k]
                        ELSE f[n]]
    <2>2. ASSUME NEW n \in 0..(k + 1)
          PROVE  g[n] = IF n = 0 THEN << >>
                        ELSE IF s[n].type \in types THEN Append(g[n - 1], s[n]) ELSE g[n - 1]
      <3>1. CASE n = k + 1
        <4>1. n # 0 /\ n - 1 = k /\ k \in 0..(k + 1) /\ k # k + 1
          BY <3>1
        <4>2. g[n - 1] = f[k] /\ g[n] = IF s[n].type \in types THEN Append(f[k], s[n]) ELSE f[k]
          BY <3>1, <4>1
        <4> HIDE DEF g
        <4> QED BY <4>1, <4>2
      <3>2. CASE n \in 0..k /\ n = 0
        BY <2>1, <3>2
      <3>3. CASE n \in 0..k /\ n # 0
        <4>1. g[n] = f[n] /\ g[n - 1] = f[n - 1]
          BY <3>3
        <4>2. f[n] = IF s[n].type \in types THEN Append(f[n - 1], s[n]) ELSE f[n - 1]
          BY <2>1, <3>3
        <4> HIDE DEF g
        <4> QED BY <3>3, <4>1, <4>2
      <3> QED BY <3>1, <3>2, <3>3
    <2>3. g = [n \in 0..(k + 1) |-> g[n]]
      OBVIOUS
    <2> HIDE DEF g
    <2>4. g = [n \in 0..(k + 1) |->
                  IF n = 0 THEN << >>
                  ELSE IF s[n].type \in types THEN Append(g[n - 1], s[n]) ELSE g[n - 1]]
      BY <2>2, <2>3
    <2> QED BY <2>4
  <1>3. P(Len(s))
    <2>1. 0 \in T /\ T \subseteq Nat /\ \A n \in T : n + 1 \in T
      <3> HIDE DEF P
      <3> QED BY <1>1, <1>2
    <2>2. T = Nat
      <3> HIDE DEF T
      <3> QED BY <2>1, NatSetInduction
    <2> QED BY <2>2
  <1> DEFINE kept == CHOOSE f : f = [n \in 0..Len(s) |->
                         IF n = 0 THEN << >>
                         ELSE IF s[n].type \in types THEN Append(f[n - 1], s[n]) ELSE f[n - 1]]
  <1>4. kept = [n \in 0..Len(s) |->
                    IF n = 0 THEN << >>
                    ELSE IF s[n].type \in types THEN Append(kept[n - 1], s[n]) ELSE kept[n - 1]]
    BY <1>3
  <1>5. OfType(s, types) = kept[Len(s)]
    BY DEF OfType
  <1> HIDE DEF kept
  <1>6. kept[0] = << >>
    <2>1. 0 \in 0..Len(s)
      OBVIOUS
    <2> QED BY <1>4, <2>1, Zenon
  <1>7. ASSUME NEW n \in 1..Len(s)
        PROVE  kept[n] = IF s[n].type \in types THEN Append(kept[n - 1], s[n]) ELSE kept[n - 1]
    <2>1. n \in 0..Len(s) /\ n # 0
      OBVIOUS
    <2> QED BY <1>4, <2>1, Zenon
  <1> QED BY <1>5, <1>6, <1>7, Zenon

\* OfType of a sequence that has grown by one message
LEMMA OfTypeAppend ==
    ASSUME NEW S, NEW s \in Seq(S), NEW x \in S, NEW types
    PROVE  /\ x.type \in types => OfType(Append(s, x), types) = Append(OfType(s, types), x)
           /\ x.type \notin types => OfType(Append(s, x), types) = OfType(s, types)
  <1> DEFINE t == Append(s, x)
  <1>1. /\ t \in Seq(S) /\ Len(t) = Len(s) + 1 /\ Len(s) \in Nat /\ Len(t) \in Nat
        /\ t[Len(s) + 1] = x /\ \A n \in 1..Len(s) : t[n] = s[n]
    OBVIOUS
  <1> HIDE DEF t
  <1>2. PICK f : /\ f[0] = << >>
                 /\ \A n \in 1..Len(s) :
                        f[n] = IF s[n].type \in types THEN Append(f[n - 1], s[n]) ELSE f[n - 1]
                 /\ OfType(s, types) = f[Len(s)]
    BY <1>1, OfTypeUnfolds
  <1>3. PICK g : /\ g[0] = << >>
                 /\ \A n \in 1..Len(t) :
                        g[n] = IF t[n].type \in types THEN Append(g[n - 1], t[n]) ELSE g[n - 1]
                 /\ OfType(t, types) = g[Len(t)]
    BY <1>1, OfTypeUnfolds
  <1> DEFINE T == {n \in Nat : n <= Len(s) => g[n] = f[n]}
  <1>4. 0 \in T /\ T \subseteq Nat
    BY <1>2, <1>3
  <1>5. ASSUME NEW n \in T PROVE n + 1 \in T
    <2>1. SUFFICES ASSUME n + 1 <= Len(s) PROVE g[n + 1] = f[n + 1]
      OBVIOUS
    <2>2. n \in Nat /\ n + 1 \in 1..Len(s) /\ n + 1 \in 1..Len(t) /\ (n + 1) - 1 = n /\ g[n] = f[n]
      BY <1>1, <2>1
    <2>3. f[n + 1] = IF s[n + 1].type \in types THEN Append(f[n], s[n + 1]) ELSE f[n]
      BY <1>2, <2>2
    <2>4. g[n + 1] = IF t[n + 1].type \in types THEN Append(g[n], t[n + 1]) ELSE g[n]
      BY <1>3, <2>2
    <2>5. t[n + 1] = s[n + 1]
      BY <1>1, <2>2
    <2> QED BY <2>2, <2>3, <2>4, <2>5
  <1>6. T = Nat
    <2> HIDE DEF T
    <2> QED BY <1>4, <1>5, NatSetInduction
  <1>7. g[Len(s)] = f[Len(s)]
    BY <1>1, <1>6
  <1>8. g[Len(t)] = IF x.type \in types THEN Append(g[Len(s)], x) ELSE g[Len(s)]
    <2>1. Len(t) \in 1..Len(t) /\ Len(t) - 1 = Len(s) /\ t[Len(t)] = x
      BY <1>1
    <2> QED BY <1>3, <2>1
  <1> QED BY <1>2, <1>3, <1>7, <1>8 DEF t

LEMMA OfTypeEmpty == ASSUME NEW types PROVE OfType(<< >>, types) = << >>
  <1>1. Len(<< >>) = 0
    OBVIOUS
  <1> QED BY <1>1, OfTypeUnfolds

\* The messages OfType keeps are messages of s, in the order of s.
LEMMA OfTypePositions ==
    ASSUME NEW S, NEW s \in Seq(S), NEW types
    PROVE  /\ OfType(s, types) \in Seq(S)
           /\ \E p : /\ \A i \in DOMAIN OfType(s, types) :
                            p[i] \in DOMAIN s /\ OfType(s, types)[i] = s[p[i]] /\ s[p[i]].type \in types
                     /\ \A i, j \in DOMAIN OfType(s, types) : i < j => p[i] < p[j]
  <1>1. PICK f : /\ f[0] = << >>
                 /\ \A n \in 1..Len(s) :
                        f[n] = IF s[n].type \in types THEN Append(f[n - 1], s[n]) ELSE f[n - 1]
                 /\ OfType(s, types) = f[Len(s)]
    BY OfTypeUnfolds
  <1> DEFINE Q(n, p) == /\ \A i \in DOMAIN f[n] : p[i] \in 1..n /\ f[n][i] = s[p[i]] /\ s[p[i]].type \in types
                        /\ \A i, j \in DOMAIN f[n] : i < j => p[i] < p[j]
             T == {n \in Nat : n <= Len(s) => f[n] \in Seq(S) /\ \E p : Q(n, p)}
  <1>2. 0 \in T /\ T \subseteq Nat
    <2>1. f[0] \in Seq(S) /\ DOMAIN f[0] = {}
      BY <1>1
    <2>2. Q(0, << >>)
      BY <2>1
    <2> QED BY <2>1, <2>2
  <1>3. ASSUME NEW n \in T PROVE n + 1 \in T
    <2> HIDE DEF Q
    <2>1. SUFFICES ASSUME n + 1 <= Len(s) PROVE f[n + 1] \in Seq(S) /\ \E p : Q(n + 1, p)
      OBVIOUS
    <2>2. n \in Nat /\ n + 1 \in 1..Len(s) /\ (n + 1) - 1 = n /\ f[n] \in Seq(S) /\ \E p : Q(n, p)
      BY <2>1
    <2>3. PICK p : Q(n, p)
      BY <2>2
    <2> USE DEF Q
    <2>4. f[n + 1] = IF s[n + 1].type \in types THEN Append(f[n], s[n + 1]) ELSE f[n]
      BY <1>1, <2>2
    <2>5. CASE s[n + 1].type \notin types
      <3>1. f[n + 1] = f[n]
        BY <2>4, <2>5
      <3>2. Q(n + 1, p)
        BY <2>2, <2>3, <3>1
      <3> QED BY <2>2, <2>3, <2>4, <3>1, <3>2
    <2>6. CASE s[n + 1].type \in types
      <3> DEFINE q == [i \in 1..(Len(f[n]) + 1) |-> IF i = Len(f[n]) + 1 THEN n + 1 ELSE p[i]]
      <3>1. /\ f[n + 1] = Append(f[n], s[n + 1]) /\ s[n + 1] \in S
            /\ Len(f[n]) \in Nat /\ DOMAIN f[n] = 1..Len(f[n])
        BY <2>2, <2>4, <2>6
      <3>2. /\ f[n + 1] \in Seq(S) /\ DOMAIN f[n + 1] = 1..(Len(f[n]) + 1)
            /\ f[n + 1][Len(f[n]) + 1] = s[n + 1]
            /\ \A i \in 1..Len(f[n]) : f[n + 1][i] = f[n][i]
        BY <2>2, <3>1
      <3>3. /\ q[Len(f[n]) + 1] = n + 1 /\ \A i \in 1..Len(f[n]) : q[i] = p[i]
        BY <3>1
      <3> HIDE DEF q
      <3>4. \A i \in DOMAIN f[n + 1] : q[i] \in 1..(n + 1) /\ f[n + 1][i] = s[q[i]] /\ s[q[i]].type \in types
        <4>1. ASSUME NEW i \in 1..Len(f[n]) PROVE q[i] \in 1..n /\ f[n + 1][i] = s[q[i]] /\ s[q[i]].type \in types
          BY <2>3, <3>1, <3>2, <3>3
        <4>2. \A i \in 1..(Len(f[n]) + 1) : i \in 1..Len(f[n]) \/ i = Len(f[n]) + 1
          BY <3>1
        <4>3. n + 1 \in 1..(n + 1) /\ \A m \in 1..n : m \in 1..(n + 1)
          BY <2>2
        <4> QED BY <2>6, <3>2, <3>3, <4>1, <4>2, <4>3
      <3>5. ASSUME NEW i \in DOMAIN f[n + 1], NEW j \in DOMAIN f[n + 1], i < j PROVE q[i] < q[j]
        <4>1. i \in 1..Len(f[n]) /\ q[i] = p[i] /\ p[i] \in 1..n
          BY <2>3, <3>1, <3>2, <3>3, <3>5
        <4>2. CASE j = Len(f[n]) + 1
          BY <2>2, <3>3, <4>1, <4>2
        <4>3. CASE j \in 1..Len(f[n])
          BY <2>3, <3>1, <3>3, <3>5, <4>1, <4>3
        <4> QED BY <3>1, <3>2, <4>2, <4>3
      <3> QED BY <3>2, <3>4, <3>5
    <2> QED BY <2>5, <2>6
  <1>4. T = Nat
    <2> HIDE DEF T
    <2> QED BY <1>2, <1>3, NatSetInduction
  <1>5. Len(s) \in T /\ Len(s) <= Len(s) /\ DOMAIN s = 1..Len(s)
    BY <1>4, SMTT(30)
  <1>6. f[Len(s)] \in Seq(S) /\ \E p : Q(Len(s), p)
    BY <1>5
  <1> QED BY <1>1, <1>5, <1>6

\* A prefix of a sequence, and the one that is longer by one
LEMMA PrefixGrows ==
    ASSUME NEW S, NEW s \in Seq(S), NEW n \in Nat, n + 1 <= Len(s)
    PROVE  /\ SubSeq(s, 1, n) \in Seq(S) /\ Len(SubSeq(s, 1, n)) = n /\ s[n + 1] \in S
           /\ SubSeq(s, 1, n + 1) = Append(SubSeq(s, 1, n), s[n + 1])
  OBVIOUS

\* OfType of a concatenation
LEMMA OfTypeConcat ==
    ASSUME NEW S, NEW s \in Seq(S), NEW t \in Seq(S), NEW types
    PROVE  OfType(s \o t, types) = OfType(s, types) \o OfType(t, types)
  <1> DEFINE pre(n) == SubSeq(t, 1, n)
             T == {n \in Nat : n <= Len(t) =>
                       OfType(s \o pre(n), types) = OfType(s, types) \o OfType(pre(n), types)}
  <1>0. OfType(s, types) \in Seq(S)
    BY OfTypePositions
  <1>1. 0 \in T /\ T \subseteq Nat
    <2>1. pre(0) = << >> /\ s \o << >> = s
      OBVIOUS
    <2>2. OfType(s, types) \o << >> = OfType(s, types)
      BY <1>0
    <2> QED BY <2>1, <2>2, OfTypeEmpty
  <1>2. ASSUME NEW n \in T PROVE n + 1 \in T
    <2>1. SUFFICES ASSUME n + 1 <= Len(t)
                   PROVE  OfType(s \o pre(n + 1), types) = OfType(s, types) \o OfType(pre(n + 1), types)
      OBVIOUS
    <2>2. /\ n \in Nat
          /\ OfType(s \o pre(n), types) = OfType(s, types) \o OfType(pre(n), types)
      BY <2>1
    <2>3. /\ pre(n) \in Seq(S) /\ t[n + 1] \in S /\ pre(n + 1) = Append(pre(n), t[n + 1])
      BY <2>1, <2>2, PrefixGrows
    <2> HIDE DEF pre
    <2>4. s \o pre(n) \in Seq(S) /\ s \o Append(pre(n), t[n + 1]) = Append(s \o pre(n), t[n + 1])
      BY <2>3
    <2>5. OfType(pre(n), types) \in Seq(S)
      BY <2>3, OfTypePositions
    <2>6. OfType(s, types) \o Append(OfType(pre(n), types), t[n + 1])
              = Append(OfType(s, types) \o OfType(pre(n), types), t[n + 1])
      BY <1>0, <2>3, <2>5
    <2>7. CASE t[n + 1].type \in types
      <3>1. OfType(Append(pre(n), t[n + 1]), types) = Append(OfType(pre(n), types), t[n + 1])
        BY <2>3, <2>7, OfTypeAppend
      <3>2. OfType(Append(s \o pre(n), t[n + 1]), types) = Append(OfType(s \o pre(n), types), t[n + 1])
        BY <2>3, <2>4, <2>7, OfTypeAppend
      <3> QED BY <2>2, <2>3, <2>4, <2>6, <3>1, <3>2
    <2>8. CASE t[n + 1].type \notin types
      <3>1. OfType(Append(pre(n), t[n + 1]), types) = OfType(pre(n), types)
        BY <2>3, <2>8, OfTypeAppend
      <3>2. OfType(Append(s \o pre(n), t[n + 1]), types) = OfType(s \o pre(n), types)
        BY <2>3, <2>4, <2>8, OfTypeAppend
      <3> QED BY <2>2, <2>3, <2>4, <3>1, <3>2
    <2> QED BY <2>7, <2>8
  <1>3. T = Nat
    <2> HIDE DEF T
    <2> QED BY <1>1, <1>2, NatSetInduction
  <1>4. Len(t) \in T /\ Len(t) <= Len(t) /\ pre(Len(t)) = t
    BY <1>3
  <1> HIDE DEF pre
  <1> QED BY <1>4

\* The text of messages, and how it grows; the separators are dropped by OfType.
LEMMA JoinGrows ==
    ASSUME NEW S, NEW s \in Seq(S), NEW x \in S
    PROVE  /\ Join(s) \in Seq(S \cup {RecordSeparator}) /\ Len(Join(s)) = 2 * Len(s)
           /\ Join(Append(s, x)) = Append(Append(Join(s), x), RecordSeparator)
  <1> DEFINE R == S \cup {RecordSeparator}
             t == Append(s, x)
             element(u, i) == Write(u[(i + 1) \div 2])[2 - (i % 2)]
  <1>1. /\ Len(s) \in Nat /\ t \in Seq(S) /\ Len(t) = Len(s) + 1
        /\ t[Len(s) + 1] = x /\ \A n \in 1..Len(s) : t[n] = s[n] /\ s[n] \in S
    OBVIOUS
  <1>2. \A y : Write(y)[1] = y /\ Write(y)[2] = RecordSeparator
    BY DEF Write
  <1>3. \A i \in Nat : (i % 2 = 0 \/ i % 2 = 1) /\ (i >= 1 => (i + 1) \div 2 >= 1)
    OBVIOUS
  <1>4. \A i \in 1..2 * Len(s) : (i + 1) \div 2 \in 1..Len(s)
    BY <1>1
  <1>5. \A i \in 1..2 * Len(s) : element(s, i) \in R
    <2> TAKE i \in 1..2 * Len(s)
    <2>1. (i + 1) \div 2 \in 1..Len(s) /\ (i % 2 = 0 \/ i % 2 = 1)
      BY <1>3, <1>4
    <2>2. s[(i + 1) \div 2] \in S /\ 2 - (i % 2) \in {1, 2}
      BY <1>1, <2>1
    <2> HIDE DEF R
    <2>3. R = S \cup {RecordSeparator}
      BY DEF R
    <2> QED BY <1>2, <2>2, <2>3
  <1>6. Join(s) = [i \in 1..2 * Len(s) |-> element(s, i)]
    BY DEF Join
  <1>7. Join(t) = [i \in 1..2 * (Len(s) + 1) |-> element(t, i)]
    BY <1>1 DEF Join
  <1>8. \A i \in 1..2 * Len(s) : element(t, i) = element(s, i)
    BY <1>1, <1>4
  <1>9. element(t, 2 * Len(s) + 1) = x /\ element(t, 2 * Len(s) + 2) = RecordSeparator
    <2>1. /\ (2 * Len(s) + 1 + 1) \div 2 = Len(s) + 1 /\ (2 * Len(s) + 2 + 1) \div 2 = Len(s) + 1
          /\ (2 * Len(s) + 1) % 2 = 1 /\ (2 * Len(s) + 2) % 2 = 0
      BY <1>1
    <2> QED BY <1>1, <1>2, <2>1
  <1> HIDE DEF element, R
  <1>10. Join(s) \in Seq(R) /\ Len(Join(s)) = 2 * Len(s) /\ \A i \in 1..2 * Len(s) : Join(s)[i] = element(s, i)
    <2>1. 2 * Len(s) \in Nat
      BY <1>1
    <2> QED BY <1>5, <1>6, <2>1
  <1>11. x \in R /\ RecordSeparator \in R
    BY DEF R
  <1> DEFINE u == Append(Append(Join(s), x), RecordSeparator)
  <1>12. /\ u \in Seq(R) /\ Len(u) = 2 * Len(s) + 2 /\ u[2 * Len(s) + 1] = x
         /\ u[2 * Len(s) + 2] = RecordSeparator /\ \A i \in 1..2 * Len(s) : u[i] = element(s, i)
    BY <1>1, <1>10, <1>11
  <1> HIDE DEF u
  <1>13. u = [i \in 1..2 * (Len(s) + 1) |-> u[i]]
    BY <1>1, <1>12
  <1>14. ASSUME NEW i \in 1..2 * (Len(s) + 1) PROVE u[i] = element(t, i)
    <2>1. i \in 1..2 * Len(s) \/ i = 2 * Len(s) + 1 \/ i = 2 * Len(s) + 2
      BY <1>1
    <2> QED BY <1>8, <1>9, <1>12, <2>1
  <1>15. u = Join(t)
    BY <1>7, <1>13, <1>14
  <1> QED BY <1>10, <1>15 DEF R, u, t

LEMMA OfTypeJoin ==
    ASSUME NEW S, NEW s \in Seq(S), NEW types, "RecordSeparator" \notin types
    PROVE  OfType(Join(s), types) = OfType(s, types)
  <1> DEFINE pre(n) == SubSeq(s, 1, n)
             T == {n \in Nat : n <= Len(s) => OfType(Join(pre(n)), types) = OfType(pre(n), types)}
             R == S \cup {RecordSeparator}
  <1>0. RecordSeparator.type \notin types
    BY DEF RecordSeparator
  <1>1. 0 \in T /\ T \subseteq Nat
    <2>1. pre(0) = << >> /\ Join(<< >>) = << >>
      BY DEF Join
    <2> QED BY <2>1, OfTypeEmpty
  <1>2. ASSUME NEW n \in T PROVE n + 1 \in T
    <2>1. SUFFICES ASSUME n + 1 <= Len(s)
                   PROVE  OfType(Join(pre(n + 1)), types) = OfType(pre(n + 1), types)
      OBVIOUS
    <2>2. n \in Nat /\ OfType(Join(pre(n)), types) = OfType(pre(n), types)
      BY <2>1
    <2>3. pre(n) \in Seq(S) /\ s[n + 1] \in S /\ pre(n + 1) = Append(pre(n), s[n + 1])
      BY <2>1, <2>2, PrefixGrows
    <2> HIDE DEF pre
    <2>4. /\ Join(pre(n)) \in Seq(R)
          /\ Join(pre(n + 1)) = Append(Append(Join(pre(n)), s[n + 1]), RecordSeparator)
      BY <2>3, JoinGrows
    <2>5. s[n + 1] \in R /\ RecordSeparator \in R
      BY <2>3
    <2> HIDE DEF R
    <2>6. Append(Join(pre(n)), s[n + 1]) \in Seq(R)
      BY <2>4, <2>5
    <2>7. OfType(Join(pre(n + 1)), types) = OfType(Append(Join(pre(n)), s[n + 1]), types)
      <3>1. OfType(Append(Append(Join(pre(n)), s[n + 1]), RecordSeparator), types)
                = OfType(Append(Join(pre(n)), s[n + 1]), types)
        BY <1>0, <2>5, <2>6, OfTypeAppend
      <3> QED BY <2>4, <3>1
    <2>8. CASE s[n + 1].type \in types
      <3>1. OfType(Append(pre(n), s[n + 1]), types) = Append(OfType(pre(n), types), s[n + 1])
        BY <2>3, <2>8, OfTypeAppend
      <3>2. OfType(Append(Join(pre(n)), s[n + 1]), types) = Append(OfType(Join(pre(n)), types), s[n + 1])
        BY <2>4, <2>5, <2>8, OfTypeAppend
      <3> QED BY <2>2, <2>3, <2>7, <3>1, <3>2
    <2>9. CASE s[n + 1].type \notin types
      <3>1. OfType(Append(pre(n), s[n + 1]), types) = OfType(pre(n), types)
        BY <2>3, <2>9, OfTypeAppend
      <3>2. OfType(Append(Join(pre(n)), s[n + 1]), types) = OfType(Join(pre(n)), types)
        BY <2>4, <2>5, <2>9, OfTypeAppend
      <3> QED BY <2>2, <2>3, <2>7, <3>1, <3>2
    <2> QED BY <2>8, <2>9
  <1>3. T = Nat
    <2> HIDE DEF T
    <2> QED BY <1>1, <1>2, NatSetInduction
  <1>4. Len(s) \in T /\ Len(s) <= Len(s) /\ pre(Len(s)) = s
    BY <1>3
  <1> HIDE DEF pre
  <1> QED BY <1>4

-----------------------------------------------------------------------------
(* What one text of the transport holds *)

KnownTypes == {"Invocation", "StreamItem", "Completion", "Ping", "Close"}
Tokens == Tickets(served)

\* The text of n messages, what is left of it after the handshake, and its messages: the
\* definitions of Receive.
TextOf(n) == Join(SubSeq(served, delivered + 1, delivered + n))
RestOf(n) == IF received THEN TextOf(n) ELSE HandshakeRest(TextOf(n))
MessagesOf(n) == IF RestOf(n) = << >> THEN << >> ELSE ParseMessages(RestOf(n))
\* The first message of the server that the n messages after `delivered' bring to the switch
FirstOf == IF received THEN delivered + 1 ELSE 2

LEMMA ServedTokens ==
    ASSUME HubTypeOK
    PROVE  /\ served \in Seq(Tokens) /\ Len(served) \in Nat /\ delivered \in Nat /\ delivered <= Len(served)
           /\ Len(served) >= 1 /\ \A i \in 1..Len(served) : served[i] \in Tokens
  BY DEF HubTypeOK, IsSequence, Tokens

\* The elements of a text: messages at the odd places, separators at the even ones
LEMMA JoinElements ==
    ASSUME NEW S, NEW s \in Seq(S)
    PROVE  /\ Join(s) \in Seq(S \cup {RecordSeparator}) /\ Len(Join(s)) = 2 * Len(s)
           /\ \A i \in 1..Len(s) : Join(s)[2 * i - 1] = s[i] /\ Join(s)[2 * i] = RecordSeparator
  <1>1. CASE s = << >>
    <2>1. Join(s) = << >> /\ Len(s) = 0
      BY <1>1 DEF Join
    <2> QED BY <2>1
  <1>2. CASE s # << >>
    <2>1. PICK x \in S : TRUE
      BY <1>2
    <2>2. Join(s) \in Seq(S \cup {RecordSeparator}) /\ Len(Join(s)) = 2 * Len(s)
      BY <2>1, JoinGrows
    <2>3. ASSUME NEW i \in 1..Len(s) PROVE Join(s)[2 * i - 1] = s[i] /\ Join(s)[2 * i] = RecordSeparator
      <3>1. Len(s) \in Nat /\ 2 * i - 1 \in 1..2 * Len(s) /\ 2 * i \in 1..2 * Len(s)
        OBVIOUS
      <3>2. /\ (2 * i - 1 + 1) \div 2 = i /\ (2 * i + 1) \div 2 = i
            /\ 2 - ((2 * i - 1) % 2) = 1 /\ 2 - ((2 * i) % 2) = 2
        OBVIOUS
      <3>3. \A j \in 1..2 * Len(s) : Join(s)[j] = Write(s[(j + 1) \div 2])[2 - (j % 2)]
        BY DEF Join
      <3>4. \A y : Write(y)[1] = y /\ Write(y)[2] = RecordSeparator
        BY DEF Write
      <3> QED BY <3>1, <3>2, <3>3, <3>4
    <2> QED BY <2>2, <2>3
  <1> QED BY <1>1, <1>2

\* parseHandshakeResponse takes the first message off a text, with its separator.
LEMMA HandshakeRestOfJoin ==
    ASSUME NEW S, NEW s \in Seq(S), s # << >>, s[1] # RecordSeparator
    PROVE  HandshakeRest(Join(s)) = Join(Tail(s))
  <1> DEFINE text == Join(s)
             IsFirst(i) == text[i] = RecordSeparator /\ \A j \in 1..i - 1 : text[j] # RecordSeparator
             R == S \cup {RecordSeparator}
  <1>1. Len(s) \in Nat /\ Len(s) >= 1 /\ Tail(s) \in Seq(S) /\ Len(Tail(s)) = Len(s) - 1
    OBVIOUS
  <1>2. /\ text \in Seq(R) /\ Len(text) = 2 * Len(s) /\ DOMAIN text = 1..2 * Len(s)
        /\ \A i \in 1..Len(s) : text[2 * i - 1] = s[i] /\ text[2 * i] = RecordSeparator
    <2>1. /\ text \in Seq(R) /\ Len(text) = 2 * Len(s)
          /\ \A i \in 1..Len(s) : text[2 * i - 1] = s[i] /\ text[2 * i] = RecordSeparator
      BY JoinElements, Zenon
    <2>2. DOMAIN text = 1..2 * Len(s)
      BY <2>1
    <2> QED BY <2>1, <2>2, Zenon
  <1> HIDE DEF text
  <1>3. text[1] = s[1] /\ text[2] = RecordSeparator /\ 2 \in DOMAIN text
    <2>1. 1 \in 1..Len(s) /\ 2 * 1 - 1 = 1 /\ 2 * 1 = 2
      BY <1>1
    <2>2. text[2 * 1 - 1] = s[1] /\ text[2 * 1] = RecordSeparator
      BY <1>2, <2>1
    <2> QED BY <1>1, <1>2, <2>1, <2>2
  <1>4. IsFirst(2)
    BY <1>3
  <1>5. ASSUME NEW i \in DOMAIN text, IsFirst(i) PROVE i = 2
    <2>1. i \in Nat /\ i >= 1
      BY <1>1, <1>2
    <2>2. i # 1
      BY <1>3, <1>5
    <2>3. ~(i > 2)
      BY <1>3, <1>5, <2>1
    <2> QED BY <2>1, <2>2, <2>3
  <1>6. (CHOOSE i \in DOMAIN text : IsFirst(i)) = 2
    <2> HIDE DEF IsFirst
    <2> QED BY <1>3, <1>4, <1>5
  <1>7. HandshakeRest(text) = SubSeq(text, 2 + 1, Len(text))
    BY <1>6 DEF HandshakeRest
  <1>8. /\ Join(Tail(s)) \in Seq(R) /\ Len(Join(Tail(s))) = 2 * (Len(s) - 1)
        /\ \A i \in 1..Len(s) - 1 : /\ Join(Tail(s))[2 * i - 1] = s[i + 1]
                                    /\ Join(Tail(s))[2 * i] = RecordSeparator
    <2>1. \A i \in 1..Len(s) - 1 : Tail(s)[i] = s[i + 1]
      OBVIOUS
    <2>2. /\ Join(Tail(s)) \in Seq(R) /\ Len(Join(Tail(s))) = 2 * Len(Tail(s))
          /\ \A i \in 1..Len(Tail(s)) : /\ Join(Tail(s))[2 * i - 1] = Tail(s)[i]
                                        /\ Join(Tail(s))[2 * i] = RecordSeparator
      BY <1>1, JoinElements, Zenon
    <2> QED BY <1>1, <2>1, <2>2, Zenon
  <1>9. /\ SubSeq(text, 3, Len(text)) \in Seq(R) /\ Len(SubSeq(text, 3, Len(text))) = 2 * (Len(s) - 1)
        /\ \A i \in 1..2 * (Len(s) - 1) : SubSeq(text, 3, Len(text))[i] = text[i + 2]
    BY <1>1, <1>2
  <1>10. ASSUME NEW i \in 1..2 * (Len(s) - 1) PROVE text[i + 2] = Join(Tail(s))[i]
    <2>1. (\E j \in 1..Len(s) - 1 : i = 2 * j - 1) \/ (\E j \in 1..Len(s) - 1 : i = 2 * j)
      <3>1. CASE i % 2 = 1
        <4>1. (i + 1) \div 2 \in 1..Len(s) - 1 /\ i = 2 * ((i + 1) \div 2) - 1
          BY <1>1, <3>1
        <4> QED BY <4>1
      <3>2. CASE i % 2 = 0
        <4>1. i \div 2 \in 1..Len(s) - 1 /\ i = 2 * (i \div 2)
          BY <1>1, <3>2
        <4> QED BY <4>1
      <3> QED BY <1>1, <3>1, <3>2
    <2>2. ASSUME NEW j \in 1..Len(s) - 1, i = 2 * j - 1 PROVE text[i + 2] = Join(Tail(s))[i]
      <3>1. j + 1 \in 1..Len(s) /\ i + 2 = 2 * (j + 1) - 1
        BY <1>1, <2>2
      <3>2. text[2 * (j + 1) - 1] = s[j + 1]
        BY <1>2, <3>1
      <3> QED BY <1>8, <2>2, <3>1, <3>2
    <2>3. ASSUME NEW j \in 1..Len(s) - 1, i = 2 * j PROVE text[i + 2] = Join(Tail(s))[i]
      <3>1. j + 1 \in 1..Len(s) /\ i + 2 = 2 * (j + 1)
        BY <1>1, <2>3
      <3>2. text[2 * (j + 1)] = RecordSeparator
        BY <1>2, <3>1
      <3> QED BY <1>8, <2>3, <3>1, <3>2
    <2> QED BY <2>1, <2>2, <2>3
  <1>11. SubSeq(text, 3, Len(text)) = Join(Tail(s))
    BY <1>1, <1>8, <1>9, <1>10
  <1> QED BY <1>7, <1>11 DEF text

\* Whatever the split: the messages of a text are those of the server it joined, but for the
\* handshake and the types that are skipped.
LEMMA MessagesOfText ==
    ASSUME HubTypeOK, NEW n \in 1..Len(served) - delivered
    PROVE  MessagesOf(n) = OfType(SubSeq(served, FirstOf, delivered + n), KnownTypes)
  <1> DEFINE part == SubSeq(served, delivered + 1, delivered + n)
  <1>1. /\ served \in Seq(Tokens) /\ Len(served) \in Nat /\ delivered \in Nat /\ delivered + n <= Len(served)
    BY ServedTokens
  <1>2. /\ part \in Seq(Tokens) /\ Len(part) = n /\ n \in Nat /\ n >= 1
        /\ part[1] = served[delivered + 1]
    BY <1>1
  <1>3. "RecordSeparator" \notin KnownTypes /\ Handshake # RecordSeparator
    BY DEF KnownTypes, Handshake, RecordSeparator
  <1>4. \A text : ParseMessages(text) = OfType(text, KnownTypes)
    BY DEF ParseMessages, KnownTypes
  <1>5. CASE received
    <2>1. RestOf(n) = Join(part) /\ FirstOf = delivered + 1
      BY <1>5 DEF RestOf, TextOf, FirstOf
    <2> HIDE DEF part
    <2>2. Join(part) # << >>
      <3>1. Len(Join(part)) = 2 * n
        BY <1>2, JoinElements
      <3> QED BY <1>2, <3>1
    <2>3. MessagesOf(n) = OfType(Join(part), KnownTypes)
      BY <1>4, <2>1, <2>2 DEF MessagesOf
    <2>4. OfType(Join(part), KnownTypes) = OfType(part, KnownTypes)
      BY <1>2, <1>3, OfTypeJoin
    <2> QED BY <2>1, <2>3, <2>4 DEF part
  <1>6. CASE ~received
    <2>1. delivered = 0 /\ served[1] = Handshake
      BY <1>1, <1>6 DEF HubTypeOK
    <2>2. part = SubSeq(served, 1, n) /\ part[1] = Handshake
      BY <1>2, <2>1
    <2>3. Tail(part) = SubSeq(served, 2, n)
      BY <1>1, <1>2, <2>1, <2>2
    <2>4. RestOf(n) = HandshakeRest(Join(part)) /\ FirstOf = 2 /\ delivered + n = n
      BY <1>2, <1>6, <2>1 DEF RestOf, TextOf, FirstOf
    <2> HIDE DEF part
    <2>5. Tail(part) \in Seq(Tokens) /\ part # << >>
      BY <1>2
    <2>6. RestOf(n) = Join(Tail(part))
      BY <1>2, <1>3, <2>2, <2>4, <2>5, HandshakeRestOfJoin
    <2>7. OfType(Join(Tail(part)), KnownTypes) = OfType(Tail(part), KnownTypes)
      BY <1>3, <2>5, OfTypeJoin
    <2>8. MessagesOf(n) = OfType(Join(Tail(part)), KnownTypes)
      BY <1>4, <2>6, OfTypeEmpty DEF MessagesOf
    <2> QED BY <2>3, <2>4, <2>7, <2>8
  <1> QED BY <1>5, <1>6 DEF HubTypeOK

\* The messages are messages of the server after `delivered', in order, each once.
LEMMA MessagesServed ==
    ASSUME HubTypeOK, NEW n \in 1..Len(served) - delivered
    PROVE  /\ MessagesOf(n) \in Seq(Tokens) /\ Len(MessagesOf(n)) \in Nat
           /\ DOMAIN MessagesOf(n) = 1..Len(MessagesOf(n))
           /\ \E p : /\ \A i \in DOMAIN MessagesOf(n) :
                            /\ p[i] \in 2..Len(served) /\ p[i] \in delivered + 1..delivered + n
                            /\ MessagesOf(n)[i] = served[p[i]]
                            /\ served[p[i]].type \in KnownTypes
                     /\ \A i, j \in DOMAIN MessagesOf(n) : i < j => p[i] < p[j]
  <1> DEFINE part == SubSeq(served, FirstOf, delivered + n)
             out == OfType(part, KnownTypes)
  <1>1. /\ served \in Seq(Tokens) /\ Len(served) \in Nat /\ delivered \in Nat /\ delivered + n <= Len(served)
        /\ n \in Nat /\ n >= 1
    BY ServedTokens
  <1>2. FirstOf \in Nat /\ FirstOf >= 2 /\ FirstOf >= delivered + 1 /\ FirstOf <= delivered + n + 1
    BY <1>1 DEF FirstOf, HubTypeOK
  <1>3. /\ part \in Seq(Tokens)
        /\ \A i \in DOMAIN part : /\ i + FirstOf - 1 \in FirstOf..delivered + n
                                  /\ part[i] = served[i + FirstOf - 1] /\ i \in Int
    BY <1>1, <1>2
  <1> HIDE DEF part
  <1>4. MessagesOf(n) = out
    BY MessagesOfText DEF part
  <1>5. /\ out \in Seq(Tokens)
        /\ \E p : /\ \A i \in DOMAIN out :
                         p[i] \in DOMAIN part /\ out[i] = part[p[i]] /\ part[p[i]].type \in KnownTypes
                  /\ \A i, j \in DOMAIN out : i < j => p[i] < p[j]
    BY <1>3, OfTypePositions, Zenon
  <1> HIDE DEF out
  <1>6. PICK p : /\ \A i \in DOMAIN out :
                        p[i] \in DOMAIN part /\ out[i] = part[p[i]] /\ part[p[i]].type \in KnownTypes
                 /\ \A i, j \in DOMAIN out : i < j => p[i] < p[j]
    BY <1>5
  <1> DEFINE q == [i \in DOMAIN out |-> p[i] + FirstOf - 1]
  <1>7. ASSUME NEW i \in DOMAIN out
        PROVE  /\ q[i] \in 2..Len(served) /\ q[i] \in delivered + 1..delivered + n
               /\ out[i] = served[q[i]] /\ served[q[i]].type \in KnownTypes
    <2>1. p[i] \in DOMAIN part /\ out[i] = part[p[i]] /\ part[p[i]].type \in KnownTypes /\ q[i] = p[i] + FirstOf - 1
      BY <1>6
    <2>2. q[i] \in FirstOf..delivered + n /\ part[p[i]] = served[q[i]]
      BY <1>3, <2>1
    <2> HIDE DEF q
    <2> QED BY <1>1, <1>2, <2>1, <2>2
  <1>8. \A i, j \in DOMAIN out : i < j => q[i] < q[j]
    <2>1. \A i \in DOMAIN out : p[i] \in Int
      BY <1>3, <1>6
    <2> QED BY <1>2, <1>6, <2>1
  <1>9. Len(out) \in Nat /\ DOMAIN out = 1..Len(out)
    BY <1>5
  <1> HIDE DEF q
  <1> QED BY <1>4, <1>5, <1>7, <1>8, <1>9

-----------------------------------------------------------------------------
(* The queue of the connection *)

\* What the handlers and continuations of a connection do to its queue
QueueMove ==
    \/ UNCHANGED qvars
    \/ open /\ \E ms \in Seq(ClientMessages) : SendAll(ms)

\* New messages on an open connection are a step of QueueSpec.
LEMMA SendsAreSteps ==
    ASSUME HubInv, open, NEW ms \in Seq(ClientMessages), SendAll(ms)
    PROVE  SendSome /\ sent' = sent \o ms /\ sent' \in Seq(ClientMessages) /\ executing' = executing
  <1>1. /\ sent \in Seq(ClientMessages) /\ sent' = sent \o ms /\ executing /\ executing' = executing
    BY DEF HubInv, HubTypeOK, SendAll
  <1>2. /\ sent' \in Seq(ClientMessages) /\ SubSeq(sent', Len(sent) + 1, Len(sent')) = ms
    BY <1>1
  <1>3. IsSequence(sent')
    BY <1>2 DEF IsSequence, Tickets
  <1> QED BY <1>1, <1>2, <1>3 DEF SendSome

LEMMA QueueMoves ==
    ASSUME HubInv, QueueMove
    PROVE  /\ QueueInv' /\ [QueueNext]_qvars
           /\ sent' \in Seq(ClientMessages) /\ executing' = executing
  <1>1. CASE UNCHANGED qvars
    BY <1>1, QueueSame DEF qvars, HubInv, HubTypeOK
  <1>2. CASE open /\ \E ms \in Seq(ClientMessages) : SendAll(ms)
    BY <1>2, SendsAreSteps, SendSomeKeeps DEF HubInv, QueueNext
  <1> QED BY <1>1, <1>2 DEF QueueMove

LEMMA TransmitMoves ==
    ASSUME NEW m \in ClientMessages, Transmit(m), open \in BOOLEAN
    PROVE  QueueMove
  <1>1. <<m>> \in Seq(ClientMessages)
    OBVIOUS
  <1> QED BY <1>1 DEF Transmit, QueueMove

LEMMA ClientMessageTyped ==
    ASSUME NEW type \in {"Invocation", "StreamInvocation", "StreamItem", "Completion",
                         "CancelInvocation"},
           NEW id \in Int, NEW streams \in Seq(Nat)
    PROVE  Message(type, id, streams) \in ClientMessages
  BY DEF Message, ClientMessages

-----------------------------------------------------------------------------
(* What the actions do to one call *)

\* Only the k-th call changes, and neither its kind nor its ids.
Changed(k) ==
    /\ calls' \in Seq(CallRecords) /\ DOMAIN calls' = DOMAIN calls
    /\ \A j \in DOMAIN calls : j # k => calls'[j] = calls[j]
    /\ calls'[k].kind = calls[k].kind /\ calls'[k].id = calls[k].id
    /\ calls'[k].uploads = calls[k].uploads

LEMMA CallChanges ==
    ASSUME calls \in Seq(CallRecords), NEW k \in DOMAIN calls, NEW c \in CallRecords,
           calls' = [calls EXCEPT ![k] = c],
           c.kind = calls[k].kind, c.id = calls[k].id, c.uploads = calls[k].uploads
    PROVE  Changed(k) /\ calls'[k] = c
  <1>1. calls' \in Seq(CallRecords) /\ DOMAIN calls' = DOMAIN calls
    OBVIOUS
  <1>2. calls'[k] = c /\ \A j \in DOMAIN calls : j # k => calls'[j] = calls[j]
    OBVIOUS
  <1> QED BY <1>1, <1>2 DEF Changed

\* A call is one of its records.
LEMMA CallTyped ==
    ASSUME HubTypeOK, NEW k \in DOMAIN calls
    PROVE  calls \in Seq(CallRecords) /\ calls[k] \in CallRecords
  BY DEF HubTypeOK

LEMMA SendCaughtChanges ==
    ASSUME HubTypeOK, NEW k \in DOMAIN calls, SendCaught(k)
    PROVE  /\ Changed(k) /\ QueueMove
           /\ calls'[k].outcome = IF calls[k].outcome = "pending" THEN "rejected" ELSE calls[k].outcome
           /\ calls'[k].observed = calls[k].observed
           /\ calls'[k].live = calls[k].live /\ calls'[k].chain = calls[k].chain
  <1> DEFINE c == [End(calls[k], "rejected") EXCEPT !.caught = TRUE]
  <1>1. calls \in Seq(CallRecords) /\ calls[k] \in CallRecords /\ calls' = [calls EXCEPT ![k] = c]
    BY CallTyped DEF SendCaught
  <1>2. /\ c \in CallRecords
        /\ c.outcome = IF calls[k].outcome = "pending" THEN "rejected" ELSE calls[k].outcome
        /\ c.kind = calls[k].kind /\ c.id = calls[k].id /\ c.uploads = calls[k].uploads
        /\ c.observed = calls[k].observed /\ c.live = calls[k].live /\ c.chain = calls[k].chain
    BY <1>1 DEF End, CallRecords
  <1> HIDE DEF c
  <1>3. Changed(k) /\ calls'[k] = c
    BY <1>1, <1>2, CallChanges
  <1> QED BY <1>2, <1>3 DEF SendCaught, QueueMove

LEMMA SendSettlesChanges ==
    ASSUME HubTypeOK, NEW k \in DOMAIN calls, SendSettles(k)
    PROVE  /\ Changed(k) /\ QueueMove
           /\ calls'[k].observed = calls[k].observed
           /\ calls'[k].live = calls[k].live /\ calls'[k].chain = calls[k].chain
  <1> DEFINE result == IF Resolved(calls[k].ticket) THEN "resolved" ELSE "rejected"
             c == End(calls[k], result)
  <1>1. calls \in Seq(CallRecords) /\ calls[k] \in CallRecords /\ calls' = [calls EXCEPT ![k] = c]
    BY CallTyped DEF SendSettles
  <1>2. result \in {"resolved", "rejected"}
    OBVIOUS
  <1> HIDE DEF result
  <1>3. /\ c \in CallRecords
        /\ c.kind = calls[k].kind /\ c.id = calls[k].id /\ c.uploads = calls[k].uploads
        /\ c.observed = calls[k].observed /\ c.live = calls[k].live /\ c.chain = calls[k].chain
    BY <1>1, <1>2 DEF End, CallRecords
  <1> HIDE DEF c
  <1>4. Changed(k) /\ calls'[k] = c
    BY <1>1, <1>3, CallChanges
  <1> QED BY <1>3, <1>4 DEF SendSettles, QueueMove

LEMMA DisposeChanges ==
    ASSUME HubTypeOK, NEW k \in DOMAIN calls, Dispose(k)
    PROVE  /\ Changed(k) /\ QueueMove
           /\ calls'[k].outcome = calls[k].outcome /\ calls'[k].observed = FALSE
           /\ calls'[k].live = calls[k].live /\ calls'[k].chain = calls[k].chain
  <1> DEFINE c == [calls[k] EXCEPT !.observed = FALSE, !.cancel = TRUE]
  <1>1. calls \in Seq(CallRecords) /\ calls[k] \in CallRecords
    BY CallTyped
  <1>2. calls' = [calls EXCEPT ![k] = c]
    BY <1>1 DEF Dispose
  <1>3. /\ c \in CallRecords /\ c.outcome = calls[k].outcome /\ c.observed = FALSE
        /\ c.kind = calls[k].kind /\ c.id = calls[k].id /\ c.uploads = calls[k].uploads
        /\ c.live = calls[k].live /\ c.chain = calls[k].chain
    BY <1>1 DEF CallRecords
  <1> HIDE DEF c
  <1>4. Changed(k) /\ calls'[k] = c
    BY <1>1, <1>2, <1>3, CallChanges
  <1> QED BY <1>3, <1>4 DEF Dispose, QueueMove

LEMMA SendCancelChanges ==
    ASSUME HubTypeOK, NEW k \in DOMAIN calls, SendCancel(k)
    PROVE  /\ Changed(k) /\ QueueMove
           /\ Transmit(Message("CancelInvocation", calls[k].id, << >>))
           /\ calls'[k].outcome = calls[k].outcome /\ calls'[k].observed = calls[k].observed
           /\ calls'[k].live = calls[k].live /\ calls'[k].chain = calls[k].chain
  <1> DEFINE c == [calls[k] EXCEPT !.cancel = FALSE]
  <1>1. calls \in Seq(CallRecords) /\ calls[k] \in CallRecords
    BY CallTyped
  <1>2. calls' = [calls EXCEPT ![k] = c]
    BY <1>1 DEF SendCancel
  <1>3. /\ c \in CallRecords /\ c.outcome = calls[k].outcome /\ c.observed = calls[k].observed
        /\ c.kind = calls[k].kind /\ c.id = calls[k].id /\ c.uploads = calls[k].uploads
        /\ c.live = calls[k].live /\ c.chain = calls[k].chain
    BY <1>1 DEF CallRecords
  <1> HIDE DEF c
  <1>4. Changed(k) /\ calls'[k] = c
    BY <1>1, <1>2, <1>3, CallChanges
  <1>5. QueueMove
    <2>1. calls[k].id \in Int /\ << >> \in Seq(Nat)
      BY <1>1 DEF CallRecords
    <2>2. Message("CancelInvocation", calls[k].id, << >>) \in ClientMessages
      BY <2>1, ClientMessageTyped
    <2> QED BY <2>2, TransmitMoves DEF SendCancel, HubTypeOK
  <1> QED BY <1>3, <1>4, <1>5 DEF SendCancel

LEMMA EmitChanges ==
    ASSUME HubTypeOK, NEW k \in DOMAIN calls, NEW stream \in calls[k].live,
           NEW type \in {"StreamItem", "Completion"}, Emit(k, stream, type)
    PROVE  /\ Changed(k) /\ QueueMove /\ UNCHANGED sent
           /\ calls'[k].outcome = calls[k].outcome /\ calls'[k].observed = calls[k].observed
           /\ calls'[k].live = IF type = "Completion" THEN calls[k].live \ {stream} ELSE calls[k].live
           /\ calls'[k].chain = Append(calls[k].chain, Message(type, stream, << >>))
           /\ Message(type, stream, << >>) \in ClientMessages /\ stream \in Nat
  <1> DEFINE m == Message(type, stream, << >>)
             live == IF type = "Completion" THEN calls[k].live \ {stream} ELSE calls[k].live
             items == IF type = "StreamItem" THEN calls[k].items + 1 ELSE calls[k].items
             chain == Append(calls[k].chain, m)
             c == [calls[k] EXCEPT !.chain = chain, !.items = items, !.live = live]
  <1>1. calls \in Seq(CallRecords) /\ calls[k] \in CallRecords
    BY CallTyped
  <1>2. stream \in Nat /\ calls[k].live \subseteq Nat /\ calls[k].items \in Nat
        /\ calls[k].chain \in Seq(ClientMessages)
    BY <1>1 DEF CallRecords
  <1>3. m \in ClientMessages
    <2>1. << >> \in Seq(Nat) /\ stream \in Int
      BY <1>2
    <2> QED BY <2>1, ClientMessageTyped
  <1>4. calls' = [calls EXCEPT ![k] = c]
    BY <1>1 DEF Emit
  <1>5. live \in SUBSET Nat /\ items \in Nat /\ chain \in Seq(ClientMessages)
    <2> HIDE DEF m
    <2> QED BY <1>2, <1>3
  <1> HIDE DEF live, items, chain, m
  <1>6. /\ c \in CallRecords /\ c.outcome = calls[k].outcome /\ c.observed = calls[k].observed
        /\ c.kind = calls[k].kind /\ c.id = calls[k].id /\ c.uploads = calls[k].uploads
        /\ c.live = live /\ c.chain = chain
    BY <1>1, <1>5 DEF CallRecords
  <1> HIDE DEF c
  <1>7. Changed(k) /\ calls'[k] = c
    BY <1>1, <1>4, <1>6, CallChanges
  <1> QED BY <1>2, <1>3, <1>6, <1>7 DEF Emit, QueueMove, qvars, live, chain, m

\* A link of the chain is sent and taken off, or the whole chain is dropped.
LEMMA ChainRunsChanges ==
    ASSUME HubTypeOK, NEW k \in DOMAIN calls, ChainRuns(k)
    PROVE  /\ Changed(k) /\ QueueMove /\ calls[k].chain # << >> /\ calls[k].chain \in Seq(ClientMessages)
           /\ calls'[k].outcome = calls[k].outcome /\ calls'[k].observed = calls[k].observed
           /\ calls'[k].live = calls[k].live
           /\ \/ /\ calls'[k].chain = Tail(calls[k].chain) /\ Transmit(Head(calls[k].chain))
                 /\ Head(calls[k].chain) = calls[k].chain[1]
              \/ calls'[k].chain = << >> /\ UNCHANGED qvars
  <1>1. /\ calls \in Seq(CallRecords) /\ calls[k] \in CallRecords /\ calls[k].chain # << >>
        /\ sent \in Seq(ClientMessages) /\ open \in BOOLEAN
    BY CallTyped DEF ChainRuns, HubTypeOK
  <1>2. /\ calls[k].chain \in Seq(ClientMessages)
    BY <1>1 DEF CallRecords
  <1>3. /\ Tail(calls[k].chain) \in Seq(ClientMessages) /\ Head(calls[k].chain) \in ClientMessages
        /\ Head(calls[k].chain) = calls[k].chain[1] /\ << >> \in Seq(ClientMessages)
    BY <1>1, <1>2
  <1> DEFINE waits == IF open THEN Len(sent) + 1 ELSE 0
             c == [calls[k] EXCEPT !.waits = waits, !.tolerant = FALSE, !.chain = Tail(calls[k].chain)]
             d == [calls[k] EXCEPT !.chain = << >>]
  <1>4. \/ Transmit(Head(calls[k].chain)) /\ calls' = [calls EXCEPT ![k] = c]
        \/ UNCHANGED qvars /\ calls' = [calls EXCEPT ![k] = d]
    BY <1>1 DEF ChainRuns
  <1>5. waits \in Nat
    BY <1>1
  <1> HIDE DEF waits
  <1>6. /\ c \in CallRecords /\ c.outcome = calls[k].outcome /\ c.observed = calls[k].observed
        /\ c.kind = calls[k].kind /\ c.id = calls[k].id /\ c.uploads = calls[k].uploads
        /\ c.live = calls[k].live /\ c.chain = Tail(calls[k].chain)
    BY <1>1, <1>3, <1>5 DEF CallRecords
  <1>7. /\ d \in CallRecords /\ d.outcome = calls[k].outcome /\ d.observed = calls[k].observed
        /\ d.kind = calls[k].kind /\ d.id = calls[k].id /\ d.uploads = calls[k].uploads
        /\ d.live = calls[k].live /\ d.chain = << >>
    BY <1>1, <1>3 DEF CallRecords
  <1> HIDE DEF c, d
  <1>8. CASE Transmit(Head(calls[k].chain)) /\ calls' = [calls EXCEPT ![k] = c]
    <2>1. Changed(k) /\ calls'[k] = c
      BY <1>1, <1>6, <1>8, CallChanges
    <2>2. QueueMove
      BY <1>1, <1>3, <1>8, TransmitMoves
    <2> QED BY <1>1, <1>2, <1>3, <1>6, <1>8, <2>1, <2>2
  <1>9. CASE UNCHANGED qvars /\ calls' = [calls EXCEPT ![k] = d]
    <2>1. Changed(k) /\ calls'[k] = d
      BY <1>1, <1>7, <1>9, CallChanges
    <2> QED BY <1>1, <1>2, <1>7, <1>9, <2>1 DEF QueueMove
  <1> QED BY <1>4, <1>8, <1>9

\* A new call: its ids are drawn now, and the message that announces its streams is sent.
NewCall(c) ==
    /\ c \in CallRecords /\ calls' = Append(calls, c)
    /\ nextId' \in Nat /\ nextId <= nextId'
    /\ \A x \in Tickets(c.uploads) : nextId <= x /\ x < nextId'
    /\ \/ c.kind = "send" /\ c.id = -1 /\ callbacks' = callbacks
       \/ c.kind # "send" /\ nextId <= c.id /\ c.id < nextId' /\ callbacks' = callbacks \cup {c.id}
    /\ c.outcome = "pending" /\ c.observed = (c.kind = "stream")
    /\ c.live = Tickets(c.uploads) /\ c.chain = << >>
    /\ \/ UNCHANGED qvars
       \/ open /\ \E m \in ClientMessages : /\ SendAll(<<m>>) /\ m.streams = c.uploads
                                            /\ m.type \in {"Invocation", "StreamInvocation"}

LEMMA CallAdds ==
    ASSUME HubTypeOK, NEW call \in page.calls, Call(call.kind, call.args)
    PROVE  \E c : NewCall(c)
  <1> DEFINE kind == call.kind
             number == Cardinality(Replaced(call.args))
             uploads == [i \in 1..number |-> nextId + i - 1]
             id == IF kind = "send" THEN -1 ELSE nextId + Len(uploads)
             type == IF kind = "stream" THEN "StreamInvocation" ELSE "Invocation"
             ticket == IF open THEN Len(sent) + 1 ELSE 0
             m == Message(type, id, uploads)
             c == [kind |-> kind, id |-> id, uploads |-> uploads, ticket |-> ticket,
                   caught |-> FALSE, outcome |-> "pending", observed |-> kind = "stream",
                   cancel |-> FALSE, waits |-> ticket, tolerant |-> kind # "send",
                   live |-> Tickets(uploads), items |-> 0, chain |-> << >>]
  <1>1. /\ kind \in {"invoke", "send", "stream"} /\ call.args \in Seq({"observable", "value"})
        /\ nextId \in Nat /\ sent \in Seq(ClientMessages) /\ open \in BOOLEAN
    BY PagesAssumption DEF HubTypeOK
  <1>2. number \in Nat
    <2>1. Replaced(call.args) \subseteq DOMAIN call.args
      BY DEF Replaced
    <2>2. DOMAIN call.args = 1..Len(call.args) /\ Len(call.args) \in Nat
      BY <1>1
    <2>3. IsFiniteSet(1..Len(call.args))
      BY <2>2, FS_Interval
    <2>4. IsFiniteSet(Replaced(call.args))
      BY <2>1, <2>2, <2>3, FS_Subset
    <2> QED BY <2>4, FS_CardinalityType
  <1>3. /\ nextId' = nextId + Len(uploads) + (IF kind = "send" THEN 0 ELSE 1)
        /\ callbacks' = IF kind = "send" THEN callbacks ELSE callbacks \cup {id}
        /\ calls' = Append(calls, c)
        /\ IF open THEN SendAll(<<m>>) ELSE UNCHANGED qvars
    BY DEF Call
  <1> HIDE DEF number
  <1>4. /\ uploads \in Seq(Nat) /\ Len(uploads) = number
        /\ \A i \in DOMAIN uploads : uploads[i] = nextId + i - 1 /\ i \in 1..number
    BY <1>1, <1>2
  <1> HIDE DEF kind, uploads
  <1>5. /\ id \in Int /\ ticket \in Nat /\ (kind # "send" => id = nextId + number)
        /\ type \in {"Invocation", "StreamInvocation"}
    BY <1>1, <1>2, <1>4
  <1>6. \A x \in Tickets(uploads) : x \in Nat /\ nextId <= x /\ x < nextId + number
    BY <1>1, <1>2, <1>4 DEF Tickets
  <1>7. m \in ClientMessages /\ m.type = type /\ m.streams = uploads
    <2> HIDE DEF id, type
    <2> QED BY <1>4, <1>5 DEF Message, ClientMessages
  <1>8. /\ nextId' \in Nat /\ nextId <= nextId' /\ nextId + number <= nextId'
        /\ kind = "send" => id = -1 /\ callbacks' = callbacks
        /\ kind # "send" => nextId <= id /\ id < nextId' /\ callbacks' = callbacks \cup {id}
    BY <1>1, <1>2, <1>3, <1>4, <1>5
  <1>9. \A x \in Tickets(uploads) : nextId <= x /\ x < nextId'
    BY <1>1, <1>2, <1>6, <1>8
  <1>10. << >> \in Seq(ClientMessages) /\ Tickets(uploads) \in SUBSET Nat
    BY <1>6
  <1> HIDE DEF id, ticket, m, type
  <1>11. /\ c \in CallRecords /\ c.kind = kind /\ c.id = id /\ c.uploads = uploads
         /\ c.outcome = "pending" /\ c.observed = (kind = "stream") /\ c.live = Tickets(uploads)
         /\ c.chain = << >>
    BY <1>1, <1>4, <1>5, <1>10 DEF CallRecords, kind
  <1> HIDE DEF c
  <1>12. NewCall(c)
    BY <1>1, <1>3, <1>5, <1>7, <1>8, <1>9, <1>11 DEF NewCall
  <1> QED BY <1>12

LEMMA NewCallMoves == ASSUME NEW c, NewCall(c) PROVE QueueMove
  <1>1. \A m \in ClientMessages : <<m>> \in Seq(ClientMessages)
    OBVIOUS
  <1> QED BY <1>1 DEF NewCall, QueueMove

-----------------------------------------------------------------------------
(* What the actions do to the invocations of the server *)

LEMMA AnswersTyped ==
    ASSUME NEW v, v.several \in BOOLEAN
    PROVE  /\ Answers(v) \in Seq({"error", "result"})
           /\ Len(Answers(v)) = IF v.several \/ v.id # 0 THEN 1 ELSE 0
  <1>1. CASE v.several
    <2>1. Answers(v) = <<"error">>
      BY <1>1 DEF Answers
    <2> QED BY <1>1, <2>1
  <1>2. CASE ~v.several /\ v.id # 0
    <2> DEFINE a == IF v.threw \/ v.result = "undefined" THEN "error" ELSE "result"
    <2>1. Answers(v) = <<a>>
      BY <1>2 DEF Answers
    <2>2. a \in {"error", "result"}
      OBVIOUS
    <2> HIDE DEF a
    <2> QED BY <1>2, <2>1, <2>2
  <1>3. CASE ~v.several /\ v.id = 0
    <2>1. Answers(v) = << >>
      BY <1>3 DEF Answers
    <2> QED BY <1>3, <2>1
  <1> QED BY <1>1, <1>2, <1>3

\* The invocation v becomes u, and the answers are sent if the connection is open.
Returned(v, u, answers) ==
    /\ IsInvocation(u) /\ u.id = v.id /\ v.left # << >>
    /\ answers \in Seq({"error", "result"}) /\ u.answers = v.answers \o answers
    /\ u.several => v.several \/ v.id # 0
    /\ Len(answers) = IF u.left = << >> /\ (u.several \/ v.id # 0) THEN 1 ELSE 0

Became(i, u) == invocations' = [invocations EXCEPT ![i] = u]

LEMMA HandlerReturned ==
    ASSUME HubTypeOK, NEW i \in DOMAIN invocations, NEW result, HandlerReturns(i, result)
    PROVE  \E u, answers :
               /\ Returned(invocations[i], u, answers)
               /\ Became(i, u)
               /\ IF open THEN SendAll([a \in DOMAIN answers |-> Message("Completion", u.id, << >>)])
                          ELSE UNCHANGED qvars
  <1> DEFINE v == invocations[i]
             several == v.several \/ (v.id # 0 /\ {result, v.result} \cap Falsy = {})
             u == IF result = "throw"
                  THEN [v EXCEPT !.left = Tail(v.left), !.threw = TRUE]
                  ELSE [v EXCEPT !.left = Tail(v.left), !.threw = FALSE, !.result = result,
                                 !.several = several]
             answers == IF u.left = << >> THEN Answers(u) ELSE << >>
             w == [id |-> u.id, left |-> u.left, result |-> u.result, threw |-> u.threw,
                   several |-> u.several, answers |-> v.answers \o answers]
  <1>1. IsInvocation(v) /\ v.left # << >>
    BY DEF HubTypeOK, HandlerReturns
  <1>2. several \in BOOLEAN /\ (several => v.several \/ v.id # 0)
    BY <1>1 DEF IsInvocation
  <1>3. /\ u = [id |-> u.id, left |-> u.left, result |-> u.result, threw |-> u.threw,
                several |-> u.several, answers |-> u.answers]
        /\ u.id = v.id /\ u.answers = v.answers /\ u.threw \in BOOLEAN /\ u.several \in BOOLEAN
        /\ u.several => v.several \/ v.id # 0
    <2> HIDE DEF v, several
    <2> QED BY <1>1, <1>2 DEF IsInvocation
  <1>4. /\ invocations' = [invocations EXCEPT ![i] = [u EXCEPT !.answers = @ \o answers]]
        /\ IF open THEN SendAll([a \in DOMAIN answers |-> Message("Completion", v.id, << >>)])
                   ELSE UNCHANGED qvars
    BY DEF HandlerReturns
  <1> HIDE DEF u
  <1>5. /\ answers \in Seq({"error", "result"})
        /\ Len(answers) = IF u.left = << >> /\ (u.several \/ v.id # 0) THEN 1 ELSE 0
    <2>1. CASE u.left = << >>
      BY <1>3, <2>1, AnswersTyped
    <2>2. CASE u.left # << >>
      BY <2>2
    <2> QED BY <2>1, <2>2
  <1> HIDE DEF answers, v
  <1>6. v.answers \o answers \in Seq({"error", "result"}) /\ v.id \in Int /\ v.id <= 0
    BY <1>1, <1>5 DEF IsInvocation
  <1>7. [u EXCEPT !.answers = @ \o answers] = w
    <2> DEFINE r == [id |-> u.id, left |-> u.left, result |-> u.result, threw |-> u.threw,
                     several |-> u.several, answers |-> u.answers]
    <2>1. \A g : [r EXCEPT !.answers = g]
                  = [id |-> u.id, left |-> u.left, result |-> u.result, threw |-> u.threw,
                     several |-> u.several, answers |-> g]
      OBVIOUS
    <2>2. u = r /\ r.answers = v.answers
      BY <1>3
    <2> HIDE DEF r
    <2>3. [r EXCEPT !.answers = r.answers \o answers] = w
      BY <2>1, <2>2
    <2> QED BY <2>2, <2>3
  <1>8. /\ w = [id |-> w.id, left |-> w.left, result |-> w.result, threw |-> w.threw,
                several |-> w.several, answers |-> w.answers]
        /\ w.id = v.id /\ w.left = u.left /\ w.threw = u.threw /\ w.several = u.several
        /\ w.answers = v.answers \o answers
    BY <1>3
  <1> HIDE DEF w
  <1>9. Returned(v, w, answers)
    BY <1>1, <1>3, <1>5, <1>6, <1>8 DEF Returned, IsInvocation
  <1>10. Became(i, w)
    BY <1>4, <1>7 DEF Became
  <1>11. IF open THEN SendAll([a \in DOMAIN answers |-> Message("Completion", w.id, << >>)])
                 ELSE UNCHANGED qvars
    BY <1>4, <1>8, Zenon
  <1> QED BY <1>9, <1>10, <1>11, Zenon DEF v

LEMMA UpdatedSequence ==
    ASSUME NEW s, IsSequence(s), NEW i \in DOMAIN s, NEW u
    PROVE  /\ IsSequence([s EXCEPT ![i] = u])
           /\ DOMAIN [s EXCEPT ![i] = u] = DOMAIN s /\ DOMAIN s = 1..Len(s) /\ Len(s) \in Nat
           /\ [s EXCEPT ![i] = u][i] = u
           /\ \A j \in DOMAIN s : j # i => [s EXCEPT ![i] = u][j] = s[j]
  <1> DEFINE t == [s EXCEPT ![i] = u]
             R == Tickets(s) \cup {u}
  <1>1. s \in Seq(Tickets(s)) /\ Len(s) \in Nat /\ DOMAIN s = 1..Len(s)
    BY DEF IsSequence
  <1>2. DOMAIN t = DOMAIN s /\ t[i] = u /\ \A j \in DOMAIN s : j # i => t[j] = s[j]
    BY <1>1
  <1>3. t = [j \in 1..Len(s) |-> t[j]]
    BY <1>1
  <1> HIDE DEF t
  <1>4. \A j \in 1..Len(s) : t[j] \in Tickets(t)
    BY <1>1, <1>2 DEF Tickets
  <1> DEFINE Q == Tickets(t)
  <1> HIDE DEF Q
  <1>5. t \in [1..Len(s) -> Q]
    BY <1>3, <1>4 DEF Q
  <1>6. t \in Seq(Q)
    BY <1>1, <1>5
  <1> QED BY <1>1, <1>2, <1>6 DEF IsSequence, Q, t

\* The messages of an answer, and the sequence of invocations after it
LEMMA ReturnedTyped ==
    ASSUME HubTypeOK, NEW i \in DOMAIN invocations, NEW u, NEW answers,
           Returned(invocations[i], u, answers), Became(i, u)
    PROVE  /\ IsSequence(invocations') /\ DOMAIN invocations' = DOMAIN invocations
           /\ invocations'[i] = u /\ \A j \in DOMAIN invocations : j # i => invocations'[j] = invocations[j]
           /\ [a \in DOMAIN answers |-> Message("Completion", u.id, << >>)] \in Seq(ClientMessages)
  <1>1. IsSequence(invocations)
    BY DEF HubTypeOK
  <1>2. IsSequence(invocations')
    BY <1>1, UpdatedSequence DEF Became
  <1>3. /\ DOMAIN invocations' = DOMAIN invocations /\ invocations'[i] = u
        /\ \A j \in DOMAIN invocations : j # i => invocations'[j] = invocations[j]
    BY <1>1, UpdatedSequence DEF Became
  <1>4. Message("Completion", u.id, << >>) \in ClientMessages
    <2>1. u.id \in Int /\ << >> \in Seq(Nat)
      BY DEF Returned, IsInvocation
    <2> QED BY <2>1, ClientMessageTyped
  <1>5. [a \in DOMAIN answers |-> Message("Completion", u.id, << >>)] \in Seq(ClientMessages)
    <2>1. DOMAIN answers = 1..Len(answers) /\ Len(answers) \in Nat
      BY DEF Returned
    <2> QED BY <1>4, <2>1
  <1> QED BY <1>2, <1>3, <1>5

-----------------------------------------------------------------------------
(* What dispatching does to the calls and invocations, and what it sends *)

\* Dispatching changes no call but for its outcome, and sends completions of the server's ids.
IsInbox(w) ==
    w = [callbacks |-> w.callbacks, calls |-> w.calls, invocations |-> w.invocations, out |-> w.out]
InboxOK(w) ==
    /\ IsInbox(w)
    /\ w.callbacks \subseteq callbacks
    /\ w.calls \in Seq(CallRecords) /\ DOMAIN w.calls = DOMAIN calls
    /\ \A k \in DOMAIN calls :
           /\ w.calls[k].kind = calls[k].kind /\ w.calls[k].id = calls[k].id
           /\ w.calls[k].uploads = calls[k].uploads /\ w.calls[k].observed = calls[k].observed
           /\ w.calls[k].live = calls[k].live /\ w.calls[k].chain = calls[k].chain
    /\ IsSequence(w.invocations) /\ \A i \in DOMAIN w.invocations : IsInvocation(w.invocations[i])
    /\ w.out \in Seq(ClientMessages)
    /\ \A t \in DOMAIN w.out : w.out[t].type = "Completion" /\ w.out[t].id < 0 /\ w.out[t].streams = << >>

LEMMA InboxTyped == ASSUME HubTypeOK PROVE InboxOK(Inbox)
  <1>1. /\ Inbox.callbacks = callbacks /\ Inbox.calls = calls /\ Inbox.invocations = invocations
        /\ Inbox.out = << >>
    BY DEF Inbox
  <1>2. IsInbox(Inbox)
    BY DEF Inbox, IsInbox
  <1>3. << >> \in Seq(ClientMessages) /\ DOMAIN << >> = {}
    OBVIOUS
  <1> QED BY <1>1, <1>2, <1>3 DEF InboxOK, HubTypeOK

\* A sequence of anything stays one when an element is appended.
LEMMA AppendedSequence ==
    ASSUME NEW s, IsSequence(s), NEW x
    PROVE  /\ IsSequence(Append(s, x)) /\ DOMAIN Append(s, x) = 1..Len(s) + 1
           /\ DOMAIN s = 1..Len(s) /\ Len(s) \in Nat
           /\ Append(s, x)[Len(s) + 1] = x /\ \A i \in 1..Len(s) : Append(s, x)[i] = s[i]
  <1> DEFINE t == Append(s, x)
             R == Tickets(s) \cup {x}
  <1>1. s \in Seq(Tickets(s)) /\ Len(s) \in Nat /\ DOMAIN s = 1..Len(s)
    BY DEF IsSequence
  <1>2. s \in Seq(R) /\ x \in R
    BY <1>1
  <1>3. /\ t \in Seq(R) /\ Len(t) = Len(s) + 1 /\ DOMAIN t = 1..Len(s) + 1
        /\ t[Len(s) + 1] = x /\ \A i \in 1..Len(s) : t[i] = s[i]
    <2> HIDE DEF R
    <2> QED BY <1>2
  <1> HIDE DEF t
  <1> DEFINE Q == Tickets(t)
  <1>4. \A i \in 1..Len(t) : t[i] \in Q
    BY <1>3 DEF Tickets
  <1> HIDE DEF Q, R
  <1>5. t \in Seq(Q)
    BY <1>1, <1>3, <1>4
  <1> QED BY <1>1, <1>3, <1>5 DEF IsSequence, Q, t

\* The invocation a message of the server starts
Started(message) ==
    [id |-> message.id, left |-> methods, result |-> "undefined", threw |-> FALSE,
     several |-> FALSE,
     answers |-> IF methods = << >> /\ message.id # 0 THEN <<"error">> ELSE << >>]

LEMMA StartedTyped ==
    ASSUME NEW message \in ServerMessages, message.id <= 0
    PROVE  /\ IsInvocation(Started(message)) /\ Started(message).id = message.id
           /\ Started(message).left = methods /\ Started(message).several = FALSE
           /\ methods = << >> /\ message.id # 0 =>
                  Len(Started(message).answers) = 1 /\ Started(message).answers # << >>
           /\ ~(methods = << >> /\ message.id # 0) =>
                  Started(message).answers = << >> /\ Len(Started(message).answers) = 0
  <1> DEFINE answers == IF methods = << >> /\ message.id # 0 THEN <<"error">> ELSE << >>
  <1>1. /\ answers \in Seq({"error", "result"})
        /\ methods = << >> /\ message.id # 0 => Len(answers) = 1 /\ answers # << >>
        /\ ~(methods = << >> /\ message.id # 0) => answers = << >> /\ Len(answers) = 0
    <2>1. /\ <<"error">> \in Seq({"error", "result"}) /\ Len(<<"error">>) = 1
          /\ <<"error">> # << >>
      OBVIOUS
    <2>2. << >> \in Seq({"error", "result"}) /\ Len(<< >>) = 0
      OBVIOUS
    <2>3. CASE methods = << >> /\ message.id # 0
      BY <2>1, <2>3, Zenon
    <2>4. CASE ~(methods = << >> /\ message.id # 0)
      BY <2>2, <2>4, Zenon
    <2> QED BY <2>3, <2>4, Zenon
  <1>2. message.id \in Int
    BY DEF ServerMessages
  <1>3. Started(message) = [id |-> message.id, left |-> methods, result |-> "undefined",
                            threw |-> FALSE, several |-> FALSE, answers |-> answers]
    BY DEF Started
  <1> HIDE DEF answers
  <1> QED BY <1>1, <1>2, <1>3 DEF IsInvocation

\* The two ways in which a message changes an inbox
LEMMA InboxInvocations ==
    ASSUME NEW r, IsInbox(r), NEW e, NEW f
    PROVE  [r EXCEPT !.invocations = e, !.out = f] = [callbacks |-> r.callbacks, calls |-> r.calls, invocations |-> e, out |-> f]
  <1> DEFINE x == [r EXCEPT !.invocations = e]
  <1>1. x = [callbacks |-> r.callbacks, calls |-> r.calls, invocations |-> e, out |-> r.out]
    BY DEF IsInbox
  <1>2. [x EXCEPT !.out = f] = [callbacks |-> r.callbacks, calls |-> r.calls, invocations |-> e, out |-> f]
    <2> HIDE DEF x
    <2> QED BY <1>1
  <1>3. [r EXCEPT !.invocations = e, !.out = f] = [x EXCEPT !.out = f]
    OBVIOUS
  <1> QED BY <1>2, <1>3

LEMMA InboxCalls ==
    ASSUME NEW r, IsInbox(r), NEW e, NEW f
    PROVE  [r EXCEPT !.callbacks = e, !.calls = f] = [callbacks |-> e, calls |-> f, invocations |-> r.invocations, out |-> r.out]
  <1> DEFINE x == [r EXCEPT !.callbacks = e]
  <1>1. x = [callbacks |-> e, calls |-> r.calls, invocations |-> r.invocations, out |-> r.out]
    BY DEF IsInbox
  <1>2. [x EXCEPT !.calls = f] = [callbacks |-> e, calls |-> f, invocations |-> r.invocations, out |-> r.out]
    <2> HIDE DEF x
    <2> QED BY <1>1
  <1>3. [r EXCEPT !.callbacks = e, !.calls = f] = [x EXCEPT !.calls = f]
    OBVIOUS
  <1> QED BY <1>2, <1>3

LEMMA InvokeResult ==
    ASSUME NEW w, InboxOK(w), NEW message \in ServerMessages, message.id <= 0
    PROVE  LET x == InvokeClientMethod(w, message)
               m == Message("Completion", message.id, << >>)
           IN  /\ IsInbox(x)
               /\ x.callbacks = w.callbacks /\ x.calls = w.calls
               /\ x.invocations = Append(w.invocations, Started(message))
               /\ methods = << >> /\ message.id # 0 => x.out = Append(w.out, m)
               /\ ~(methods = << >> /\ message.id # 0) => x.out = w.out
  <1> DEFINE m == Message("Completion", message.id, << >>)
             vs == Append(w.invocations, Started(message))
             out == IF Started(message).answers = << >> THEN w.out ELSE Append(w.out, m)
  <1>1. InvokeClientMethod(w, message) = [w EXCEPT !.invocations = vs, !.out = out]
    BY DEF InvokeClientMethod, Started
  <1>2. /\ methods = << >> /\ message.id # 0 => out = Append(w.out, m)
        /\ ~(methods = << >> /\ message.id # 0) => out = w.out
    BY StartedTyped
  <1> HIDE DEF vs, out, m
  <1>3. [w EXCEPT !.invocations = vs, !.out = out]
        = [callbacks |-> w.callbacks, calls |-> w.calls, invocations |-> vs, out |-> out]
    <2>1. IsInbox(w)
      BY DEF InboxOK
    <2> QED BY <2>1, InboxInvocations
  <1> QED BY <1>1, <1>2, <1>3 DEF vs, m, IsInbox

\* The call a message of the server is for, if its callback is registered, after the message
Called(c, message) ==
    IF c.id # message.id THEN c
    ELSE IF message.type = "Completion" THEN End(c, "answered") ELSE Item(c)

LEMMA CalledTyped ==
    ASSUME NEW c \in CallRecords, NEW message
    PROVE  /\ Called(c, message) \in CallRecords
           /\ Called(c, message).kind = c.kind /\ Called(c, message).id = c.id
           /\ Called(c, message).uploads = c.uploads /\ Called(c, message).observed = c.observed
           /\ Called(c, message).live = c.live /\ Called(c, message).chain = c.chain
           /\ c.id # message.id => Called(c, message) = c
           /\ c.id = message.id /\ message.type = "Completion" => Called(c, message).outcome # "pending"
           /\ message.type # "Completion" /\ c.kind = "stream" =>
                  Called(c, message).outcome = c.outcome
  <1>1. CASE c.id # message.id
    BY <1>1 DEF Called
  <1>2. CASE c.id = message.id /\ message.type = "Completion"
    <2> DEFINE outcome == IF c.outcome = "pending" THEN "answered" ELSE c.outcome
    <2>1. Called(c, message) = [c EXCEPT !.outcome = outcome]
      BY <1>2 DEF Called, End
    <2>2. outcome \in {"answered", "resolved", "rejected"}
      BY DEF CallRecords
    <2> HIDE DEF outcome
    <2> QED BY <1>2, <2>1, <2>2 DEF CallRecords
  <1>3. CASE c.id = message.id /\ message.type # "Completion"
    <2> DEFINE outcome == IF c.kind = "invoke" /\ c.outcome = "pending" THEN "rejected" ELSE c.outcome
    <2>1. Called(c, message) = [c EXCEPT !.outcome = outcome]
      BY <1>3 DEF Called, Item
    <2>2. /\ outcome \in {"pending", "answered", "resolved", "rejected"}
          /\ c.kind = "stream" => outcome = c.outcome
      BY DEF CallRecords
    <2> HIDE DEF outcome
    <2> QED BY <1>3, <2>1, <2>2 DEF CallRecords
  <1> QED BY <1>1, <1>2, <1>3

LEMMA CallBackResult ==
    ASSUME NEW w, InboxOK(w), NEW message, message.id \in w.callbacks
    PROVE  LET x == CallBack(w, message)
           IN  /\ IsInbox(x)
               /\ x.invocations = w.invocations /\ x.out = w.out
               /\ message.type = "Completion" => x.callbacks = w.callbacks \ {message.id}
               /\ message.type # "Completion" => x.callbacks = w.callbacks
               /\ x.calls \in Seq(CallRecords) /\ DOMAIN x.calls = DOMAIN w.calls
               /\ \A k \in DOMAIN w.calls :
                      w.calls[k] \in CallRecords /\ x.calls[k] = Called(w.calls[k], message)
  <1> DEFINE ids == IF message.type = "Completion" THEN w.callbacks \ {message.id} ELSE w.callbacks
             cs == [k \in DOMAIN w.calls |-> Called(w.calls[k], message)]
  <1>1. CallBack(w, message) = [w EXCEPT !.callbacks = ids, !.calls = cs]
    BY DEF CallBack, Called
  <1>2. IsInbox(w) /\ w.calls \in Seq(CallRecords)
    BY DEF InboxOK
  <1>3. /\ message.type = "Completion" => ids = w.callbacks \ {message.id}
        /\ message.type # "Completion" => ids = w.callbacks
    OBVIOUS
  <1>4. \A k \in DOMAIN w.calls : w.calls[k] \in CallRecords /\ Called(w.calls[k], message) \in CallRecords
    BY <1>2, CalledTyped
  <1>5. cs \in Seq(CallRecords) /\ DOMAIN cs = DOMAIN w.calls
    BY <1>2, <1>4
  <1>6. \A k \in DOMAIN w.calls : cs[k] = Called(w.calls[k], message)
    OBVIOUS
  <1> HIDE DEF ids, cs
  <1>7. CallBack(w, message)
        = [callbacks |-> ids, calls |-> cs, invocations |-> w.invocations, out |-> w.out]
    BY <1>1, <1>2, InboxCalls
  <1> QED BY <1>3, <1>4, <1>5, <1>6, <1>7 DEF IsInbox

\* The cases of the switch
LEMMA Switch ==
    ASSUME NEW w, NEW message
    PROVE  /\ message.type = "Invocation" => DispatchMessage(w, message) = InvokeClientMethod(w, message)
           /\ message.type \in {"StreamItem", "Completion"} /\ message.id \in w.callbacks =>
                  DispatchMessage(w, message) = CallBack(w, message)
           /\ message.type \in {"StreamItem", "Completion"} /\ message.id \notin w.callbacks =>
                  DispatchMessage(w, message) = w
           /\ message.type \notin {"Invocation", "StreamItem", "Completion"} =>
                  DispatchMessage(w, message) = w
  BY DEF DispatchMessage, CallBack

LEMMA DispatchKeepsInbox ==
    ASSUME NEW w, InboxOK(w), NEW message \in ServerMessages,
           message.type = "Invocation" => message.id <= 0
    PROVE  InboxOK(DispatchMessage(w, message))
  <1> DEFINE x == DispatchMessage(w, message)
  <1>1. CASE message.type = "Invocation"
    <2> DEFINE m == Message("Completion", message.id, << >>)
               v == Started(message)
    <2>1. /\ IsInbox(x) /\ x.callbacks = w.callbacks /\ x.calls = w.calls
          /\ x.invocations = Append(w.invocations, v)
          /\ methods = << >> /\ message.id # 0 => x.out = Append(w.out, m)
          /\ ~(methods = << >> /\ message.id # 0) => x.out = w.out
      BY <1>1, Switch, InvokeResult
    <2>2. IsInvocation(v)
      BY <1>1, StartedTyped
    <2>3. IsSequence(w.invocations) /\ \A i \in DOMAIN w.invocations : IsInvocation(w.invocations[i])
      BY DEF InboxOK
    <2>4. IsSequence(x.invocations) /\ \A i \in DOMAIN x.invocations : IsInvocation(x.invocations[i])
      <3> HIDE DEF x, v
      <3>1. /\ IsSequence(Append(w.invocations, v))
            /\ DOMAIN Append(w.invocations, v) = 1..Len(w.invocations) + 1
            /\ DOMAIN w.invocations = 1..Len(w.invocations) /\ Len(w.invocations) \in Nat
            /\ Append(w.invocations, v)[Len(w.invocations) + 1] = v
            /\ \A i \in 1..Len(w.invocations) : Append(w.invocations, v)[i] = w.invocations[i]
        BY <2>3, AppendedSequence
      <3> QED BY <2>1, <2>2, <2>3, <3>1
    <2>5. message.id \in Int /\ message.id <= 0 /\ << >> \in Seq(Nat)
      BY <1>1 DEF ServerMessages
    <2>6. m \in ClientMessages /\ m.type = "Completion" /\ m.id = message.id /\ m.streams = << >>
      BY <2>5, ClientMessageTyped DEF Message
    <2>7. /\ x.out \in Seq(ClientMessages)
          /\ \A t \in DOMAIN x.out : x.out[t].type = "Completion" /\ x.out[t].id < 0 /\ x.out[t].streams = << >>
      <3> HIDE DEF x, m
      <3>1. /\ w.out \in Seq(ClientMessages)
            /\ \A t \in DOMAIN w.out : w.out[t].type = "Completion" /\ w.out[t].id < 0 /\ w.out[t].streams = << >>
        BY DEF InboxOK
      <3>2. CASE methods = << >> /\ message.id # 0
        <4>1. x.out = Append(w.out, m) /\ m.id < 0
          BY <2>1, <2>5, <2>6, <3>2
        <4> QED BY <2>6, <3>1, <4>1
      <3>3. CASE ~(methods = << >> /\ message.id # 0)
        BY <2>1, <3>1, <3>3
      <3> QED BY <3>2, <3>3
    <2> HIDE DEF x, m, v
    <2> QED BY <2>1, <2>4, <2>7 DEF InboxOK, x
  <1>2. CASE message.type \in {"StreamItem", "Completion"} /\ message.id \in w.callbacks
    <2>1. /\ IsInbox(x) /\ x.invocations = w.invocations /\ x.out = w.out
          /\ x.callbacks \subseteq w.callbacks
          /\ x.calls \in Seq(CallRecords) /\ DOMAIN x.calls = DOMAIN w.calls
          /\ \A k \in DOMAIN w.calls :
                 w.calls[k] \in CallRecords /\ x.calls[k] = Called(w.calls[k], message)
      <3>1. x = CallBack(w, message)
        BY <1>2, Switch
      <3>2. \/ x.callbacks = w.callbacks \ {message.id}
            \/ x.callbacks = w.callbacks
        BY <1>2, <3>1, CallBackResult
      <3> HIDE DEF x
      <3>3. x.callbacks \subseteq w.callbacks
        BY <3>2
      <3> QED BY <1>2, <3>1, <3>3, CallBackResult
    <2> HIDE DEF x
    <2>2. \A k \in DOMAIN w.calls :
              /\ x.calls[k].kind = w.calls[k].kind /\ x.calls[k].id = w.calls[k].id
              /\ x.calls[k].uploads = w.calls[k].uploads /\ x.calls[k].observed = w.calls[k].observed
              /\ x.calls[k].live = w.calls[k].live /\ x.calls[k].chain = w.calls[k].chain
      <3> SUFFICES ASSUME NEW k \in DOMAIN w.calls
                   PROVE  /\ x.calls[k].kind = w.calls[k].kind /\ x.calls[k].id = w.calls[k].id
                          /\ x.calls[k].uploads = w.calls[k].uploads
                          /\ x.calls[k].observed = w.calls[k].observed
                          /\ x.calls[k].live = w.calls[k].live /\ x.calls[k].chain = w.calls[k].chain
        OBVIOUS
      <3> DEFINE c == w.calls[k]
      <3>1. c \in CallRecords /\ x.calls[k] = Called(c, message)
        BY <2>1
      <3> HIDE DEF c
      <3>2. /\ Called(c, message).kind = c.kind /\ Called(c, message).id = c.id
            /\ Called(c, message).uploads = c.uploads /\ Called(c, message).observed = c.observed
            /\ Called(c, message).live = c.live /\ Called(c, message).chain = c.chain
        BY <3>1, CalledTyped, Zenon
      <3> QED BY <3>1, <3>2 DEF c
    <2> QED BY <2>1, <2>2 DEF InboxOK, x
  <1>3. CASE x = w
    BY <1>3
  <1> QED BY <1>1, <1>2, <1>3, Switch DEF ServerMessages

\* A call whose callback a message finds is told, and the callback goes with the completion.
LEMMA DispatchKeepsRegistered ==
    ASSUME HubTypeOK, CallbackInv, NEW w, InboxOK(w), Registered(w.callbacks, w.calls),
           NEW p \in 2..Len(served)
    PROVE  LET x == DispatchMessage(w, served[p]) IN Registered(x.callbacks, x.calls)
  <1> DEFINE m == served[p]
             x == DispatchMessage(w, m)
  <1>1. m \in ServerMessages /\ (m.type = "Invocation" => m.id <= 0) /\ p \in DOMAIN served
    BY ServedTokens DEF HubTypeOK
  <1>2. CASE m.type \in {"StreamItem", "Completion"} /\ m.id \in w.callbacks
    <2>1. /\ m.type = "Completion" => x.callbacks = w.callbacks \ {m.id}
          /\ m.type # "Completion" => x.callbacks = w.callbacks
          /\ DOMAIN x.calls = DOMAIN w.calls
          /\ \A k \in DOMAIN w.calls : w.calls[k] \in CallRecords /\ x.calls[k] = Called(w.calls[k], m)
      <3> HIDE DEF m
      <3>1. x = CallBack(w, m)
        BY <1>2, Switch
      <3> HIDE DEF x
      <3> QED BY <1>2, <3>1, CallBackResult
    <2>2. ASSUME m.type = "StreamItem"
          PROVE  \A k \in DOMAIN w.calls : w.calls[k].id = m.id => w.calls[k].kind = "stream"
      <3>1. PICK j \in DOMAIN calls : calls[j].kind = "stream" /\ calls[j].id = m.id
        BY <1>1, <2>2 DEF CallbackInv, ItemsOfStreams
      <3>2. m.id # -1
        BY <1>2 DEF InboxOK, HubTypeOK
      <3>3. \A k \in DOMAIN calls : calls[k].id = m.id => k = j
        BY <3>1, <3>2 DEF CallbackInv, IdsDrawn
      <3> QED BY <3>1, <3>3 DEF InboxOK
    <2> HIDE DEF x, m
    <2>3. ASSUME NEW k \in DOMAIN x.calls
          PROVE  x.calls[k].id \in x.callbacks <=> Awaited(x.calls[k]) /\ x.calls[k].outcome = "pending"
      <3> DEFINE c == w.calls[k]
                 d == x.calls[k]
      <3>1. c \in CallRecords /\ d = Called(c, m) /\ (m.type = "StreamItem" /\ c.id = m.id => c.kind = "stream")
        BY <2>1, <2>2
      <3>2. c.id \in w.callbacks <=> Awaited(c) /\ c.outcome = "pending"
        BY <2>1 DEF Registered
      <3> HIDE DEF c, d
      <3>3. /\ d.kind = c.kind /\ d.id = c.id /\ d.observed = c.observed
            /\ c.id # m.id => d = c
            /\ c.id = m.id /\ m.type = "Completion" => d.outcome # "pending"
            /\ m.type # "Completion" /\ c.kind = "stream" => d.outcome = c.outcome
        BY <3>1, CalledTyped, Zenon
      <3>4. Awaited(d) <=> Awaited(c)
        BY <3>3 DEF Awaited
      <3>5. CASE c.id # m.id
        <4>1. c.id \in x.callbacks <=> c.id \in w.callbacks
          BY <1>2, <2>1, <3>5
        <4> QED BY <3>2, <3>3, <3>5, <4>1 DEF d
      <3>6. CASE c.id = m.id /\ m.type = "Completion"
        BY <2>1, <3>3, <3>6 DEF d
      <3>7. CASE c.id = m.id /\ m.type = "StreamItem"
        <4>1. d.outcome = c.outcome /\ x.callbacks = w.callbacks
          BY <2>1, <3>1, <3>3, <3>7
        <4> QED BY <3>2, <3>3, <3>4, <4>1 DEF d
      <3> QED BY <1>2, <3>5, <3>6, <3>7
    <2> QED BY <2>3 DEF Registered, x, m
  <1>3. CASE m.type = "Invocation"
    <2> HIDE DEF m
    <2>1. x = InvokeClientMethod(w, m)
      BY <1>3, Switch
    <2> HIDE DEF x
    <2>2. x.callbacks = w.callbacks /\ x.calls = w.calls
      BY <1>1, <1>3, <2>1, InvokeResult
    <2> QED BY <2>2 DEF x, m
  <1>4. CASE x = w
    BY <1>4
  <1>5. m.type = "Invocation" \/ x = w \/ (m.type \in {"StreamItem", "Completion"} /\ m.id \in w.callbacks)
    <2> HIDE DEF m
    <2> QED BY Switch
  <1> QED BY <1>2, <1>3, <1>4, <1>5

\* One more id of the server is seen, and the invocation v has it or none has.
LEMMA AnswerInvGrows ==
    ASSUME NEW s, NEW vs, NEW seen \in Nat, NEW p \in Nat, seen <= p, AnswerInv(s, vs, seen),
           \A i \in DOMAIN vs : vs[i].id \in Int
    PROVE  AnswerInv(s, vs, p)
  <1>1. \A i \in DOMAIN vs : vs[i].id \in -seen..0 => vs[i].id \in -p..0
    OBVIOUS
  <1> QED BY <1>1 DEF AnswerInv

\* An invocation that has just started with the id of place p, and the answer it may have had
JustStarted(v, p, s, ms) ==
    /\ v.id \in {0, -p} /\ v.several = FALSE
    /\ v.id # 0 /\ v.left = << >> => Len(v.answers) = 1
    /\ ~(v.id # 0 /\ v.left = << >>) => Len(v.answers) = 0
    /\ \/ ms = s
       \/ v.id # 0 /\ v.left = << >> /\ ms = Append(s, Message("Completion", v.id, << >>))

LEMMA AnswerInvStarts ==
    ASSUME NEW s \in Seq(ClientMessages), NEW vs, IsSequence(vs), \A i \in DOMAIN vs : vs[i].id \in Int,
           NEW seen \in Nat, NEW p \in Nat, seen < p, AnswerInv(s, vs, seen),
           NEW v, NEW ms, JustStarted(v, p, s, ms)
    PROVE  AnswerInv(ms, Append(vs, v), p)
  <1> USE DEF JustStarted
  <1> DEFINE us == Append(vs, v)
             m == Message("Completion", v.id, << >>)
  <1>1. /\ DOMAIN us = 1..Len(vs) + 1 /\ DOMAIN vs = 1..Len(vs) /\ Len(vs) \in Nat
        /\ us[Len(vs) + 1] = v /\ \A i \in DOMAIN vs : us[i] = vs[i]
    BY AppendedSequence
  <1> HIDE DEF us
  <1>2. \A i \in DOMAIN us : us[i].id \in -p..0
    BY <1>1 DEF AnswerInv
  <1>3. \A i \in DOMAIN vs : v.id # 0 => vs[i].id # v.id
    BY DEF AnswerInv
  <1>4. \A i, j \in DOMAIN us : i # j /\ us[i].id # 0 => us[i].id # us[j].id
    BY <1>1, <1>3 DEF AnswerInv
  <1>5. \A i \in DOMAIN us : Len(us[i].answers) = IF us[i].id # 0 /\ us[i].left = << >> THEN 1 ELSE 0
    <2>1. Len(v.answers) = IF v.id # 0 /\ v.left = << >> THEN 1 ELSE 0
      OBVIOUS
    <2>2. \A i \in DOMAIN vs :
              Len(vs[i].answers) = IF vs[i].id # 0 /\ vs[i].left = << >> THEN 1 ELSE 0
      BY DEF AnswerInv
    <2>3. \A i \in DOMAIN us : us[i] = v \/ \E j \in DOMAIN vs : us[i] = vs[j]
      BY <1>1
    <2> QED BY <2>1, <2>2, <2>3
  <1>6. \A i \in DOMAIN us : us[i].several => us[i].id # 0
    BY <1>1 DEF AnswerInv
  <1>7. CASE ms = s
    <2>1. \A t \in DOMAIN s : s[t].type = "Completion" /\ s[t].id < 0 =>
              \E i \in DOMAIN us : us[i].id = s[t].id /\ us[i].left = << >>
      <3> SUFFICES ASSUME NEW t \in DOMAIN s, s[t].type = "Completion", s[t].id < 0
                   PROVE  \E i \in DOMAIN us : us[i].id = s[t].id /\ us[i].left = << >>
        OBVIOUS
      <3>1. PICK i \in DOMAIN vs : vs[i].id = s[t].id /\ vs[i].left = << >>
        BY DEF AnswerInv
      <3>2. i \in DOMAIN us /\ us[i] = vs[i]
        BY <1>1
      <3> QED BY <3>1, <3>2
    <2> QED BY <1>2, <1>4, <1>5, <1>6, <1>7, <2>1 DEF AnswerInv, us
  <1>8. CASE v.id # 0 /\ v.left = << >> /\ ms = Append(s, m)
    <2>1. m.type = "Completion" /\ m.id = v.id
      BY DEF Message
    <2> HIDE DEF m
    <2>2. /\ DOMAIN ms = 1..Len(s) + 1 /\ DOMAIN s = 1..Len(s) /\ Len(s) \in Nat
          /\ ms[Len(s) + 1] = m /\ \A t \in DOMAIN s : ms[t] = s[t]
      BY <1>8
    <2>3. ASSUME NEW t \in DOMAIN ms, ms[t].type = "Completion", ms[t].id < 0
          PROVE  \E i \in DOMAIN us : us[i].id = ms[t].id /\ us[i].left = << >>
      <3>1. CASE t \in DOMAIN s
        <4>1. PICK i \in DOMAIN vs : vs[i].id = s[t].id /\ vs[i].left = << >>
          BY <2>2, <2>3, <3>1 DEF AnswerInv
        <4>2. i \in DOMAIN us /\ us[i] = vs[i]
          BY <1>1
        <4> QED BY <2>2, <3>1, <4>1, <4>2
      <3>2. CASE t = Len(s) + 1
        <4>1. Len(vs) + 1 \in DOMAIN us
          BY <1>1
        <4> QED BY <1>1, <1>8, <2>1, <2>2, <3>2, <4>1
      <3> QED BY <2>2, <3>1, <3>2
    <2>4. \A t \in DOMAIN s : s[t].type = "Completion" /\ s[t].id < 0 => s[t] # m
      <3> SUFFICES ASSUME NEW t \in DOMAIN s, s[t].type = "Completion", s[t].id < 0
                   PROVE  s[t] # m
        OBVIOUS
      <3>1. PICK i \in DOMAIN vs : vs[i].id = s[t].id
        BY DEF AnswerInv
      <3> QED BY <1>3, <1>8, <2>1, <3>1
    <2>5. m.id < 0
      BY <1>8, <2>1
    <2>6. \A t, u \in DOMAIN ms : t # u /\ ms[t].type = "Completion" /\ ms[t].id < 0 => ms[t] # ms[u]
      BY <2>1, <2>2, <2>4, <2>5 DEF AnswerInv
    <2> QED BY <1>2, <1>4, <1>5, <1>6, <2>3, <2>6 DEF AnswerInv, us
  <1> QED BY <1>7, <1>8

LEMMA DispatchKeepsAnswers ==
    ASSUME HubTypeOK, ServerIds, NEW w, InboxOK(w), NEW seen \in Nat, NEW p \in 2..Len(served),
           seen < p, AnswerInv(sent \o w.out, w.invocations, seen)
    PROVE  LET x == DispatchMessage(w, served[p]) IN AnswerInv(sent \o x.out, x.invocations, p)
  <1> DEFINE m == served[p]
             x == DispatchMessage(w, m)
  <1>1. /\ m \in ServerMessages /\ (m.type = "Invocation" => m.id <= 0 /\ m.id \in {0, -p})
        /\ p \in Nat
    BY ServedTokens DEF HubTypeOK, ServerIds
  <1>2. /\ IsSequence(w.invocations) /\ \A i \in DOMAIN w.invocations : w.invocations[i].id \in Int
        /\ sent \in Seq(ClientMessages) /\ w.out \in Seq(ClientMessages)
    BY DEF InboxOK, IsInvocation, HubTypeOK
  <1>3. CASE m.type = "Invocation"
    <2> DEFINE v == Started(m)
               a == Message("Completion", m.id, << >>)
    <2> HIDE DEF m
    <2>1. x = InvokeClientMethod(w, m)
      BY <1>3, Switch
    <2> HIDE DEF x
    <2>2. /\ x.invocations = Append(w.invocations, v)
          /\ methods = << >> /\ m.id # 0 => x.out = Append(w.out, a)
          /\ ~(methods = << >> /\ m.id # 0) => x.out = w.out
      BY <1>1, <1>3, <2>1, InvokeResult
    <2>3. /\ v.id = m.id /\ v.left = methods /\ v.several = FALSE
          /\ v.id # 0 /\ v.left = << >> => Len(v.answers) = 1
          /\ ~(v.id # 0 /\ v.left = << >>) => Len(v.answers) = 0
      BY <1>1, <1>3, StartedTyped
    <2>4. a \in ClientMessages /\ a = Message("Completion", v.id, << >>)
      <3>1. m.id \in Int /\ << >> \in Seq(Nat)
        BY <1>1 DEF ServerMessages
      <3> QED BY <2>3, <3>1, ClientMessageTyped
    <2> HIDE DEF v, a
    <2>5. sent \o w.out \in Seq(ClientMessages) /\ sent \o Append(w.out, a) = Append(sent \o w.out, a)
      BY <1>2, <2>4
    <2>6. \/ sent \o x.out = sent \o w.out
          \/ v.id # 0 /\ v.left = << >> /\ sent \o x.out = Append(sent \o w.out, Message("Completion", v.id, << >>))
      BY <2>2, <2>3, <2>4, <2>5
    <2>7. v.id \in {0, -p}
      BY <1>1, <1>3, <2>3
    <2> DEFINE s == sent \o w.out
               ms == sent \o x.out
               vs == w.invocations
    <2>8. /\ s \in Seq(ClientMessages) /\ AnswerInv(s, vs, seen) /\ IsSequence(vs)
          /\ \A i \in DOMAIN vs : vs[i].id \in Int
      BY <1>2, <2>5
    <2>9. \/ ms = s
          \/ v.id # 0 /\ v.left = << >> /\ ms = Append(s, Message("Completion", v.id, << >>))
      BY <2>6
    <2> HIDE DEF s, ms, vs
    <2>10. AnswerInv(ms, Append(vs, v), p)
      <3>1. JustStarted(v, p, s, ms)
        BY <2>3, <2>7, <2>9 DEF JustStarted
      <3> QED BY <1>1, <2>8, <3>1, AnswerInvStarts
    <2> QED BY <2>2, <2>10 DEF ms, vs, x, m
  <1>4. CASE x.out = w.out /\ x.invocations = w.invocations
    <2> HIDE DEF x
    <2>1. AnswerInv(sent \o w.out, w.invocations, p)
      BY <1>1, <1>2, AnswerInvGrows
    <2> QED BY <1>4, <2>1 DEF x
  <1>5. m.type = "Invocation" \/ (x.out = w.out /\ x.invocations = w.invocations)
    <2> HIDE DEF m
    <2>1. CASE m.type \in {"StreamItem", "Completion"} /\ m.id \in w.callbacks
      <3>1. x = CallBack(w, m)
        BY <2>1, Switch
      <3> HIDE DEF x
      <3> QED BY <2>1, <3>1, CallBackResult
    <2>2. CASE x = w
      BY <2>2
    <2> QED BY <2>1, <2>2, Switch
  <1> QED BY <1>3, <1>4, <1>5

-----------------------------------------------------------------------------
(* A received text *)

\* What the inbox is after a text, message by message
LEMMA ReceiveDispatches ==
    ASSUME HubTypeOK, NEW n \in 1..Len(served) - delivered
    PROVE  LET w == DispatchAll(MessagesOf(n))
           IN  /\ InboxOK(w)
               /\ CallbackInv => Registered(w.callbacks, w.calls)
               /\ ServerIds /\ AnswerInv(sent, invocations, delivered) =>
                      AnswerInv(sent \o w.out, w.invocations, delivered + n)
  <1> DEFINE ms == MessagesOf(n)
  <1>1. Len(ms) \in Nat /\ DOMAIN ms = 1..Len(ms)
    BY MessagesServed
  <1>2. PICK p : /\ \A i \in DOMAIN ms : /\ p[i] \in 2..Len(served) /\ p[i] \in delivered + 1..delivered + n
                                         /\ ms[i] = served[p[i]]
                 /\ \A i, j \in DOMAIN ms : i < j => p[i] < p[j]
    BY MessagesServed
  <1> HIDE DEF ms
  <1>3. PICK f : /\ f[0] = Inbox
                 /\ \A i \in 1..Len(ms) : f[i] = DispatchMessage(f[i - 1], ms[i])
                 /\ DispatchAll(ms) = f[Len(ms)]
    BY <1>1, DispatchAllUnfolds
  <1>4. delivered \in Nat /\ Len(served) \in Nat /\ n \in Nat
    BY ServedTokens
  <1> DEFINE seen(i) == IF i = 0 THEN delivered ELSE p[i]
             A == ServerIds /\ AnswerInv(sent, invocations, delivered)
             Done(i) == /\ InboxOK(f[i])
                        /\ CallbackInv => Registered(f[i].callbacks, f[i].calls)
                        /\ A => AnswerInv(sent \o f[i].out, f[i].invocations, seen(i))
             T == {i \in Nat : i <= Len(ms) => Done(i)}
  <1>5. Done(0)
    <2>1. InboxOK(Inbox)
      BY InboxTyped
    <2>2. /\ Inbox.callbacks = callbacks /\ Inbox.calls = calls /\ Inbox.invocations = invocations
          /\ Inbox.out = << >>
      BY DEF Inbox
    <2>3. sent \o << >> = sent
      BY DEF HubTypeOK
    <2> QED BY <1>3, <2>1, <2>2, <2>3 DEF CallbackInv
  <1>6. \A i \in 0..Len(ms) : seen(i) \in Nat /\ delivered <= seen(i) /\ seen(i) <= delivered + n
    BY <1>1, <1>2, <1>4
  <1>7. \A i \in 1..Len(ms) : seen(i - 1) < p[i]
    <2> SUFFICES ASSUME NEW i \in 1..Len(ms) PROVE seen(i - 1) < p[i]
      OBVIOUS
    <2>1. CASE i = 1
      <3>1. seen(i - 1) = delivered
        BY <2>1
      <3>2. p[i] \in delivered + 1..delivered + n
        BY <1>1, <1>2
      <3> QED BY <1>4, <3>1, <3>2
    <2>2. CASE i # 1
      <3>1. i \in DOMAIN ms /\ i - 1 \in DOMAIN ms /\ i - 1 < i /\ i - 1 # 0
        BY <1>1, <2>2
      <3> QED BY <1>2, <3>1
    <2> QED BY <2>1, <2>2
  <1>8. ASSUME NEW i \in Nat, i + 1 <= Len(ms), Done(i) PROVE Done(i + 1)
    <2>1. i + 1 \in 1..Len(ms) /\ i + 1 \in DOMAIN ms /\ (i + 1) - 1 = i
      BY <1>1, <1>8
    <2>2. /\ p[i + 1] \in 2..Len(served) /\ f[i + 1] = DispatchMessage(f[i], served[p[i + 1]])
          /\ seen(i) < p[i + 1] /\ seen(i + 1) = p[i + 1] /\ seen(i) \in Nat
      BY <1>2, <1>3, <1>6, <1>7, <2>1
    <2> HIDE DEF seen
    <2>3. /\ served[p[i + 1]] \in ServerMessages
          /\ served[p[i + 1]].type = "Invocation" => served[p[i + 1]].id <= 0
      BY <2>2 DEF HubTypeOK
    <2>4. InboxOK(f[i + 1])
      BY <1>8, <2>2, <2>3, DispatchKeepsInbox
    <2>5. CallbackInv => Registered(f[i + 1].callbacks, f[i + 1].calls)
      BY <1>8, <2>2, DispatchKeepsRegistered
    <2>6. A => AnswerInv(sent \o f[i + 1].out, f[i + 1].invocations, seen(i + 1))
      BY <1>8, <2>2, DispatchKeepsAnswers
    <2> QED BY <2>4, <2>5, <2>6
  <1>9. Done(Len(ms))
    <2> HIDE DEF Done
    <2>1. T \in SUBSET Nat /\ 0 \in T
      BY <1>5
    <2>2. \A i \in T : i + 1 \in T
      BY <1>1, <1>8
    <2>3. T = Nat
      <3> HIDE DEF T
      <3> QED BY <2>1, <2>2, NatSetInduction
    <2> QED BY <1>1, <2>3
  <1> DEFINE w == DispatchAll(ms)
  <1>10. w = f[Len(ms)]
    BY <1>3
  <1>11. /\ InboxOK(w) /\ (CallbackInv => Registered(w.callbacks, w.calls))
         /\ A => AnswerInv(sent \o w.out, w.invocations, seen(Len(ms)))
    BY <1>9, <1>10
  <1> HIDE DEF w
  <1>12. ASSUME A PROVE AnswerInv(sent \o w.out, w.invocations, delivered + n)
    <2>1. /\ seen(Len(ms)) \in Nat /\ seen(Len(ms)) <= delivered + n /\ delivered + n \in Nat
      BY <1>1, <1>4, <1>6
    <2>2. \A i \in DOMAIN w.invocations : w.invocations[i].id \in Int
      BY <1>11 DEF InboxOK, IsInvocation
    <2> HIDE DEF seen
    <2> QED BY <1>11, <1>12, <2>1, <2>2, AnswerInvGrows
  <1> QED BY <1>11, <1>12 DEF w, ms

-----------------------------------------------------------------------------
(* HubInv is an invariant, and every step is one of QueueSpec or leaves the queue alone *)

\* A step that neither closes the connection nor moves what the server sent
LEMMA HubInvKept ==
    ASSUME HubInv, QueueMove, UNCHANGED <<page, open, served, delivered, received>>,
           nextId' \in Nat, callbacks' \subseteq Nat, calls' \in Seq(CallRecords),
           IsSequence(invocations'), \A i \in DOMAIN invocations' : IsInvocation(invocations'[i])
    PROVE  HubInv' /\ [QueueNext]_qvars
  <1>1. /\ QueueInv' /\ [QueueNext]_qvars /\ sent' \in Seq(ClientMessages) /\ executing' = executing
    BY QueueMoves
  <1> QED BY <1>1 DEF HubInv, HubTypeOK

\* ... and leaves the invocations alone
LEMMA HubInvOfCalls ==
    ASSUME HubInv, QueueMove, UnchangedButCalls, callbacks' \subseteq callbacks,
           calls' \in Seq(CallRecords)
    PROVE  HubInv' /\ [QueueNext]_qvars
  <1>1. /\ UNCHANGED <<page, open, served, delivered, received>> /\ nextId' \in Nat
        /\ callbacks' \subseteq Nat
        /\ IsSequence(invocations') /\ \A i \in DOMAIN invocations' : IsInvocation(invocations'[i])
    BY DEF UnchangedButCalls, HubInv, HubTypeOK
  <1> QED BY <1>1, HubInvKept

LEMMA HubInvContinuation ==
    ASSUME HubInv, NEW k \in DOMAIN calls,
           SendCaught(k) \/ SendSettles(k) \/ SendCancel(k) \/ ChainRuns(k) \/ Dispose(k)
    PROVE  HubInv' /\ [QueueNext]_qvars
  <1>1. HubTypeOK
    BY DEF HubInv
  <1>2. CASE SendCaught(k)
    <2>1. Changed(k) /\ QueueMove
      BY <1>1, <1>2, SendCaughtChanges
    <2> QED BY <1>2, <2>1, HubInvOfCalls DEF SendCaught, Changed
  <1>3. CASE SendSettles(k)
    <2>1. Changed(k) /\ QueueMove
      BY <1>1, <1>3, SendSettlesChanges
    <2> QED BY <1>3, <2>1, HubInvOfCalls DEF SendSettles, Changed
  <1>4. CASE SendCancel(k)
    <2>1. Changed(k) /\ QueueMove
      BY <1>1, <1>4, SendCancelChanges
    <2> QED BY <1>4, <2>1, HubInvOfCalls DEF SendCancel, Changed
  <1>5. CASE ChainRuns(k)
    <2>1. Changed(k) /\ QueueMove
      BY <1>1, <1>5, ChainRunsChanges
    <2>2. UNCHANGED callbacks /\ UnchangedButCalls
      BY <1>5 DEF ChainRuns
    <2> QED BY <2>1, <2>2, HubInvOfCalls DEF Changed
  <1>6. CASE Dispose(k)
    <2>1. Changed(k) /\ QueueMove
      BY <1>1, <1>6, DisposeChanges
    <2> QED BY <1>6, <2>1, HubInvOfCalls DEF Dispose, Changed
  <1> QED BY <1>2, <1>3, <1>4, <1>5, <1>6

LEMMA HubInvEmit ==
    ASSUME HubInv, NEW k \in DOMAIN calls, NEW stream \in calls[k].live,
           NEW type \in {"StreamItem", "Completion"}, Emit(k, stream, type)
    PROVE  HubInv' /\ [QueueNext]_qvars
  <1>1. Changed(k) /\ QueueMove
    BY EmitChanges DEF HubInv
  <1>2. UNCHANGED callbacks /\ UnchangedButCalls
    BY DEF Emit
  <1> QED BY <1>1, <1>2, HubInvOfCalls DEF Changed

LEMMA HubInvCall ==
    ASSUME HubInv, NEW call \in page.calls, Call(call.kind, call.args)
    PROVE  HubInv' /\ [QueueNext]_qvars
  <1>1. PICK c : NewCall(c)
    BY CallAdds DEF HubInv
  <1>2. QueueMove
    BY <1>1, NewCallMoves
  <1>3. nextId' \in Nat /\ callbacks' \subseteq Nat /\ calls' \in Seq(CallRecords)
    <2>1. /\ nextId \in Nat /\ callbacks \subseteq Nat /\ calls \in Seq(CallRecords)
      BY DEF HubInv, HubTypeOK
    <2>2. /\ nextId' \in Nat /\ calls' = Append(calls, c) /\ c \in CallRecords
          /\ callbacks' = callbacks \/ (nextId <= c.id /\ callbacks' = callbacks \cup {c.id})
      BY <1>1 DEF NewCall
    <2>3. c.id \in Int
      BY <2>2 DEF CallRecords
    <2>4. callbacks' \subseteq Nat
      <3>1. CASE callbacks' = callbacks
        BY <2>1, <3>1
      <3>2. CASE nextId <= c.id /\ callbacks' = callbacks \cup {c.id}
        <4>1. c.id \in Nat
          BY <2>1, <2>3, <3>2
        <4> QED BY <2>1, <3>2, <4>1
      <3> QED BY <2>2, <3>1, <3>2
    <2>5. calls' \in Seq(CallRecords)
      BY <2>1, <2>2
    <2> QED BY <2>2, <2>4, <2>5
  <1>4. UNCHANGED <<page, open, served, delivered, received, invocations>>
    BY DEF Call
  <1> QED BY <1>2, <1>3, <1>4, HubInvKept DEF HubInv, HubTypeOK

\* on() and off() change the list of handlers only.
LEMMA MethodsChange ==
    ASSUME (\E h : On(h)) \/ (\E r : Off(r))
    PROVE  UNCHANGED <<qvars, page, open, nextId, callbacks, calls, invocations, received, served,
                       delivered, dispatched>>
  BY Zenon DEF On, Off

LEMMA HubInvMethods ==
    ASSUME HubInv, UNCHANGED <<qvars, page, open, nextId, callbacks, calls, invocations, received,
                               served, delivered, dispatched>>
    PROVE  HubInv' /\ [QueueNext]_qvars
  <1>1. QueueMove
    BY DEF QueueMove
  <1> QED BY <1>1, HubInvKept DEF HubInv, HubTypeOK

LEMMA HubInvHandler ==
    ASSUME HubInv, NEW i \in DOMAIN invocations, NEW result, HandlerReturns(i, result)
    PROVE  HubInv' /\ [QueueNext]_qvars
  <1>1. HubTypeOK /\ open \in BOOLEAN
    BY DEF HubInv, HubTypeOK
  <1>2. PICK u, answers :
            /\ Returned(invocations[i], u, answers)
            /\ Became(i, u)
            /\ IF open THEN SendAll([a \in DOMAIN answers |-> Message("Completion", u.id, << >>)])
                       ELSE UNCHANGED qvars
    BY <1>1, HandlerReturned
  <1>3. /\ IsSequence(invocations') /\ DOMAIN invocations' = DOMAIN invocations
        /\ invocations'[i] = u /\ \A j \in DOMAIN invocations : j # i => invocations'[j] = invocations[j]
        /\ [a \in DOMAIN answers |-> Message("Completion", u.id, << >>)] \in Seq(ClientMessages)
    <2>1. Returned(invocations[i], u, answers) /\ Became(i, u)
      BY <1>2
    <2> QED BY <1>1, <2>1, ReturnedTyped, Zenon
  <1>4. QueueMove
    BY <1>1, <1>2, <1>3 DEF QueueMove
  <1>5. \A j \in DOMAIN invocations' : IsInvocation(invocations'[j])
    <2>1. IsInvocation(u) /\ \A j \in DOMAIN invocations : IsInvocation(invocations[j])
      BY <1>1, <1>2 DEF Returned, HubTypeOK
    <2> QED BY <1>3, <2>1
  <1>6. UNCHANGED <<page, open, served, delivered, received, nextId, callbacks, calls>>
    BY DEF HandlerReturns
  <1> QED BY <1>1, <1>3, <1>4, <1>5, <1>6, HubInvKept DEF HubTypeOK

\* What a text of the transport does
LEMMA Receives ==
    ASSUME HubTypeOK, NEW n \in 1..MaxChunk, Receive(n)
    PROVE  LET w == DispatchAll(MessagesOf(n))
           IN  /\ open /\ n \in 1..Len(served) - delivered
               /\ received' = TRUE /\ delivered' = delivered + n
               /\ dispatched' = dispatched \o MessagesOf(n)
               /\ callbacks' = w.callbacks /\ calls' = w.calls /\ invocations' = w.invocations
               /\ SendAll(w.out)
               /\ UNCHANGED <<page, open, nextId, methods, served>>
  BY Zenon DEF Receive, MessagesOf, RestOf, TextOf

LEMMA HubInvReceive ==
    ASSUME HubInv, NEW n \in 1..MaxChunk, Receive(n)
    PROVE  HubInv' /\ [QueueNext]_qvars
  <1> DEFINE w == DispatchAll(MessagesOf(n))
  <1>1. HubTypeOK
    BY DEF HubInv
  <1>2. /\ open /\ n \in 1..Len(served) - delivered
        /\ received' = TRUE /\ delivered' = delivered + n
        /\ callbacks' = w.callbacks /\ calls' = w.calls /\ invocations' = w.invocations
        /\ SendAll(w.out) /\ UNCHANGED <<page, open, nextId, methods, served>>
    BY <1>1, Receives
  <1>3. InboxOK(w)
    BY <1>1, <1>2, ReceiveDispatches
  <1> HIDE DEF w
  <1>4. w.out \in Seq(ClientMessages) /\ QueueMove
    BY <1>2, <1>3 DEF InboxOK, QueueMove
  <1>5. /\ QueueInv' /\ [QueueNext]_qvars /\ sent' \in Seq(ClientMessages) /\ executing' = executing
    BY <1>4, QueueMoves
  <1>6. delivered' \in 0..Len(served) /\ delivered' > 0
    BY <1>1, <1>2, ServedTokens
  <1> QED BY <1>1, <1>2, <1>3, <1>5, <1>6 DEF HubInv, HubTypeOK, InboxOK

LEMMA HubInvReply ==
    ASSUME HubInv, NEW m \in ServerMessages, m.type = "Invocation" => m.id <= 0, Reply(m)
    PROVE  HubInv' /\ [QueueNext]_qvars
  <1>1. /\ UNCHANGED <<page, open, nextId, callbacks, calls, invocations, received, delivered>>
        /\ served' = Append(served, m) /\ QueueMove
    BY DEF Reply, QueueMove
  <1>2. /\ QueueInv' /\ [QueueNext]_qvars /\ sent' \in Seq(ClientMessages) /\ executing' = executing
    BY <1>1, QueueMoves
  <1>3. IsSequence(served) /\ Len(served) \in Nat /\ Len(served) >= 1
    BY ServedTokens DEF HubInv, HubTypeOK
  <1>4. /\ IsSequence(served') /\ Len(served') = Len(served) + 1
        /\ served'[Len(served) + 1] = m /\ \A i \in 1..Len(served) : served'[i] = served[i]
    <2>1. /\ IsSequence(Append(served, m)) /\ DOMAIN Append(served, m) = 1..Len(served) + 1
          /\ Append(served, m)[Len(served) + 1] = m
          /\ \A i \in 1..Len(served) : Append(served, m)[i] = served[i]
      BY <1>3, AppendedSequence
    <2>2. Len(Append(served, m)) = Len(served) + 1
      BY <1>3 DEF IsSequence
    <2> QED BY <1>1, <2>1, <2>2
  <1>5. served' # << >> /\ served'[1] = Handshake
    BY <1>3, <1>4 DEF HubInv, HubTypeOK
  <1>6. \A i \in 2..Len(served') : /\ served'[i] \in ServerMessages
                                   /\ served'[i].type = "Invocation" => served'[i].id <= 0
    <2> SUFFICES ASSUME NEW i \in 2..Len(served')
                 PROVE  /\ served'[i] \in ServerMessages
                        /\ served'[i].type = "Invocation" => served'[i].id <= 0
      OBVIOUS
    <2>1. CASE i = Len(served) + 1
      BY <1>4, <2>1
    <2>2. CASE i \in 2..Len(served)
      BY <1>4, <2>2 DEF HubInv, HubTypeOK
    <2> QED BY <1>3, <1>4, <2>1, <2>2
  <1>7. delivered \in 0..Len(served')
    BY <1>3, <1>4 DEF HubInv, HubTypeOK
  <1> QED BY <1>1, <1>2, <1>4, <1>5, <1>6, <1>7 DEF HubInv, HubTypeOK

\* What the server sends
LEMMA ServerReplies ==
    ASSUME HubTypeOK, ServerAnswers \/ ServerInvokes \/ ServerSendsOther
    PROVE  \E m \in ServerMessages :
               /\ Reply(m)
               /\ m.type = "Invocation" => m.id <= 0 /\ m.id \in {0, -1 - Len(served)}
               /\ m.type = "StreamItem" =>
                      \E k \in DOMAIN calls : calls[k].kind = "stream" /\ calls[k].id = m.id
  <1>1. Len(served) \in Nat
    BY ServedTokens
  <1>2. \A type \in {"Invocation", "StreamItem", "Completion", "Ping", "Later"}, id \in Int :
            /\ Message(type, id, << >>) \in ServerMessages
            /\ Message(type, id, << >>).type = type /\ Message(type, id, << >>).id = id
    BY DEF Message, ServerMessages
  <1>3. CASE ServerAnswers
    <2>1. PICK k \in DOMAIN calls :
                   \/ Reply(Message("Completion", calls[k].id, << >>))
                   \/ calls[k].kind = "stream" /\ Reply(Message("StreamItem", calls[k].id, << >>))
      BY <1>3 DEF ServerAnswers
    <2>2. calls[k].id \in Int
      BY CallTyped DEF CallRecords
    <2>3. CASE Reply(Message("Completion", calls[k].id, << >>))
      BY <1>2, <2>2, <2>3
    <2>4. CASE calls[k].kind = "stream" /\ Reply(Message("StreamItem", calls[k].id, << >>))
      BY <1>2, <2>2, <2>4
    <2> QED BY <2>1, <2>3, <2>4
  <1>4. CASE ServerInvokes
    <2>1. PICK id \in {0, -1 - Len(served)} : Reply(Message("Invocation", id, << >>))
      BY <1>4 DEF ServerInvokes
    <2>2. id \in Int /\ id <= 0
      BY <1>1
    <2> QED BY <1>2, <2>1, <2>2
  <1>5. CASE ServerSendsOther
    BY <1>2, <1>5 DEF ServerSendsOther
  <1> QED BY <1>3, <1>4, <1>5

LEMMA CloseChanges ==
    ASSUME HubTypeOK, Close
    PROVE  /\ calls' \in Seq(CallRecords) /\ DOMAIN calls' = DOMAIN calls /\ callbacks' = {}
           /\ \A k \in DOMAIN calls :
                  /\ calls'[k].kind = calls[k].kind /\ calls'[k].id = calls[k].id
                  /\ calls'[k].uploads = calls[k].uploads /\ calls'[k].observed = calls[k].observed
                  /\ calls'[k].live = calls[k].live /\ calls'[k].chain = calls[k].chain
                  /\ calls[k].id \in callbacks => calls'[k].outcome # "pending"
                  /\ calls[k].id \notin callbacks => calls'[k] = calls[k]
  <1> DEFINE new(c) == IF c.id \in callbacks THEN End(c, "rejected") ELSE c
  <1>1. /\ callbacks' = {} /\ calls' = [k \in DOMAIN calls |-> new(calls[k])]
        /\ calls \in Seq(CallRecords)
    BY DEF Close, CancelCallbacks, HubTypeOK
  <1>2. ASSUME NEW c \in CallRecords
        PROVE  /\ new(c) \in CallRecords /\ new(c).kind = c.kind /\ new(c).id = c.id
               /\ new(c).uploads = c.uploads /\ new(c).observed = c.observed
               /\ new(c).live = c.live /\ new(c).chain = c.chain
               /\ c.id \in callbacks => new(c).outcome # "pending"
               /\ c.id \notin callbacks => new(c) = c
    <2>1. CASE c.id \in callbacks
      <3> DEFINE outcome == IF c.outcome = "pending" THEN "rejected" ELSE c.outcome
      <3>1. new(c) = [c EXCEPT !.outcome = outcome]
        BY <2>1 DEF End
      <3>2. outcome \in {"answered", "resolved", "rejected"}
        BY DEF CallRecords
      <3> HIDE DEF outcome, new
      <3> QED BY <2>1, <3>1, <3>2 DEF CallRecords
    <2>2. CASE c.id \notin callbacks
      BY <2>2
    <2> QED BY <2>1, <2>2
  <1> HIDE DEF new
  <1>3. \A k \in DOMAIN calls : calls[k] \in CallRecords /\ calls'[k] = new(calls[k])
    BY <1>1
  <1>4. calls' \in Seq(CallRecords) /\ DOMAIN calls' = DOMAIN calls
    BY <1>1, <1>2
  <1> QED BY <1>1, <1>2, <1>3, <1>4

LEMMA HubInvClose == ASSUME HubInv, Close PROVE HubInv' /\ [QueueNext]_qvars
  <1>1. HubTypeOK /\ QueueInv
    BY DEF HubInv
  <1>2. calls' \in Seq(CallRecords) /\ callbacks' = {}
    BY <1>1, CloseChanges
  <1>3. /\ open' = FALSE /\ StopQueue
        /\ UNCHANGED <<page, nextId, methods, invocations, received, served, delivered, dispatched>>
    BY DEF Close
  <1>4. QueueInv'
    BY <1>1, <1>3, StopQueueKeeps
  <1>5. executing' = FALSE /\ sent' = sent
    BY <1>3 DEF StopQueue
  <1>6. QueueNext
    BY <1>3 DEF QueueNext
  <1> QED BY <1>1, <1>2, <1>3, <1>4, <1>5, <1>6 DEF HubInv, HubTypeOK

LEMMA HubInvQueue == ASSUME HubInv, QueueStep PROVE HubInv' /\ [QueueNext]_qvars /\ UNCHANGED sent
  <1>1. QueueInv'
    BY LoopSendsKeeps, LoopRefusedKeeps, LoopEndsKeeps, TransportSentKeeps, TransportFailedKeeps,
       ArriveKeeps DEF HubInv, QueueStep, LoopStep
  <1>2. UNCHANGED <<sent, executing>> /\ UNCHANGED hvars
    BY DEF QueueStep, LoopStep, LoopSends, LoopRefused, LoopEnds, TransportSent, TransportFailed,
           TransportEnds, Arrive
  <1>3. QueueNext
    BY DEF QueueStep, LoopStep, QueueNext
  <1> QED BY <1>1, <1>2, <1>3 DEF HubInv, HubTypeOK, hvars

LEMMA HubInvInitially == Init => HubInv
  <1> SUFFICES ASSUME Init PROVE HubInv
    OBVIOUS
  <1>1. QueueInv
    BY QueueInitially DEF Init
  <1>2. << >> \in Seq(ClientMessages) /\ << >> \in Seq(CallRecords) /\ DOMAIN << >> = {}
    OBVIOUS
  <1>3. IsSequence(<< >>)
    BY DEF IsSequence, Tickets
  <1>4. /\ IsSequence(<<Handshake>>) /\ <<Handshake>> # << >> /\ <<Handshake>>[1] = Handshake
        /\ Len(<<Handshake>>) = 1
    <2>1. <<Handshake>> \in Seq({Handshake}) /\ Tickets(<<Handshake>>) = {Handshake}
      BY DEF Tickets
    <2> QED BY <2>1 DEF IsSequence
  <1>5. /\ page \in Pages /\ open = TRUE /\ executing = TRUE /\ nextId = 0 /\ callbacks = {}
        /\ calls = << >> /\ sent = << >> /\ invocations = << >> /\ served = <<Handshake>>
        /\ delivered = 0 /\ received = FALSE
    BY DEF Init, QueueInit
  <1> HIDE DEF Handshake
  <1>6. 0 \in 0..Len(served) /\ \A i \in 2..Len(served) : FALSE
    BY <1>4, <1>5
  <1>7. IsSequence(served) /\ served # << >> /\ served[1] = Handshake
    BY <1>4, <1>5
  <1>8. IsSequence(invocations) /\ DOMAIN invocations = {} /\ calls \in Seq(CallRecords)
        /\ sent \in Seq(ClientMessages)
    BY <1>2, <1>3, <1>5
  <1>9. /\ open \in BOOLEAN /\ open = executing /\ nextId \in Nat /\ callbacks \subseteq Nat
        /\ delivered \in 0..Len(served) /\ received \in BOOLEAN /\ (received <=> delivered > 0)
    <2>1. nextId \in Nat /\ delivered \in 0..Len(served) /\ ~(delivered > 0)
      BY <1>5, <1>6
    <2>2. open \in BOOLEAN /\ open = executing /\ received \in BOOLEAN /\ ~received /\ callbacks \subseteq Nat
      BY <1>5, Zenon
    <2> QED BY <2>1, <2>2, Zenon
  <1>10. /\ \A i \in DOMAIN invocations : IsInvocation(invocations[i])
         /\ \A i \in 2..Len(served) : /\ served[i] \in ServerMessages
                                      /\ served[i].type = "Invocation" => served[i].id <= 0
    BY <1>6, <1>8
  <1> QED BY <1>1, <1>5, <1>7, <1>8, <1>9, <1>10, Zenon DEF HubInv, HubTypeOK

\* Every step keeps HubInv and is a step of QueueSpec, or leaves the queue alone.
LEMMA HubInvStep == HubInv /\ [Next]_vars => HubInv' /\ [QueueNext]_qvars
  <1> SUFFICES ASSUME HubInv, [Next]_vars PROVE HubInv' /\ [QueueNext]_qvars
    OBVIOUS
  <1>1. CASE QueueStep
    BY <1>1, HubInvQueue
  <1>2. CASE Continuation
    BY <1>2, HubInvContinuation DEF Continuation
  <1>3. CASE Page
    <2>1. CASE \E call \in page.calls : Call(call.kind, call.args)
      BY <2>1, HubInvCall
    <2>2. CASE \E k \in DOMAIN calls : Dispose(k)
      BY <2>2, HubInvContinuation
    <2>3. CASE \E k \in DOMAIN calls : \E s \in calls[k].live, type \in {"StreamItem", "Completion"} :
                   Emit(k, s, type)
      BY <2>3, HubInvEmit
    <2>4. CASE (\E h : On(h)) \/ (\E r : Off(r))
      BY <2>4, MethodsChange, HubInvMethods
    <2> QED BY <1>3, <2>1, <2>2, <2>3, <2>4, Zenon DEF Page
  <1>4. CASE HandlerRuns
    BY <1>4, HubInvHandler DEF HandlerRuns
  <1>5. CASE \E n \in 1..MaxChunk : Receive(n)
    BY <1>5, HubInvReceive
  <1>6. CASE Close
    BY <1>6, HubInvClose
  <1>7. CASE ServerAnswers \/ ServerInvokes \/ ServerSendsOther
    <2>1. PICK m \in ServerMessages : Reply(m) /\ (m.type = "Invocation" => m.id <= 0)
      BY <1>7, ServerReplies DEF HubInv
    <2> QED BY <2>1, HubInvReply
  <1>8. CASE UNCHANGED vars
    <2>1. UNCHANGED <<qvars, page, open, nextId, callbacks, calls, invocations, received, served,
                      delivered, dispatched>>
      BY <1>8 DEF vars, hvars
    <2> QED BY <2>1, HubInvMethods
  <1> QED BY <1>1, <1>2, <1>3, <1>4, <1>5, <1>6, <1>7, <1>8 DEF Next

LEMMA HubInvHolds == Spec => []HubInv
  BY HubInvInitially, HubInvStep, PTL DEF Spec

\* HubConnection and HttpConnection: whatever calls, continuations, handlers and received
\* messages do, the queue of the connection is only used as TransportSendQueue allows, and not
\* after the close.
THEOREM SendQueueImplemented == Spec => ImplementsSendQueue
  <1>1. Init => QueueInit
    BY DEF Init
  <1> QED BY <1>1, HubInvHolds, HubInvStep, PTL DEF Spec, ImplementsSendQueue, QueueSpec

\* The calls of send() of a hub connection have the order, the outcomes and the promises that
\* TransportSendQueue gives.
THEOREM HubSendsHold == Spec => [](SentInOrder /\ OutcomeIsTrue /\ PendingIsHeld)
  <1>1. HubInv => SentInOrder /\ OutcomeIsTrue /\ PendingIsHeld
    BY InOrderIsSentInOrder DEF HubInv, QueueInv
  <1> QED BY <1>1, HubInvHolds, PTL

-----------------------------------------------------------------------------
(* CallbackPerCall *)

\* The calls keep their kinds and ids.
SameCalls ==
    /\ DOMAIN calls' = DOMAIN calls
    /\ \A k \in DOMAIN calls : calls'[k].kind = calls[k].kind /\ calls'[k].id = calls[k].id

LEMMA IdsKept ==
    ASSUME CallbackInv, SameCalls, UNCHANGED <<nextId, served>>
    PROVE  IdsDrawn(calls)' /\ ItemsOfStreams'
  BY DEF CallbackInv, SameCalls, IdsDrawn, ItemsOfStreams

LEMMA ChangedIsSame == ASSUME NEW k \in DOMAIN calls, Changed(k) PROVE SameCalls
  BY DEF Changed, SameCalls

\* A step that leaves the other calls and their callbacks alone
LEMMA OneRegistered ==
    ASSUME CallbackInv, NEW k \in DOMAIN calls, Changed(k), UNCHANGED <<nextId, served>>,
           callbacks' = callbacks \/ (callbacks' = callbacks \ {calls[k].id} /\ calls[k].kind # "send"),
           calls[k].id \in callbacks' <=> Awaited(calls'[k]) /\ calls'[k].outcome = "pending"
    PROVE  CallbackInv'
  <1>1. IdsDrawn(calls)' /\ ItemsOfStreams'
    BY ChangedIsSame, IdsKept
  <1>2. ASSUME NEW j \in DOMAIN calls
        PROVE  calls'[j].id \in callbacks' <=> Awaited(calls'[j]) /\ calls'[j].outcome = "pending"
    <2>1. CASE j = k
      BY <2>1 DEF Changed
    <2>2. CASE j # k
      <3>1. calls'[j] = calls[j]
        BY <2>2 DEF Changed
      <3>2. calls[k].kind # "send" => calls[j].id # calls[k].id
        BY <2>2 DEF CallbackInv, IdsDrawn
      <3>3. calls[j].id \in callbacks' <=> calls[j].id \in callbacks
        BY <3>2
      <3> QED BY <3>1, <3>3 DEF CallbackInv, Registered
    <2> QED BY <2>1, <2>2
  <1>3. DOMAIN calls' = DOMAIN calls
    BY DEF Changed
  <1>4. Registered(callbacks, calls)'
    BY <1>2, <1>3 DEF Registered
  <1> QED BY <1>1, <1>4 DEF CallbackInv

LEMMA CallbackInvContinuation ==
    ASSUME HubTypeOK, CallbackInv, NEW k \in DOMAIN calls,
           SendCaught(k) \/ SendSettles(k) \/ SendCancel(k) \/ ChainRuns(k) \/ Dispose(k)
    PROVE  CallbackInv'
  <1>1. /\ calls[k].kind = "send" <=> calls[k].id = -1
        /\ calls[k].id \in callbacks <=> Awaited(calls[k]) /\ calls[k].outcome = "pending"
    BY DEF CallbackInv, IdsDrawn, Registered
  <1>2. -1 \notin callbacks
    BY DEF HubTypeOK
  <1>3. CASE SendCaught(k)
    <2>1. /\ Changed(k) /\ calls'[k].outcome # "pending"
      BY <1>3, SendCaughtChanges
    <2> QED BY <1>3, <2>1, OneRegistered DEF SendCaught, UnchangedButCalls
  <1>4. CASE SendSettles(k)
    <2>1. Changed(k) /\ calls'[k].kind = calls[k].kind
      BY <1>4, SendSettlesChanges DEF Changed
    <2>2. calls[k].kind = "send" /\ callbacks' = callbacks /\ UNCHANGED <<nextId, served>>
      BY <1>4 DEF SendSettles, UnchangedButCalls
    <2>3. ~Awaited(calls'[k])
      BY <2>1, <2>2 DEF Awaited
    <2> QED BY <1>1, <1>2, <2>1, <2>2, <2>3, OneRegistered
  <1>5. CASE SendCancel(k) \/ ChainRuns(k)
    <2>1. /\ Changed(k) /\ calls'[k].kind = calls[k].kind
          /\ calls'[k].outcome = calls[k].outcome /\ calls'[k].observed = calls[k].observed
      BY <1>5, SendCancelChanges, ChainRunsChanges DEF Changed
    <2>2. callbacks' = callbacks /\ UNCHANGED <<nextId, served>>
      BY <1>5 DEF SendCancel, ChainRuns, UnchangedButCalls
    <2>3. Awaited(calls'[k]) <=> Awaited(calls[k])
      BY <2>1 DEF Awaited
    <2> QED BY <1>1, <2>1, <2>2, <2>3, OneRegistered
  <1>6. CASE Dispose(k)
    <2>1. /\ Changed(k) /\ calls'[k].kind = calls[k].kind /\ calls'[k].observed = FALSE
      BY <1>6, DisposeChanges DEF Changed
    <2>2. /\ calls[k].kind = "stream" /\ callbacks' = callbacks \ {calls[k].id}
          /\ UNCHANGED <<nextId, served>>
      BY <1>6 DEF Dispose, UnchangedButCalls
    <2>3. ~Awaited(calls'[k])
      BY <2>1, <2>2 DEF Awaited
    <2> QED BY <2>1, <2>2, <2>3, OneRegistered
  <1> QED BY <1>3, <1>4, <1>5, <1>6

LEMMA CallbackInvEmit ==
    ASSUME HubTypeOK, CallbackInv, NEW k \in DOMAIN calls, NEW stream \in calls[k].live,
           NEW type \in {"StreamItem", "Completion"}, Emit(k, stream, type)
    PROVE  CallbackInv'
  <1>1. calls[k].id \in callbacks <=> Awaited(calls[k]) /\ calls[k].outcome = "pending"
    BY DEF CallbackInv, Registered
  <1>2. /\ Changed(k) /\ calls'[k].kind = calls[k].kind
        /\ calls'[k].outcome = calls[k].outcome /\ calls'[k].observed = calls[k].observed
    BY EmitChanges DEF Changed
  <1>3. callbacks' = callbacks /\ UNCHANGED <<nextId, served>>
    BY DEF Emit, UnchangedButCalls
  <1>4. Awaited(calls'[k]) <=> Awaited(calls[k])
    BY <1>2 DEF Awaited
  <1> QED BY <1>1, <1>2, <1>3, <1>4, OneRegistered

\* Ids are drawn from a counter, so a new call takes nobody's callback.
LEMMA CallbackInvCall ==
    ASSUME HubTypeOK, CallbackInv, NEW c, NewCall(c), UNCHANGED served
    PROVE  CallbackInv'
  <1> DEFINE n == Len(calls) + 1
  <1>1. /\ calls \in Seq(CallRecords) /\ nextId \in Nat /\ callbacks \subseteq Nat
        /\ \A k \in DOMAIN calls : calls[k] \in CallRecords
    BY DEF HubTypeOK
  <1>2. /\ c \in CallRecords /\ calls' = Append(calls, c) /\ nextId' \in Nat /\ nextId <= nextId'
        /\ c.outcome = "pending" /\ c.observed = (c.kind = "stream")
        /\ \/ c.kind = "send" /\ c.id = -1 /\ callbacks' = callbacks
           \/ c.kind # "send" /\ nextId <= c.id /\ c.id < nextId' /\ callbacks' = callbacks \cup {c.id}
    BY DEF NewCall
  <1>3. /\ DOMAIN calls' = 1..n /\ DOMAIN calls = 1..n - 1 /\ n \in Nat /\ calls'[n] = c
        /\ \A k \in DOMAIN calls : k \in DOMAIN calls' /\ k # n /\ calls'[k] = calls[k]
        /\ \A k \in DOMAIN calls' : k = n \/ k \in DOMAIN calls
    BY <1>1, <1>2
  <1> HIDE DEF n
  <1>4. /\ c.id \in Int /\ c.kind \in {"invoke", "send", "stream"}
        /\ \A k \in DOMAIN calls : calls[k].id \in Int /\ calls[k].id < nextId /\ calls[k].id >= -1
        /\ \A k \in DOMAIN calls : calls[k].kind = "send" <=> calls[k].id = -1
    <2>1. c.id \in Int /\ c.kind \in {"invoke", "send", "stream"}
      BY <1>2 DEF CallRecords
    <2>2. \A k \in DOMAIN calls : /\ calls[k].id \in -1..nextId - 1
                                  /\ calls[k].kind = "send" <=> calls[k].id = -1
      BY DEF CallbackInv, IdsDrawn
    <2> QED BY <1>1, <2>1, <2>2
  <1>5. \A k \in DOMAIN calls : c.id # -1 => calls[k].id # c.id
    <2>1. c.id = -1 \/ nextId <= c.id
      BY <1>2
    <2> QED BY <1>1, <1>4, <2>1
  <1>6. IdsDrawn(calls)'
    <2>1. \A k \in DOMAIN calls' : /\ calls'[k].kind = "send" <=> calls'[k].id = -1
                                   /\ calls'[k].id \in -1..nextId' - 1
      <3>1. (c.kind = "send" <=> c.id = -1) /\ c.id \in -1..nextId' - 1
        BY <1>1, <1>2, <1>4
      <3>2. \A k \in DOMAIN calls : calls[k].id \in -1..nextId' - 1
        BY <1>1, <1>2, <1>4
      <3> QED BY <1>3, <1>4, <3>1, <3>2
    <2>2. \A k, l \in DOMAIN calls' : k # l /\ calls'[k].id # -1 => calls'[k].id # calls'[l].id
      <3>1. \A k, l \in DOMAIN calls : k # l /\ calls[k].id # -1 => calls[k].id # calls[l].id
        BY DEF CallbackInv, IdsDrawn
      <3> QED BY <1>3, <1>5, <3>1
    <2> QED BY <2>1, <2>2 DEF IdsDrawn
  <1>7. ItemsOfStreams'
    BY <1>3 DEF CallbackInv, ItemsOfStreams
  <1>8. Registered(callbacks, calls)'
    <2>1. c.id \in callbacks' <=> Awaited(c) /\ c.outcome = "pending"
      <3>1. CASE c.kind = "send"
        <4>1. c.id = -1 /\ callbacks' = callbacks
          BY <1>2, <3>1
        <4>2. ~Awaited(c) /\ -1 \notin callbacks
          BY <1>1, <3>1 DEF Awaited
        <4> QED BY <4>1, <4>2
      <3>2. CASE c.kind # "send"
        <4>1. c.id \in callbacks'
          BY <1>2, <3>2
        <4>2. Awaited(c)
          BY <1>2, <1>4, <3>2 DEF Awaited
        <4> QED BY <1>2, <4>1, <4>2
      <3> QED BY <3>1, <3>2
    <2>2. \A k \in DOMAIN calls : calls[k].id \in callbacks' <=> calls[k].id \in callbacks
      <3>1. CASE callbacks' = callbacks
        BY <3>1
      <3>2. CASE nextId <= c.id /\ callbacks' = callbacks \cup {c.id}
        <4>1. c.id # -1
          BY <1>1, <3>2
        <4> QED BY <1>5, <3>2, <4>1
      <3> QED BY <1>2, <3>1, <3>2
    <2>3. \A k \in DOMAIN calls : calls[k].id \in callbacks <=> Awaited(calls[k]) /\ calls[k].outcome = "pending"
      BY DEF CallbackInv, Registered
    <2>4. \A k \in DOMAIN calls' :
              calls'[k].id \in callbacks' <=> Awaited(calls'[k]) /\ calls'[k].outcome = "pending"
      BY <1>3, <2>1, <2>2, <2>3
    <2> QED BY <2>4 DEF Registered
  <1> QED BY <1>6, <1>7, <1>8 DEF CallbackInv

LEMMA CallbackInvClose == ASSUME HubTypeOK, CallbackInv, Close PROVE CallbackInv'
  <1>1. /\ DOMAIN calls' = DOMAIN calls /\ callbacks' = {}
        /\ \A k \in DOMAIN calls :
               /\ calls'[k].kind = calls[k].kind /\ calls'[k].id = calls[k].id
               /\ calls[k].id \in callbacks => calls'[k].outcome # "pending"
               /\ calls[k].id \notin callbacks => calls'[k] = calls[k]
    BY CloseChanges
  <1>2. UNCHANGED <<nextId, served>>
    BY DEF Close
  <1>3. IdsDrawn(calls)' /\ ItemsOfStreams'
    BY <1>1, <1>2, IdsKept DEF SameCalls
  <1>4. \A k \in DOMAIN calls : ~(Awaited(calls'[k]) /\ calls'[k].outcome = "pending")
    BY <1>1 DEF CallbackInv, Registered
  <1>5. Registered(callbacks, calls)'
    BY <1>1, <1>4 DEF Registered
  <1> QED BY <1>3, <1>5 DEF CallbackInv

LEMMA CallbackInvReceive ==
    ASSUME HubTypeOK, CallbackInv, NEW n \in 1..MaxChunk, Receive(n)
    PROVE  CallbackInv'
  <1> DEFINE w == DispatchAll(MessagesOf(n))
  <1>1. /\ n \in 1..Len(served) - delivered /\ callbacks' = w.callbacks /\ calls' = w.calls
        /\ UNCHANGED <<nextId, served>>
    BY Receives
  <1>2. InboxOK(w) /\ Registered(w.callbacks, w.calls)
    BY <1>1, ReceiveDispatches
  <1> HIDE DEF w
  <1>3. SameCalls
    BY <1>1, <1>2 DEF InboxOK, SameCalls
  <1>4. Registered(callbacks, calls)'
    BY <1>1, <1>2 DEF Registered
  <1> QED BY <1>1, <1>3, <1>4, IdsKept DEF CallbackInv

LEMMA CallbackInvReply ==
    ASSUME HubTypeOK, CallbackInv, NEW m, Reply(m),
           m.type = "StreamItem" => \E k \in DOMAIN calls : calls[k].kind = "stream" /\ calls[k].id = m.id
    PROVE  CallbackInv'
  <1>1. UNCHANGED <<nextId, callbacks, calls>> /\ served' = Append(served, m)
    BY DEF Reply
  <1>2. IsSequence(served)
    BY DEF HubTypeOK
  <1>3. /\ DOMAIN served = 1..Len(served) /\ DOMAIN served' = 1..Len(served) + 1 /\ Len(served) \in Nat
        /\ served'[Len(served) + 1] = m /\ \A i \in 1..Len(served) : served'[i] = served[i]
    BY <1>1, <1>2, AppendedSequence
  <1>4. \A i \in DOMAIN served' : i \in DOMAIN served \/ served'[i] = m
    BY <1>3
  <1>5. ItemsOfStreams'
    BY <1>1, <1>3, <1>4 DEF CallbackInv, ItemsOfStreams
  <1> QED BY <1>1, <1>5 DEF CallbackInv, IdsDrawn, Registered

LEMMA CallbackInvUnchanged ==
    ASSUME CallbackInv, UNCHANGED <<nextId, callbacks, calls, served>>
    PROVE  CallbackInv'
  BY DEF CallbackInv, IdsDrawn, ItemsOfStreams, Registered

LEMMA CallbackInvStep == HubInv /\ CallbackInv /\ [Next]_vars => CallbackInv'
  <1> SUFFICES ASSUME HubInv, CallbackInv, [Next]_vars PROVE CallbackInv'
    OBVIOUS
  <1> HubTypeOK
    BY DEF HubInv
  <1>1. CASE QueueStep
    BY <1>1, CallbackInvUnchanged DEF QueueStep, LoopStep, hvars
  <1>2. CASE Continuation
    BY <1>2, CallbackInvContinuation DEF Continuation
  <1>3. CASE Page
    <2>1. CASE \E call \in page.calls : Call(call.kind, call.args)
      <3>1. (\E c : NewCall(c)) /\ UNCHANGED served
        BY <2>1, CallAdds DEF Call
      <3> QED BY <3>1, CallbackInvCall
    <2>2. CASE \E k \in DOMAIN calls : Dispose(k)
      BY <2>2, CallbackInvContinuation
    <2>3. CASE \E k \in DOMAIN calls : \E s \in calls[k].live, type \in {"StreamItem", "Completion"} :
                   Emit(k, s, type)
      BY <2>3, CallbackInvEmit
    <2>4. CASE (\E h : On(h)) \/ (\E r : Off(r))
      BY <2>4, MethodsChange, CallbackInvUnchanged
    <2> QED BY <1>3, <2>1, <2>2, <2>3, <2>4, Zenon DEF Page
  <1>4. CASE HandlerRuns
    BY <1>4, CallbackInvUnchanged DEF HandlerRuns, HandlerReturns
  <1>5. CASE \E n \in 1..MaxChunk : Receive(n)
    BY <1>5, CallbackInvReceive
  <1>6. CASE Close
    BY <1>6, CallbackInvClose
  <1>7. CASE ServerAnswers \/ ServerInvokes \/ ServerSendsOther
    <2>1. PICK m \in ServerMessages :
              /\ Reply(m)
              /\ m.type = "StreamItem" =>
                     \E k \in DOMAIN calls : calls[k].kind = "stream" /\ calls[k].id = m.id
      BY <1>7, ServerReplies
    <2> QED BY <2>1, CallbackInvReply
  <1>8. CASE UNCHANGED vars
    BY <1>8, CallbackInvUnchanged DEF vars, hvars
  <1> QED BY <1>1, <1>2, <1>3, <1>4, <1>5, <1>6, <1>7, <1>8 DEF Next

\* HubConnection._callbacks: whatever the order of answers, failed sends, disposals and the close,
\* a call waits exactly as long as its callback is registered.
THEOREM CallbackPerCallHolds == Spec => []CallbackPerCall
  <1>1. Init => CallbackInv
    BY DEF Init, CallbackInv, IdsDrawn, ItemsOfStreams, Registered, Handshake
  <1>2. CallbackInv => CallbackPerCall
    BY DEF CallbackInv, Registered, CallbackPerCall
  <1> QED BY <1>1, <1>2, HubInvHolds, CallbackInvStep, PTL DEF Spec

-----------------------------------------------------------------------------
(* UploadsInOrder and OneAnswer: what is sent about streams and invocations *)

AnswerState == ServerIds /\ AnswerInv(sent, invocations, delivered)

\* A message that neither announces streams nor belongs to one
Quiet(m) == m.streams = << >> /\ m.type # "StreamItem" /\ (m.type = "Completion" => m.id < 0)

LEMMA QuietIsNoUpload ==
    ASSUME NEW m \in ClientMessages, Quiet(m)
    PROVE  ~IsUpload(m) /\ Tickets(m.streams) = {}
  <1>1. m.id \in Int
    BY DEF ClientMessages
  <1> QED BY <1>1 DEF Quiet, IsUpload, Tickets

\* What is sent after ms was appended
LEMMA SentGrows ==
    ASSUME sent \in Seq(ClientMessages), NEW ms \in Seq(ClientMessages), sent' = sent \o ms
    PROVE  /\ Len(sent) \in Nat /\ DOMAIN sent = 1..Len(sent)
           /\ \A t \in DOMAIN sent : t \in DOMAIN sent' /\ sent'[t] = sent[t]
           /\ \A t \in DOMAIN sent' : /\ t \in Nat /\ sent'[t] \in ClientMessages
                                      /\ \/ t \in DOMAIN sent
                                         \/ /\ t > Len(sent) /\ t - Len(sent) \in DOMAIN ms
                                            /\ sent'[t] = ms[t - Len(sent)]
  OBVIOUS

SameUploads ==
    /\ DOMAIN calls' = DOMAIN calls
    /\ \A k \in DOMAIN calls : /\ calls'[k].uploads = calls[k].uploads /\ calls'[k].live = calls[k].live
                               /\ calls'[k].chain = calls[k].chain

\* Every call's streams are natural numbers, as are the ids of its chain.
LEMMA StreamsTyped ==
    ASSUME HubTypeOK, StreamsOwned(calls), NEW k \in DOMAIN calls
    PROVE  /\ calls[k].live \subseteq Nat /\ calls[k].chain \in Seq(ClientMessages)
           /\ calls[k].uploads \in Seq(Nat) /\ Tickets(calls[k].uploads) \subseteq Nat
           /\ \A c \in DOMAIN calls[k].chain : calls[k].chain[c].id \in Nat
  <1>1. calls[k] \in CallRecords
    BY CallTyped
  <1>2. calls[k].live \subseteq Nat /\ calls[k].chain \in Seq(ClientMessages) /\ calls[k].uploads \in Seq(Nat)
    BY <1>1 DEF CallRecords
  <1>3. Tickets(calls[k].uploads) \subseteq Nat
    BY <1>2 DEF Tickets
  <1> QED BY <1>2, <1>3 DEF StreamsOwned

LEMMA UploadInvQuiet ==
    ASSUME HubTypeOK, UploadInv, SameUploads, nextId' = nextId,
           NEW ms \in Seq(ClientMessages), \A t \in DOMAIN ms : Quiet(ms[t]), sent' = sent \o ms
    PROVE  UploadInv'
  <1>1. sent \in Seq(ClientMessages)
    BY DEF HubTypeOK
  <1>2. /\ \A t \in DOMAIN sent : t \in DOMAIN sent' /\ sent'[t] = sent[t]
        /\ \A t \in DOMAIN sent' : /\ sent'[t] \in ClientMessages
                                   /\ t \in DOMAIN sent \/ Quiet(sent'[t])
    BY <1>1, SentGrows
  <1>3. ASSUME NEW t \in DOMAIN sent', t \notin DOMAIN sent
        PROVE  /\ ~IsUpload(sent'[t]) /\ Tickets(sent'[t].streams) = {}
               /\ sent'[t].type # "StreamItem"
               /\ sent'[t].type = "Completion" => sent'[t].id < 0
    <2>1. sent'[t] \in ClientMessages /\ Quiet(sent'[t])
      BY <1>2, <1>3
    <2> QED BY <2>1, QuietIsNoUpload DEF Quiet
  <1>4. StreamsOwned(calls)'
    <2>1. StreamsOwned(calls)
      BY DEF UploadInv
    <2>2. /\ \A k \in DOMAIN calls' : \A x \in Tickets(calls'[k].uploads) : x < nextId
          /\ \A k, l \in DOMAIN calls' : k # l => Tickets(calls'[k].uploads) \cap Tickets(calls'[l].uploads) = {}
          /\ \A k \in DOMAIN calls' : calls'[k].live \subseteq Tickets(calls'[k].uploads)
      BY <2>1 DEF StreamsOwned, SameUploads
    <2>3. \A k \in DOMAIN calls' : \A c \in DOMAIN calls'[k].chain :
              /\ calls'[k].chain[c].id \in Tickets(calls'[k].uploads)
              /\ calls'[k].chain[c].type \in {"StreamItem", "Completion"}
              /\ calls'[k].chain[c].streams = << >>
      BY <2>1 DEF StreamsOwned, SameUploads
    <2> QED BY <2>2, <2>3 DEF StreamsOwned
  <1>5. StreamsDrawn(sent)'
    <2> SUFFICES ASSUME NEW t \in DOMAIN sent'
                 PROVE  /\ \A x \in Tickets(sent'[t].streams) : x < nextId
                        /\ IsUpload(sent'[t]) => sent'[t].id < nextId
      BY DEF StreamsDrawn
    <2> QED BY <1>2, <1>3 DEF UploadInv, StreamsDrawn
  <1>6. \A k \in DOMAIN calls : /\ calls[k].live \subseteq Nat
                                /\ \A c \in DOMAIN calls[k].chain : calls[k].chain[c].id \in Nat
    BY StreamsTyped DEF UploadInv
  <1>7. EndsLast(sent, calls)'
    <2>1. \A k \in DOMAIN calls : \A t \in DOMAIN sent' :
              sent'[t].type = "Completion" => sent'[t].id \notin calls[k].live
      <3> SUFFICES ASSUME NEW k \in DOMAIN calls, NEW t \in DOMAIN sent', sent'[t].type = "Completion"
                   PROVE  sent'[t].id \notin calls[k].live
        OBVIOUS
      <3>1. CASE t \in DOMAIN sent
        BY <1>2, <3>1 DEF UploadInv, EndsLast
      <3>2. CASE sent'[t].id < 0
        BY <1>6, <3>2
      <3> QED BY <1>3, <3>1, <3>2
    <2>2. \A t \in DOMAIN sent' : \A k \in DOMAIN calls : \A c \in DOMAIN calls[k].chain :
              sent'[t].type = "Completion" /\ sent'[t].id = calls[k].chain[c].id =>
                  calls[k].chain[c].type # "StreamItem"
      <3> SUFFICES ASSUME NEW t \in DOMAIN sent', NEW k \in DOMAIN calls, NEW c \in DOMAIN calls[k].chain,
                          sent'[t].type = "Completion", sent'[t].id = calls[k].chain[c].id
                   PROVE  calls[k].chain[c].type # "StreamItem"
        OBVIOUS
      <3>1. CASE t \in DOMAIN sent
        BY <1>2, <3>1 DEF UploadInv, EndsLast
      <3>2. CASE sent'[t].id < 0
        BY <1>6, <3>2
      <3> QED BY <1>3, <3>1, <3>2
    <2>3. EndsLast(sent, calls)
      BY DEF UploadInv
    <2>4. \A k \in DOMAIN calls : \A c \in DOMAIN calls[k].chain :
              calls[k].chain[c].type = "Completion" => calls[k].chain[c].id \notin calls[k].live
      BY <2>3 DEF EndsLast
    <2>5. \A k \in DOMAIN calls : \A c, d \in DOMAIN calls[k].chain :
              calls[k].chain[c].type = "StreamItem" /\ calls[k].chain[d].type = "Completion"
                  /\ calls[k].chain[c].id = calls[k].chain[d].id => c < d
      BY <2>3 DEF EndsLast
    <2> QED BY <2>1, <2>2, <2>4, <2>5 DEF EndsLast, SameUploads
  <1>8. UploadsSentInOrder(sent)'
    <2>1. ASSUME NEW t \in DOMAIN sent', NEW u \in DOMAIN sent'
          PROVE  /\ IsUpload(sent'[u]) /\ sent'[u].id \in Tickets(sent'[t].streams) => t < u
                 /\ sent'[t].type = "StreamItem" /\ sent'[u].type = "Completion"
                        /\ sent'[t].id = sent'[u].id => t < u
                 /\ sent'[t].type = "StreamItem" => sent'[t].id >= 0
      <3>1. CASE t \in DOMAIN sent /\ u \in DOMAIN sent
        BY <1>2, <3>1 DEF UploadInv, UploadsSentInOrder
      <3>2. CASE t \notin DOMAIN sent
        BY <1>3, <3>2
      <3>3. CASE t \in DOMAIN sent /\ u \notin DOMAIN sent
        <4>1. ~IsUpload(sent'[u]) /\ (sent'[u].type = "Completion" => sent'[u].id < 0)
          BY <1>3, <3>3
        <4>2. sent'[t] = sent[t] /\ (sent[t].type = "StreamItem" => sent[t].id >= 0)
          BY <1>2, <3>3 DEF UploadInv, UploadsSentInOrder
        <4>3. sent[t].id \in Int /\ sent'[u].id \in Int
          BY <1>2, <4>2 DEF ClientMessages
        <4> QED BY <4>1, <4>2, <4>3
      <3> QED BY <3>1, <3>2, <3>3
    <2> QED BY <2>1 DEF UploadsSentInOrder
  <1> QED BY <1>4, <1>5, <1>7, <1>8 DEF UploadInv

\* A stream that emits is live, so it has not ended before.
LEMMA UploadInvEmit ==
    ASSUME HubTypeOK, UploadInv, NEW k \in DOMAIN calls, NEW stream \in calls[k].live,
           NEW type \in {"StreamItem", "Completion"}, Emit(k, stream, type)
    PROVE  UploadInv'
  <1> DEFINE m == Message(type, stream, << >>)
             old == calls[k].chain
             new == calls'[k].chain
             live == calls'[k].live
             uploads == Tickets(calls[k].uploads)
  <1>1. /\ Changed(k) /\ sent' = sent /\ new = Append(old, m) /\ m \in ClientMessages
        /\ live = IF type = "Completion" THEN calls[k].live \ {stream} ELSE calls[k].live
    BY EmitChanges, ZenonT(30)
  <1>2. nextId' = nextId
    BY DEF Emit, UnchangedButCalls
  <1>3. m.type = type /\ m.id = stream /\ m.streams = << >>
    BY DEF Message
  <1>4. StreamsOwned(calls) /\ EndsLast(sent, calls)
    BY DEF UploadInv
  <1>5. old \in Seq(ClientMessages) /\ calls[k].live \subseteq uploads
    BY <1>4, StreamsTyped DEF StreamsOwned
  <1> HIDE DEF m
  <1>6. /\ Len(old) \in Nat /\ DOMAIN old = 1..Len(old) /\ DOMAIN new = 1..Len(old) + 1
        /\ new[Len(old) + 1] = m /\ \A c \in DOMAIN old : new[c] = old[c]
    BY <1>1, <1>5
  <1>7. /\ \A j \in DOMAIN calls : calls'[j].uploads = calls[j].uploads
        /\ \A j \in DOMAIN calls : j # k => calls'[j] = calls[j]
        /\ DOMAIN calls' = DOMAIN calls
    BY <1>1 DEF Changed
  <1>8. live \subseteq calls[k].live /\ (type = "Completion" => stream \notin live)
    BY <1>1
  <1> HIDE DEF new, live, old, uploads
  <1>9. /\ live \subseteq uploads
        /\ \A c \in DOMAIN new : /\ new[c].id \in uploads /\ new[c].type \in {"StreamItem", "Completion"}
                                 /\ new[c].streams = << >>
    <2>1. \A c \in DOMAIN old : /\ old[c].id \in uploads /\ old[c].type \in {"StreamItem", "Completion"}
                                /\ old[c].streams = << >>
      BY <1>4 DEF StreamsOwned, old, uploads
    <2>2. m.id \in uploads
      BY <1>3, <1>5
    <2>3. \A c \in DOMAIN new : c \in DOMAIN old \/ new[c] = m
      BY <1>6
    <2> QED BY <1>3, <1>5, <1>6, <1>8, <2>1, <2>2, <2>3
  <1>10. StreamsOwned(calls)'
    <2>1. \A j \in DOMAIN calls : calls'[j].live \subseteq Tickets(calls[j].uploads)
      BY <1>4, <1>7, <1>9 DEF StreamsOwned, live, uploads
    <2>2. \A j \in DOMAIN calls : \A c \in DOMAIN calls'[j].chain :
              /\ calls'[j].chain[c].id \in Tickets(calls[j].uploads)
              /\ calls'[j].chain[c].type \in {"StreamItem", "Completion"}
              /\ calls'[j].chain[c].streams = << >>
      BY <1>4, <1>7, <1>9 DEF StreamsOwned, new, uploads
    <2>3. \A j \in DOMAIN calls : \A x \in Tickets(calls'[j].uploads) : x < nextId
      BY <1>4, <1>7 DEF StreamsOwned
    <2>4. \A j, l \in DOMAIN calls : j # l => Tickets(calls'[j].uploads) \cap Tickets(calls'[l].uploads) = {}
      BY <1>4, <1>7 DEF StreamsOwned
    <2> HIDE DEF Tickets
    <2> QED BY <1>2, <1>7, <2>1, <2>2, <2>3, <2>4 DEF StreamsOwned
  <1>11. EndsLast(sent, calls)'
    <2>1. \A c \in DOMAIN old : old[c].type = "Completion" => old[c].id \notin calls[k].live
      BY <1>4 DEF EndsLast, old
    <2>2. \A c \in DOMAIN new : new[c].type = "Completion" => new[c].id \notin live
      BY <1>3, <1>6, <1>8, <2>1
    <2>3. \A t \in DOMAIN sent : sent[t].type = "Completion" => sent[t].id \notin calls[k].live
      BY <1>4 DEF EndsLast
    <2>4. \A c, d \in DOMAIN new : new[c].type = "StreamItem" /\ new[d].type = "Completion"
                                       /\ new[c].id = new[d].id => c < d
      <3> SUFFICES ASSUME NEW c \in DOMAIN new, NEW d \in DOMAIN new, new[c].type = "StreamItem",
                          new[d].type = "Completion", new[c].id = new[d].id
                   PROVE  c < d
        OBVIOUS
      <3>1. CASE c \in DOMAIN old /\ d \in DOMAIN old
        BY <1>4, <1>6, <3>1 DEF EndsLast, old
      <3>2. CASE c = Len(old) + 1
        <4>1. d \in DOMAIN old /\ new[d] = old[d]
          BY <1>6, <3>2
        <4> QED BY <1>3, <1>6, <2>1, <3>2, <4>1
      <3>3. CASE c \in DOMAIN old /\ d = Len(old) + 1
        BY <1>6, <3>3
      <3> QED BY <1>6, <3>1, <3>2, <3>3
    <2>5. \A t \in DOMAIN sent, c \in DOMAIN new :
              sent[t].type = "Completion" /\ sent[t].id = new[c].id => new[c].type # "StreamItem"
      <3>1. \A t \in DOMAIN sent, c \in DOMAIN old :
                sent[t].type = "Completion" /\ sent[t].id = old[c].id => old[c].type # "StreamItem"
        BY <1>4 DEF EndsLast, old
      <3> QED BY <1>3, <1>6, <2>3, <3>1
    <2>6. \A j \in DOMAIN calls : \A c \in DOMAIN calls'[j].chain :
              calls'[j].chain[c].type = "Completion" => calls'[j].chain[c].id \notin calls'[j].live
      BY <1>4, <1>7, <2>2 DEF EndsLast, new, live
    <2>7. \A j \in DOMAIN calls : \A t \in DOMAIN sent :
              sent[t].type = "Completion" => sent[t].id \notin calls'[j].live
      BY <1>4, <1>7, <1>8, <2>3 DEF EndsLast, live
    <2>8. \A j \in DOMAIN calls : \A c, d \in DOMAIN calls'[j].chain :
              calls'[j].chain[c].type = "StreamItem" /\ calls'[j].chain[d].type = "Completion"
                  /\ calls'[j].chain[c].id = calls'[j].chain[d].id => c < d
      BY <1>4, <1>7, <2>4 DEF EndsLast, new
    <2>9. \A t \in DOMAIN sent : \A j \in DOMAIN calls : \A c \in DOMAIN calls'[j].chain :
              sent[t].type = "Completion" /\ sent[t].id = calls'[j].chain[c].id =>
                  calls'[j].chain[c].type # "StreamItem"
      BY <1>4, <1>7, <2>5 DEF EndsLast, new
    <2> QED BY <1>1, <1>7, <2>6, <2>7, <2>8, <2>9 DEF EndsLast
  <1> QED BY <1>1, <1>2, <1>10, <1>11 DEF UploadInv, StreamsDrawn, UploadsSentInOrder

\* The first link of a chain is sent or not; either way the rest is the rest of the chain.
LEMMA UploadInvChain ==
    ASSUME HubTypeOK, UploadInv, NEW k \in DOMAIN calls, ChainRuns(k)
    PROVE  UploadInv'
  <1> DEFINE old == calls[k].chain
             new == calls'[k].chain
             h == old[1]
             uploads == Tickets(calls[k].uploads)
  <1>1. /\ Changed(k) /\ old # << >> /\ old \in Seq(ClientMessages) /\ calls'[k].live = calls[k].live
        /\ \/ new = Tail(old) /\ Transmit(h)
           \/ new = << >> /\ UNCHANGED qvars
    <2>1. Head(calls[k].chain) = calls[k].chain[1]
      BY ChainRunsChanges
    <2> QED BY <2>1, ChainRunsChanges
  <1>2. /\ nextId' = nextId /\ sent \in Seq(ClientMessages)
    BY DEF ChainRuns, UnchangedButCalls, HubTypeOK
  <1>3. /\ 1 \in DOMAIN old /\ h \in ClientMessages
        /\ \A c \in DOMAIN new : c \in Nat /\ c + 1 \in DOMAIN old /\ new[c] = old[c + 1] /\ c + 1 > 1
    <2>1. CASE new = Tail(old)
      BY <1>1, <2>1
    <2>2. CASE new = << >>
      <3>1. DOMAIN new = {}
        BY <2>2
      <3> QED BY <1>1, <3>1
    <2> QED BY <1>1, <2>1, <2>2
  <1>4. sent' = sent \/ sent' = sent \o <<h>>
    BY <1>1 DEF Transmit, SendAll, qvars
  <1>5. /\ \A t \in DOMAIN sent : t \in DOMAIN sent' /\ sent'[t] = sent[t] /\ t < Len(sent) + 1
        /\ \A t \in DOMAIN sent' : t \in DOMAIN sent \/ (t = Len(sent) + 1 /\ sent'[t] = h)
        /\ Len(sent) \in Nat
    <2> HIDE DEF h
    <2> QED BY <1>2, <1>3, <1>4
  <1>6. StreamsOwned(calls) /\ EndsLast(sent, calls) /\ StreamsDrawn(sent) /\ UploadsSentInOrder(sent)
    BY DEF UploadInv
  <1>7. /\ \A j \in DOMAIN calls : calls'[j].uploads = calls[j].uploads /\ calls'[j].live = calls[j].live
        /\ \A j \in DOMAIN calls : j # k => calls'[j] = calls[j]
        /\ DOMAIN calls' = DOMAIN calls
    BY <1>1 DEF Changed
  <1>8. /\ h.id \in uploads /\ h.type \in {"StreamItem", "Completion"} /\ h.streams = << >>
        /\ h.id \in Nat /\ h.id < nextId
    <2>1. h.id \in Tickets(calls[k].uploads) /\ h.type \in {"StreamItem", "Completion"} /\ h.streams = << >>
      BY <1>3, <1>6 DEF StreamsOwned
    <2>2. \A x \in Tickets(calls[k].uploads) : x < nextId
      BY <1>6 DEF StreamsOwned
    <2>3. Tickets(calls[k].uploads) \subseteq Nat
      BY <1>6, StreamsTyped
    <2> HIDE DEF h
    <2> QED BY <2>1, <2>2, <2>3
  <1>9. \A j \in DOMAIN calls : j # k => h.id \notin Tickets(calls[j].uploads)
    <2>1. \A j \in DOMAIN calls : j # k => Tickets(calls[j].uploads) \cap Tickets(calls[k].uploads) = {}
      BY <1>6 DEF StreamsOwned
    <2> HIDE DEF h
    <2> QED BY <1>8, <2>1
  <1> HIDE DEF new, old, uploads
  <1>10. StreamsOwned(calls)'
    <2>1. \A j \in DOMAIN calls : calls'[j].live \subseteq Tickets(calls'[j].uploads)
      BY <1>6, <1>7 DEF StreamsOwned
    <2>2. \A j \in DOMAIN calls : \A c \in DOMAIN calls'[j].chain :
              /\ calls'[j].chain[c].id \in Tickets(calls'[j].uploads)
              /\ calls'[j].chain[c].type \in {"StreamItem", "Completion"}
              /\ calls'[j].chain[c].streams = << >>
      <3>1. \A c \in DOMAIN old : /\ old[c].id \in Tickets(calls[k].uploads)
                                  /\ old[c].type \in {"StreamItem", "Completion"}
                                  /\ old[c].streams = << >>
        BY <1>6 DEF StreamsOwned, old
      <3>2. \A c \in DOMAIN new : /\ new[c].id \in Tickets(calls[k].uploads)
                                  /\ new[c].type \in {"StreamItem", "Completion"}
                                  /\ new[c].streams = << >>
        BY <1>3, <3>1
      <3> QED BY <1>6, <1>7, <3>2 DEF StreamsOwned, new
    <2>3. \A j \in DOMAIN calls : \A x \in Tickets(calls'[j].uploads) : x < nextId
      BY <1>6, <1>7 DEF StreamsOwned
    <2>4. \A j, l \in DOMAIN calls : j # l => Tickets(calls'[j].uploads) \cap Tickets(calls'[l].uploads) = {}
      BY <1>6, <1>7 DEF StreamsOwned
    <2>5. DOMAIN calls' = DOMAIN calls
      BY <1>7
    <2> QED BY <1>2, <2>1, <2>2, <2>3, <2>4, <2>5 DEF StreamsOwned
  <1>11. StreamsDrawn(sent)'
    <2>1. \A t \in DOMAIN sent : /\ \A x \in Tickets(sent[t].streams) : x < nextId
                                 /\ IsUpload(sent[t]) => sent[t].id < nextId
      BY <1>6 DEF StreamsDrawn
    <2>2. Tickets(h.streams) = {}
      BY <1>8 DEF Tickets
    <2> HIDE DEF h
    <2>3. \A t \in DOMAIN sent' : /\ \A x \in Tickets(sent'[t].streams) : x < nextId
                                  /\ IsUpload(sent'[t]) => sent'[t].id < nextId
      BY <1>5, <1>8, <2>1, <2>2
    <2> QED BY <1>2, <2>3 DEF StreamsDrawn
  <1>12. EndsLast(sent, calls)'
    <2>1. \A c \in DOMAIN new : new[c].type = "Completion" => new[c].id \notin calls[k].live
      BY <1>3, <1>6 DEF EndsLast, old
    <2>2. \A j \in DOMAIN calls : \A c \in DOMAIN calls'[j].chain :
              calls'[j].chain[c].type = "Completion" => calls'[j].chain[c].id \notin calls'[j].live
      BY <1>6, <1>7, <2>1 DEF EndsLast, new
    <2>3. \A c, d \in DOMAIN old : old[c].type = "StreamItem" /\ old[d].type = "Completion"
                                       /\ old[c].id = old[d].id => c < d
      BY <1>6 DEF EndsLast, old
    <2>4. \A c, d \in DOMAIN new : new[c].type = "StreamItem" /\ new[d].type = "Completion"
                                       /\ new[c].id = new[d].id => c < d
      <3> SUFFICES ASSUME NEW c \in DOMAIN new, NEW d \in DOMAIN new, new[c].type = "StreamItem",
                          new[d].type = "Completion", new[c].id = new[d].id
                   PROVE  c < d
        OBVIOUS
      <3>1. c + 1 < d + 1
        BY <1>3, <2>3
      <3> QED BY <1>3, <3>1
    <2>5. \A j \in DOMAIN calls : \A c, d \in DOMAIN calls'[j].chain :
              calls'[j].chain[c].type = "StreamItem" /\ calls'[j].chain[d].type = "Completion"
                  /\ calls'[j].chain[c].id = calls'[j].chain[d].id => c < d
      BY <1>6, <1>7, <2>4 DEF EndsLast, new
    <2>6. \A j \in DOMAIN calls : h.type = "Completion" => h.id \notin calls[j].live
      <3>1. h.type = "Completion" => h.id \notin calls[k].live
        BY <1>3, <1>6 DEF EndsLast, old
      <3>2. \A j \in DOMAIN calls : j # k => h.id \notin calls[j].live
        BY <1>6, <1>9 DEF StreamsOwned
      <3> QED BY <3>1, <3>2
    <2>7. \A j \in DOMAIN calls : \A t \in DOMAIN sent' :
              sent'[t].type = "Completion" => sent'[t].id \notin calls'[j].live
      <3>1. \A j \in DOMAIN calls : \A t \in DOMAIN sent :
                sent[t].type = "Completion" => sent[t].id \notin calls[j].live
        BY <1>6 DEF EndsLast
      <3> HIDE DEF h
      <3> QED BY <1>5, <1>7, <2>6, <3>1
    <2>8. \A j \in DOMAIN calls : \A c \in DOMAIN calls'[j].chain :
              h.type = "Completion" /\ h.id = calls'[j].chain[c].id => calls'[j].chain[c].type # "StreamItem"
      <3>1. \A c \in DOMAIN new : h.type = "Completion" /\ h.id = new[c].id => new[c].type # "StreamItem"
        <4> SUFFICES ASSUME NEW c \in DOMAIN new, h.type = "Completion", h.id = new[c].id,
                            new[c].type = "StreamItem"
                     PROVE  FALSE
          OBVIOUS
        <4>1. c + 1 < 1
          BY <1>3, <2>3
        <4> QED BY <1>3, <4>1
      <3>2. \A j \in DOMAIN calls : j # k => \A c \in DOMAIN calls[j].chain : h.id # calls[j].chain[c].id
        BY <1>6, <1>9 DEF StreamsOwned
      <3> HIDE DEF h
      <3> QED BY <1>7, <3>1, <3>2 DEF new
    <2>9. \A t \in DOMAIN sent : \A j \in DOMAIN calls : \A c \in DOMAIN calls'[j].chain :
              sent[t].type = "Completion" /\ sent[t].id = calls'[j].chain[c].id =>
                  calls'[j].chain[c].type # "StreamItem"
      <3>1. \A t \in DOMAIN sent : \A c \in DOMAIN old :
                sent[t].type = "Completion" /\ sent[t].id = old[c].id => old[c].type # "StreamItem"
        BY <1>6 DEF EndsLast, old
      <3>2. \A t \in DOMAIN sent : \A c \in DOMAIN new :
                sent[t].type = "Completion" /\ sent[t].id = new[c].id => new[c].type # "StreamItem"
        BY <1>3, <3>1
      <3> QED BY <1>6, <1>7, <3>2 DEF EndsLast, new
    <2>10. \A t \in DOMAIN sent' : \A j \in DOMAIN calls : \A c \in DOMAIN calls'[j].chain :
              sent'[t].type = "Completion" /\ sent'[t].id = calls'[j].chain[c].id =>
                  calls'[j].chain[c].type # "StreamItem"
      <3> HIDE DEF h
      <3> QED BY <1>5, <2>8, <2>9
    <2> QED BY <1>7, <2>2, <2>5, <2>7, <2>10 DEF EndsLast
  <1>13. UploadsSentInOrder(sent)'
    <2>1. /\ \A t, u \in DOMAIN sent : IsUpload(sent[u]) /\ sent[u].id \in Tickets(sent[t].streams) => t < u
          /\ \A t, u \in DOMAIN sent : sent[t].type = "StreamItem" /\ sent[u].type = "Completion"
                                           /\ sent[t].id = sent[u].id => t < u
          /\ \A t \in DOMAIN sent : sent[t].type = "StreamItem" => sent[t].id >= 0
      BY <1>6 DEF UploadsSentInOrder
    <2>2. \A t \in DOMAIN sent : sent[t].type = "Completion" /\ sent[t].id = h.id => h.type # "StreamItem"
      BY <1>3, <1>6 DEF EndsLast, old
    <2>3. Tickets(h.streams) = {} /\ h.id >= 0
      BY <1>8 DEF Tickets
    <2> HIDE DEF h
    <2>4. ASSUME NEW t \in DOMAIN sent', NEW u \in DOMAIN sent'
          PROVE  /\ IsUpload(sent'[u]) /\ sent'[u].id \in Tickets(sent'[t].streams) => t < u
                 /\ sent'[t].type = "StreamItem" /\ sent'[u].type = "Completion"
                        /\ sent'[t].id = sent'[u].id => t < u
                 /\ sent'[t].type = "StreamItem" => sent'[t].id >= 0
      <3>1. CASE t \in DOMAIN sent /\ u \in DOMAIN sent
        BY <1>5, <2>1, <3>1
      <3>2. CASE sent'[t] = h
        <4>1. sent'[u] = h \/ (u \in DOMAIN sent /\ sent'[u] = sent[u])
          BY <1>5
        <4> QED BY <2>2, <2>3, <3>2, <4>1
      <3>3. CASE t \in DOMAIN sent /\ u = Len(sent) + 1
        BY <1>5, <2>1, <3>3
      <3> QED BY <1>5, <3>1, <3>2, <3>3
    <2> QED BY <2>4 DEF UploadsSentInOrder
  <1> QED BY <1>10, <1>11, <1>12, <1>13 DEF UploadInv

\* The streams of a new call have ids that nothing has used.
LEMMA UploadInvCall ==
    ASSUME HubTypeOK, UploadInv, NEW c, NewCall(c)
    PROVE  UploadInv'
  <1> DEFINE n == Len(calls) + 1
  <1>1. /\ calls \in Seq(CallRecords) /\ nextId \in Nat /\ sent \in Seq(ClientMessages)
    BY DEF HubTypeOK
  <1>2. /\ c \in CallRecords /\ calls' = Append(calls, c) /\ nextId' \in Nat /\ nextId <= nextId'
        /\ \A x \in Tickets(c.uploads) : nextId <= x /\ x < nextId'
        /\ c.live = Tickets(c.uploads) /\ c.chain = << >>
    BY DEF NewCall
  <1>3. /\ DOMAIN calls' = 1..n /\ DOMAIN calls = 1..n - 1 /\ n \in Nat /\ calls'[n] = c
        /\ \A k \in DOMAIN calls : k \in DOMAIN calls' /\ k # n /\ calls'[k] = calls[k]
        /\ \A k \in DOMAIN calls' : k = n \/ k \in DOMAIN calls
    BY <1>1, <1>2
  <1> HIDE DEF n
  <1>4. StreamsOwned(calls) /\ EndsLast(sent, calls) /\ StreamsDrawn(sent) /\ UploadsSentInOrder(sent)
    BY DEF UploadInv
  <1>5. DOMAIN c.chain = {} /\ c.uploads \in Seq(Nat) /\ Tickets(c.uploads) \subseteq Nat
    <2>1. c.uploads \in Seq(Nat)
      BY <1>2 DEF CallRecords
    <2> QED BY <1>2, <2>1 DEF Tickets
  <1>6. \A k \in DOMAIN calls : \A x \in Tickets(calls[k].uploads) : x \in Nat /\ x < nextId
    <2>1. \A k \in DOMAIN calls : \A x \in Tickets(calls[k].uploads) : x < nextId
      BY <1>4 DEF StreamsOwned
    <2>2. \A k \in DOMAIN calls : Tickets(calls[k].uploads) \subseteq Nat
      BY <1>4, StreamsTyped
    <2> QED BY <2>1, <2>2
  <1>7. \A k \in DOMAIN calls : Tickets(calls[k].uploads) \cap Tickets(c.uploads) = {}
    BY <1>1, <1>2, <1>5, <1>6
  <1>8. \A t \in DOMAIN sent : /\ sent[t] \in ClientMessages /\ sent[t].id \in Int
                               /\ IsUpload(sent[t]) => sent[t].id < nextId
                               /\ \A x \in Tickets(sent[t].streams) : x \in Nat /\ x < nextId
    <2>1. \A t \in DOMAIN sent : sent[t] \in ClientMessages
      BY <1>1
    <2>2. \A t \in DOMAIN sent : sent[t].id \in Int /\ sent[t].streams \in Seq(Nat)
      BY <2>1 DEF ClientMessages
    <2>3. \A t \in DOMAIN sent : \A x \in Tickets(sent[t].streams) : x \in Nat
      BY <2>2 DEF Tickets
    <2> QED BY <1>4, <2>1, <2>2, <2>3 DEF StreamsDrawn
  <1>9. StreamsOwned(calls)'
    <2>1. \A k \in DOMAIN calls' : \A x \in Tickets(calls'[k].uploads) : x < nextId'
      <3>1. \A k \in DOMAIN calls : \A x \in Tickets(calls[k].uploads) : x < nextId'
        <4>1. \A x \in Nat : x < nextId => x < nextId'
          BY <1>1, <1>2
        <4> QED BY <1>6, <4>1
      <3>2. \A x \in Tickets(c.uploads) : x < nextId'
        BY <1>2
      <3> QED BY <1>3, <3>1, <3>2
    <2>2. \A k, l \in DOMAIN calls : k # l => Tickets(calls[k].uploads) \cap Tickets(calls[l].uploads) = {}
      BY <1>4 DEF StreamsOwned
    <2>3. \A k, l \in DOMAIN calls' : k # l => Tickets(calls'[k].uploads) \cap Tickets(calls'[l].uploads) = {}
      BY <1>3, <1>7, <2>2
    <2>4. \A k \in DOMAIN calls' : calls'[k].live \subseteq Tickets(calls'[k].uploads)
      BY <1>2, <1>3, <1>4 DEF StreamsOwned
    <2>5. \A k \in DOMAIN calls' : \A d \in DOMAIN calls'[k].chain :
              /\ calls'[k].chain[d].id \in Tickets(calls'[k].uploads)
              /\ calls'[k].chain[d].type \in {"StreamItem", "Completion"}
              /\ calls'[k].chain[d].streams = << >>
      BY <1>3, <1>4, <1>5 DEF StreamsOwned
    <2> QED BY <2>1, <2>3, <2>4, <2>5 DEF StreamsOwned
  <1>10. \E m : /\ m.type \in {"Invocation", "StreamInvocation"} /\ m.streams = c.uploads
                /\ \A t \in DOMAIN sent : t \in DOMAIN sent' /\ sent'[t] = sent[t] /\ t < Len(sent) + 1
                /\ \A t \in DOMAIN sent' : t \in DOMAIN sent \/ (t = Len(sent) + 1 /\ sent'[t] = m)
    <2>1. CASE UNCHANGED qvars
      <3> DEFINE m == [type |-> "Invocation", streams |-> c.uploads]
      <3>1. m.type = "Invocation" /\ m.streams = c.uploads
        OBVIOUS
      <3>2. sent' = sent
        BY <2>1 DEF qvars
      <3>3. \A t \in DOMAIN sent : t < Len(sent) + 1
        BY <1>1
      <3> HIDE DEF m
      <3> QED BY <3>1, <3>2, <3>3
    <2>2. CASE \E m \in ClientMessages : /\ SendAll(<<m>>) /\ m.streams = c.uploads
                                         /\ m.type \in {"Invocation", "StreamInvocation"}
      <3>1. PICK m \in ClientMessages : /\ SendAll(<<m>>) /\ m.streams = c.uploads
                                        /\ m.type \in {"Invocation", "StreamInvocation"}
        BY <2>2
      <3>2. sent' = sent \o <<m>>
        BY <3>1 DEF SendAll
      <3>3. /\ \A t \in DOMAIN sent : t \in DOMAIN sent' /\ sent'[t] = sent[t] /\ t < Len(sent) + 1
            /\ \A t \in DOMAIN sent' : t \in DOMAIN sent \/ (t = Len(sent) + 1 /\ sent'[t] = m)
        BY <1>1, <3>1, <3>2
      <3> QED BY <3>1, <3>3
    <2> QED BY <2>1, <2>2 DEF NewCall
  <1>11. PICK m : /\ m.type \in {"Invocation", "StreamInvocation"} /\ m.streams = c.uploads
                  /\ \A t \in DOMAIN sent : t \in DOMAIN sent' /\ sent'[t] = sent[t] /\ t < Len(sent) + 1
                  /\ \A t \in DOMAIN sent' : t \in DOMAIN sent \/ (t = Len(sent) + 1 /\ sent'[t] = m)
    BY <1>10
  <1>12. ~IsUpload(m) /\ m.type # "StreamItem" /\ m.type # "Completion"
    BY <1>11 DEF IsUpload
  <1>13. StreamsDrawn(sent)'
    <2>1. \A t \in DOMAIN sent' : /\ \A x \in Tickets(sent'[t].streams) : x < nextId'
                                  /\ IsUpload(sent'[t]) => sent'[t].id < nextId'
      <3> SUFFICES ASSUME NEW t \in DOMAIN sent'
                   PROVE  /\ \A x \in Tickets(sent'[t].streams) : x < nextId'
                          /\ IsUpload(sent'[t]) => sent'[t].id < nextId'
        OBVIOUS
      <3>1. CASE t \in DOMAIN sent
        <4>1. sent'[t] = sent[t]
          BY <1>11, <3>1
        <4>2. /\ sent[t].id \in Int /\ (IsUpload(sent[t]) => sent[t].id < nextId)
              /\ \A x \in Tickets(sent[t].streams) : x \in Nat /\ x < nextId
          BY <1>8, <3>1
        <4>3. \A x \in Int : x < nextId => x < nextId'
          BY <1>1, <1>2
        <4> QED BY <4>1, <4>2, <4>3
      <3>2. CASE sent'[t] = m
        BY <1>2, <1>11, <1>12, <3>2
      <3> QED BY <1>11, <3>1, <3>2
    <2> QED BY <2>1 DEF StreamsDrawn
  <1>14. \A t \in DOMAIN sent : sent[t].type = "Completion" => sent[t].id \notin c.live
    <2> SUFFICES ASSUME NEW t \in DOMAIN sent, sent[t].type = "Completion", sent[t].id \in c.live
                 PROVE  FALSE
      OBVIOUS
    <2>1. sent[t].id >= nextId /\ sent[t].id \in Nat
      BY <1>1, <1>2, <1>5
    <2>2. IsUpload(sent[t])
      BY <2>1 DEF IsUpload
    <2> QED BY <1>1, <1>8, <2>1, <2>2
  <1>15. EndsLast(sent, calls)'
    <2>1. \A k \in DOMAIN calls' : \A d \in DOMAIN calls'[k].chain :
              calls'[k].chain[d].type = "Completion" => calls'[k].chain[d].id \notin calls'[k].live
      BY <1>3, <1>4, <1>5 DEF EndsLast
    <2>2. \A k \in DOMAIN calls' : \A t \in DOMAIN sent' :
              sent'[t].type = "Completion" => sent'[t].id \notin calls'[k].live
      BY <1>3, <1>4, <1>11, <1>12, <1>14 DEF EndsLast
    <2>3. \A k \in DOMAIN calls' : \A d, e \in DOMAIN calls'[k].chain :
              calls'[k].chain[d].type = "StreamItem" /\ calls'[k].chain[e].type = "Completion"
                  /\ calls'[k].chain[d].id = calls'[k].chain[e].id => d < e
      BY <1>3, <1>4, <1>5 DEF EndsLast
    <2>4. \A t \in DOMAIN sent' : \A k \in DOMAIN calls' : \A d \in DOMAIN calls'[k].chain :
              sent'[t].type = "Completion" /\ sent'[t].id = calls'[k].chain[d].id =>
                  calls'[k].chain[d].type # "StreamItem"
      BY <1>3, <1>4, <1>5, <1>11, <1>12 DEF EndsLast
    <2> QED BY <2>1, <2>2, <2>3, <2>4 DEF EndsLast
  <1>16. UploadsSentInOrder(sent)'
    <2>1. ASSUME NEW t \in DOMAIN sent', NEW u \in DOMAIN sent'
          PROVE  /\ IsUpload(sent'[u]) /\ sent'[u].id \in Tickets(sent'[t].streams) => t < u
                 /\ sent'[t].type = "StreamItem" /\ sent'[u].type = "Completion"
                        /\ sent'[t].id = sent'[u].id => t < u
                 /\ sent'[t].type = "StreamItem" => sent'[t].id >= 0
      <3>1. CASE t \in DOMAIN sent /\ u \in DOMAIN sent
        BY <1>4, <1>11, <3>1 DEF UploadsSentInOrder
      <3>2. CASE sent'[u] = m
        <4>1. sent'[t].type = "StreamItem" => sent'[t].id >= 0
          BY <1>4, <1>11, <1>12 DEF UploadsSentInOrder
        <4> QED BY <1>12, <3>2, <4>1
      <3>3. CASE sent'[t] = m /\ u \in DOMAIN sent
        <4>1. sent'[u] = sent[u]
          BY <1>11, <3>3
        <4>2. sent[u].id \in Int /\ (IsUpload(sent[u]) => sent[u].id < nextId)
          BY <1>8, <3>3
        <4>3. \A x \in Tickets(sent'[t].streams) : nextId <= x /\ x \in Nat
          BY <1>2, <1>5, <1>11, <3>3
        <4>4. ~(IsUpload(sent'[u]) /\ sent'[u].id \in Tickets(sent'[t].streams))
          BY <1>1, <4>1, <4>2, <4>3
        <4> QED BY <1>12, <3>3, <4>4
      <3> QED BY <1>11, <3>1, <3>2, <3>3
    <2> QED BY <2>1 DEF UploadsSentInOrder
  <1> QED BY <1>9, <1>13, <1>15, <1>16 DEF UploadInv

LEMMA UploadInvSame ==
    ASSUME HubTypeOK, UploadInv, SameUploads, UNCHANGED <<nextId, sent>>
    PROVE  UploadInv'
  <1>1. << >> \in Seq(ClientMessages) /\ DOMAIN << >> = {} /\ sent' = sent \o << >>
    BY DEF HubTypeOK
  <1>2. \A t \in DOMAIN << >> : Quiet(<< >>[t])
    BY <1>1
  <1> QED BY <1>1, <1>2, UploadInvQuiet

LEMMA ChangedKeepsUploads ==
    ASSUME NEW k \in DOMAIN calls, Changed(k),
           calls'[k].live = calls[k].live, calls'[k].chain = calls[k].chain
    PROVE  SameUploads
  BY DEF Changed, SameUploads

LEMMA CancelIsQuiet ==
    ASSUME NEW id \in Int, NEW m, m = Message("CancelInvocation", id, << >>)
    PROVE  m \in ClientMessages /\ Quiet(m) /\ m.type = "CancelInvocation"
  <1>1. m.type = "CancelInvocation" /\ m.streams = << >> /\ << >> \in Seq(Nat)
    BY DEF Message
  <1>2. m \in ClientMessages
    BY <1>1, ClientMessageTyped
  <1> QED BY <1>1, <1>2 DEF Quiet

LEMMA UploadInvContinuation ==
    ASSUME HubTypeOK, UploadInv, NEW k \in DOMAIN calls,
           SendCaught(k) \/ SendSettles(k) \/ SendCancel(k) \/ ChainRuns(k) \/ Dispose(k)
    PROVE  UploadInv'
  <1>1. CASE SendCaught(k)
    <2>1. SameUploads
      BY <1>1, SendCaughtChanges, ChangedKeepsUploads
    <2> QED BY <1>1, <2>1, UploadInvSame DEF SendCaught, UnchangedButCalls, qvars
  <1>2. CASE SendSettles(k)
    <2>1. SameUploads
      BY <1>2, SendSettlesChanges, ChangedKeepsUploads
    <2> QED BY <1>2, <2>1, UploadInvSame DEF SendSettles, UnchangedButCalls, qvars
  <1>3. CASE Dispose(k)
    <2>1. SameUploads
      BY <1>3, DisposeChanges, ChangedKeepsUploads
    <2> QED BY <1>3, <2>1, UploadInvSame DEF Dispose, UnchangedButCalls, qvars
  <1>4. CASE SendCancel(k)
    <2> DEFINE m == Message("CancelInvocation", calls[k].id, << >>)
    <2>1. SameUploads /\ Transmit(m)
      BY <1>4, SendCancelChanges, ChangedKeepsUploads
    <2>2. calls[k].id \in Int
      BY CallTyped DEF CallRecords
    <2>3. m \in ClientMessages /\ Quiet(m)
      BY <2>2, CancelIsQuiet
    <2>4. nextId' = nextId
      BY <1>4 DEF SendCancel, UnchangedButCalls
    <2> HIDE DEF m
    <2>5. CASE sent' = sent
      BY <2>1, <2>4, <2>5, UploadInvSame
    <2>6. CASE sent' = sent \o <<m>>
      <3>1. <<m>> \in Seq(ClientMessages) /\ \A t \in DOMAIN <<m>> : Quiet(<<m>>[t])
        BY <2>3
      <3> QED BY <2>1, <2>4, <2>6, <3>1, UploadInvQuiet
    <2> QED BY <2>1, <2>5, <2>6 DEF Transmit, SendAll, qvars
  <1>5. CASE ChainRuns(k)
    BY <1>5, UploadInvChain
  <1> QED BY <1>1, <1>2, <1>3, <1>4, <1>5

\* The answers to an invocation are about ids of the server.
LEMMA AnswersAreQuiet ==
    ASSUME HubTypeOK, AnswerState, NEW i \in DOMAIN invocations, NEW u, NEW answers,
           Returned(invocations[i], u, answers)
    PROVE  LET ms == [a \in DOMAIN answers |-> Message("Completion", u.id, << >>)]
           IN  \A t \in DOMAIN ms : Quiet(ms[t])
  <1>1. /\ IsInvocation(u) /\ u.id = invocations[i].id /\ answers \in Seq({"error", "result"})
        /\ u.several => invocations[i].several \/ invocations[i].id # 0
        /\ Len(answers) = IF u.left = << >> /\ (u.several \/ invocations[i].id # 0) THEN 1 ELSE 0
    BY DEF Returned
  <1>2. invocations[i].several => invocations[i].id # 0
    BY DEF AnswerState, AnswerInv
  <1>3. ASSUME NEW t \in DOMAIN answers PROVE u.id < 0
    <2>1. Len(answers) # 0
      BY <1>1, <1>3
    <2>2. u.id # 0
      BY <1>1, <1>2, <2>1
    <2> QED BY <1>1, <2>2 DEF IsInvocation
  <1>4. ASSUME NEW t \in DOMAIN answers PROVE Quiet(Message("Completion", u.id, << >>))
    BY <1>3, <1>4 DEF Quiet, Message
  <1> QED BY <1>4

LEMMA UploadInvHandler ==
    ASSUME HubTypeOK, UploadInv, AnswerState, NEW i \in DOMAIN invocations, NEW result,
           HandlerReturns(i, result)
    PROVE  UploadInv'
  <1>1. PICK u, answers :
            /\ Returned(invocations[i], u, answers)
            /\ Became(i, u)
            /\ IF open THEN SendAll([a \in DOMAIN answers |-> Message("Completion", u.id, << >>)])
                       ELSE UNCHANGED qvars
    BY HandlerReturned
  <1> DEFINE ms == [a \in DOMAIN answers |-> Message("Completion", u.id, << >>)]
  <1>2. ms \in Seq(ClientMessages)
    <2>1. Returned(invocations[i], u, answers) /\ Became(i, u)
      BY <1>1
    <2> QED BY <2>1, ReturnedTyped, Zenon
  <1>3. \A t \in DOMAIN ms : Quiet(ms[t])
    BY <1>1, AnswersAreQuiet
  <1>4. nextId' = nextId /\ SameUploads
    BY DEF HandlerReturns, SameUploads
  <1>5. sent' = sent \/ sent' = sent \o ms
    BY <1>1 DEF SendAll, qvars
  <1> HIDE DEF ms
  <1> QED BY <1>2, <1>3, <1>4, <1>5, UploadInvSame, UploadInvQuiet

LEMMA UploadInvReceive ==
    ASSUME HubTypeOK, UploadInv, NEW n \in 1..MaxChunk, Receive(n)
    PROVE  UploadInv'
  <1> DEFINE w == DispatchAll(MessagesOf(n))
  <1>1. /\ n \in 1..Len(served) - delivered /\ calls' = w.calls /\ nextId' = nextId /\ SendAll(w.out)
    BY Receives
  <1>2. InboxOK(w)
    BY <1>1, ReceiveDispatches
  <1> HIDE DEF w
  <1>3. SameUploads
    BY <1>1, <1>2 DEF InboxOK, SameUploads
  <1>4. w.out \in Seq(ClientMessages) /\ \A t \in DOMAIN w.out : Quiet(w.out[t])
    BY <1>2 DEF InboxOK, Quiet
  <1>5. sent' = sent \o w.out
    BY <1>1 DEF SendAll
  <1> QED BY <1>1, <1>3, <1>4, <1>5, UploadInvQuiet

LEMMA UploadInvStep == HubInv /\ UploadInv /\ AnswerState /\ [Next]_vars => UploadInv'
  <1> SUFFICES ASSUME HubInv, UploadInv, AnswerState, [Next]_vars PROVE UploadInv'
    OBVIOUS
  <1> HubTypeOK
    BY DEF HubInv
  <1>0. calls' = calls => SameUploads
    BY DEF SameUploads
  <1>1. CASE QueueStep
    BY <1>0, <1>1, HubInvQueue, UploadInvSame DEF QueueStep, LoopStep, hvars
  <1>2. CASE Continuation
    BY <1>2, UploadInvContinuation DEF Continuation
  <1>3. CASE Page
    <2>1. CASE \E call \in page.calls : Call(call.kind, call.args)
      BY <2>1, CallAdds, UploadInvCall
    <2>2. CASE \E k \in DOMAIN calls : Dispose(k)
      BY <2>2, UploadInvContinuation
    <2>3. CASE \E k \in DOMAIN calls : \E s \in calls[k].live, type \in {"StreamItem", "Completion"} :
                   Emit(k, s, type)
      BY <2>3, UploadInvEmit
    <2>4. CASE (\E h : On(h)) \/ (\E r : Off(r))
      BY <1>0, <2>4, MethodsChange, UploadInvSame DEF qvars
    <2> QED BY <1>3, <2>1, <2>2, <2>3, <2>4, Zenon DEF Page
  <1>4. CASE HandlerRuns
    BY <1>4, UploadInvHandler DEF HandlerRuns
  <1>5. CASE \E n \in 1..MaxChunk : Receive(n)
    BY <1>5, UploadInvReceive
  <1>6. CASE Close
    <2>1. SameUploads
      BY <1>6, CloseChanges DEF SameUploads
    <2> QED BY <1>6, <2>1, UploadInvSame DEF Close, StopQueue
  <1>7. CASE ServerAnswers \/ ServerInvokes \/ ServerSendsOther
    <2>1. PICK m \in ServerMessages : Reply(m)
      BY <1>7, ServerReplies
    <2> QED BY <1>0, <2>1, UploadInvSame DEF Reply, qvars
  <1>8. CASE UNCHANGED vars
    BY <1>0, <1>8, UploadInvSame DEF vars, hvars, qvars
  <1> QED BY <1>1, <1>2, <1>3, <1>4, <1>5, <1>6, <1>7, <1>8 DEF Next

\* A completion of an id of the server
IsAnswer(m) == m.type = "Completion" /\ m.id < 0

\* Sends that answer nothing
LEMMA AnswerStateSends ==
    ASSUME HubTypeOK, AnswerState, NEW ms \in Seq(ClientMessages), \A t \in DOMAIN ms : ~IsAnswer(ms[t]),
           sent' = sent \o ms, UNCHANGED <<invocations, served, delivered>>
    PROVE  AnswerState'
  <1>1. sent \in Seq(ClientMessages)
    BY DEF HubTypeOK
  <1>2. /\ \A t \in DOMAIN sent : t \in DOMAIN sent' /\ sent'[t] = sent[t]
        /\ \A t \in DOMAIN sent' : t \in DOMAIN sent \/ ~IsAnswer(sent'[t])
    BY <1>1, SentGrows
  <1>3. /\ \A t \in DOMAIN sent : IsAnswer(sent[t]) =>
               \E i \in DOMAIN invocations : invocations[i].id = sent[t].id /\ invocations[i].left = << >>
        /\ \A t, u \in DOMAIN sent : t # u /\ IsAnswer(sent[t]) => sent[t] # sent[u]
    BY DEF AnswerState, AnswerInv, IsAnswer
  <1>4. /\ \A t \in DOMAIN sent' : IsAnswer(sent'[t]) =>
               \E i \in DOMAIN invocations : invocations[i].id = sent'[t].id /\ invocations[i].left = << >>
        /\ \A t, u \in DOMAIN sent' : t # u /\ IsAnswer(sent'[t]) => sent'[t] # sent'[u]
    BY <1>2, <1>3
  <1>5. /\ \A t \in DOMAIN sent' : sent'[t].type = "Completion" /\ sent'[t].id < 0 =>
               \E i \in DOMAIN invocations : invocations[i].id = sent'[t].id /\ invocations[i].left = << >>
        /\ \A t, u \in DOMAIN sent' : t # u /\ sent'[t].type = "Completion" /\ sent'[t].id < 0 =>
               sent'[t] # sent'[u]
    BY <1>4 DEF IsAnswer
  <1> QED BY <1>5 DEF AnswerState, AnswerInv, ServerIds

LEMMA AnswerStateSame ==
    ASSUME AnswerState, UNCHANGED <<sent, invocations, served, delivered>>
    PROVE  AnswerState'
  BY DEF AnswerState, AnswerInv, ServerIds

LEMMA AnswerStateTransmits ==
    ASSUME HubTypeOK, AnswerState, NEW m \in ClientMessages, ~IsAnswer(m),
           UNCHANGED qvars \/ SendAll(<<m>>), UNCHANGED <<invocations, served, delivered>>
    PROVE  AnswerState'
  <1>1. <<m>> \in Seq(ClientMessages) /\ \A t \in DOMAIN <<m>> : ~IsAnswer(<<m>>[t])
    OBVIOUS
  <1>2. sent' = sent \/ sent' = sent \o <<m>>
    BY DEF SendAll, qvars
  <1> QED BY <1>1, <1>2, AnswerStateSends, AnswerStateSame

\* The calls of the client answer no invocation.
LEMMA AnswerStateCalls ==
    ASSUME HubTypeOK, UploadInv, AnswerState, NEW k \in DOMAIN calls,
           SendCaught(k) \/ SendSettles(k) \/ SendCancel(k) \/ ChainRuns(k) \/ Dispose(k)
    PROVE  AnswerState'
  <1>1. CASE SendCaught(k) \/ SendSettles(k) \/ Dispose(k)
    BY <1>1, AnswerStateSame DEF SendCaught, SendSettles, Dispose, UnchangedButCalls, qvars
  <1>2. CASE SendCancel(k)
    <2> DEFINE m == Message("CancelInvocation", calls[k].id, << >>)
    <2>1. Transmit(m) /\ UNCHANGED <<invocations, served, delivered>>
      BY <1>2 DEF SendCancel, UnchangedButCalls
    <2>2. calls[k].id \in Int
      BY CallTyped DEF CallRecords
    <2>3. m \in ClientMessages /\ m.type = "CancelInvocation"
      BY <2>2, CancelIsQuiet
    <2> HIDE DEF m
    <2>4. ~IsAnswer(m)
      BY <2>3 DEF IsAnswer
    <2> QED BY <2>1, <2>3, <2>4, AnswerStateTransmits DEF Transmit
  <1>3. CASE ChainRuns(k)
    <2> DEFINE h == calls[k].chain[1]
    <2>1. /\ calls[k].chain # << >> /\ calls[k].chain \in Seq(ClientMessages)
          /\ Head(calls[k].chain) = h \/ UNCHANGED qvars
          /\ UNCHANGED qvars \/ Transmit(Head(calls[k].chain))
      BY <1>3, ChainRunsChanges
    <2>2. UNCHANGED <<invocations, served, delivered>>
      BY <1>3 DEF ChainRuns, UnchangedButCalls
    <2>3. h \in ClientMessages /\ 1 \in DOMAIN calls[k].chain
      BY <2>1
    <2>4. h.id \in Nat
      BY <2>3, StreamsTyped DEF UploadInv
    <2> HIDE DEF h
    <2>5. ~IsAnswer(h)
      BY <2>4 DEF IsAnswer
    <2>6. UNCHANGED qvars \/ SendAll(<<h>>)
      BY <2>1 DEF Transmit
    <2> QED BY <2>2, <2>3, <2>5, <2>6, AnswerStateTransmits
  <1> QED BY <1>1, <1>2, <1>3

LEMMA AnswerStateNewCall ==
    ASSUME HubTypeOK, AnswerState, NEW c, NewCall(c), UNCHANGED <<invocations, served, delivered>>
    PROVE  AnswerState'
  <1>1. CASE UNCHANGED qvars
    BY <1>1, AnswerStateSame DEF qvars
  <1>2. CASE \E m \in ClientMessages : SendAll(<<m>>) /\ m.type \in {"Invocation", "StreamInvocation"}
    <2>1. PICK m \in ClientMessages : SendAll(<<m>>) /\ m.type \in {"Invocation", "StreamInvocation"}
      BY <1>2
    <2>2. ~IsAnswer(m)
      BY <2>1 DEF IsAnswer
    <2> QED BY <2>1, <2>2, AnswerStateTransmits
  <1> QED BY <1>1, <1>2 DEF NewCall

LEMMA AnswerStateReceive ==
    ASSUME HubTypeOK, AnswerState, NEW n \in 1..MaxChunk, Receive(n)
    PROVE  AnswerState'
  <1> DEFINE w == DispatchAll(MessagesOf(n))
  <1>1. /\ n \in 1..Len(served) - delivered /\ invocations' = w.invocations /\ SendAll(w.out)
        /\ delivered' = delivered + n /\ served' = served
    BY Receives
  <1>2. AnswerInv(sent \o w.out, w.invocations, delivered + n)
    BY <1>1, ReceiveDispatches DEF AnswerState
  <1> HIDE DEF w
  <1>3. sent' = sent \o w.out
    BY <1>1 DEF SendAll
  <1>4. AnswerInv(sent', invocations', delivered')
    BY <1>1, <1>2, <1>3
  <1>5. ServerIds'
    BY <1>1 DEF AnswerState, ServerIds
  <1> QED BY <1>4, <1>5 DEF AnswerState, AnswerInv

LEMMA AnswerStateReply ==
    ASSUME HubTypeOK, AnswerState, NEW m, Reply(m),
           m.type = "Invocation" => m.id \in {0, -1 - Len(served)}
    PROVE  AnswerState'
  <1>1. /\ UNCHANGED <<sent, invocations, delivered>> /\ served' = Append(served, m)
    BY DEF Reply, qvars
  <1>2. IsSequence(served)
    BY DEF HubTypeOK
  <1>3. /\ DOMAIN served' = 1..Len(served) + 1 /\ Len(served) \in Nat
        /\ served'[Len(served) + 1] = m /\ \A i \in 1..Len(served) : served'[i] = served[i]
    BY <1>1, <1>2, AppendedSequence
  <1>4. Len(served') = Len(served) + 1
    BY <1>1, <1>2 DEF IsSequence
  <1>5. ServerIds'
    <2> SUFFICES ASSUME NEW i \in 2..Len(served'), served'[i].type = "Invocation"
                 PROVE  served'[i].id \in {0, -i}
      BY DEF ServerIds
    <2>1. CASE i = Len(served) + 1
      <3>1. m.id \in {0, -1 - Len(served)} /\ -1 - Len(served) = -i
        BY <1>3, <2>1
      <3> QED BY <1>3, <2>1, <3>1
    <2>2. CASE i \in 2..Len(served)
      BY <1>3, <2>2 DEF AnswerState, ServerIds
    <2> QED BY <1>3, <1>4, <2>1, <2>2
  <1>6. AnswerInv(sent, invocations, delivered)'
    BY <1>1 DEF AnswerState, AnswerInv
  <1> QED BY <1>5, <1>6 DEF AnswerState

\* Its last handler answers an invocation once; nothing before has answered it.
LEMMA AnswerStateHandler ==
    ASSUME HubTypeOK, AnswerState, NEW i \in DOMAIN invocations, NEW result, HandlerReturns(i, result)
    PROVE  AnswerState'
  <1> DEFINE v == invocations[i]
             vs == invocations'
  <1>1. PICK u, answers :
            /\ Returned(v, u, answers)
            /\ Became(i, u)
            /\ IF open THEN SendAll([a \in DOMAIN answers |-> Message("Completion", u.id, << >>)])
                       ELSE UNCHANGED qvars
    BY HandlerReturned
  <1> DEFINE m == Message("Completion", u.id, << >>)
             ms == [a \in DOMAIN answers |-> m]
  <1>2. /\ DOMAIN vs = DOMAIN invocations /\ vs[i] = u
        /\ \A j \in DOMAIN invocations : j # i => vs[j] = invocations[j]
        /\ ms \in Seq(ClientMessages)
    <2>1. Returned(invocations[i], u, answers) /\ Became(i, u)
      BY <1>1
    <2> QED BY <2>1, ReturnedTyped, Zenon
  <1>3. /\ u.id = v.id /\ v.left # << >> /\ answers \in Seq({"error", "result"})
        /\ u.answers = v.answers \o answers /\ (u.several => v.several \/ v.id # 0)
        /\ Len(answers) = IF u.left = << >> /\ (u.several \/ v.id # 0) THEN 1 ELSE 0
    BY <1>1 DEF Returned
  <1>4. /\ \A j \in DOMAIN invocations : invocations[j].id \in -delivered..0
        /\ \A j, l \in DOMAIN invocations :
               j # l /\ invocations[j].id # 0 => invocations[j].id # invocations[l].id
        /\ \A j \in DOMAIN invocations : Len(invocations[j].answers) =
               IF invocations[j].id # 0 /\ invocations[j].left = << >> THEN 1 ELSE 0
        /\ \A j \in DOMAIN invocations : invocations[j].several => invocations[j].id # 0
        /\ \A t \in DOMAIN sent : IsAnswer(sent[t]) => \E j \in DOMAIN invocations :
               invocations[j].id = sent[t].id /\ invocations[j].left = << >>
        /\ \A t, s \in DOMAIN sent : t # s /\ IsAnswer(sent[t]) => sent[t] # sent[s]
    BY DEF AnswerState, AnswerInv, IsAnswer
  <1>5. /\ v.id \in -delivered..0 /\ Len(v.answers) = 0 /\ (v.several => v.id # 0)
        /\ v.answers \in Seq({"error", "result"})
    BY <1>3, <1>4 DEF HubTypeOK, IsInvocation
  <1>6. delivered \in Nat /\ sent \in Seq(ClientMessages) /\ UNCHANGED <<served, delivered>>
    BY ServedTokens DEF HandlerReturns, HubTypeOK
  <1> HIDE DEF v, vs, m
  <1>7. /\ Len(u.answers) = IF u.id # 0 /\ u.left = << >> THEN 1 ELSE 0
        /\ u.several => u.id # 0
    <2>1. Len(u.answers) = Len(v.answers) + Len(answers)
      BY <1>3, <1>5, SMTT(30)
    <2> QED BY <1>3, <1>5, <2>1
  <1>8. /\ m.type = "Completion" /\ m.id = u.id
        /\ \A a \in DOMAIN ms : a = 1 /\ u.left = << >> /\ u.id < 0
        /\ DOMAIN ms = DOMAIN answers
    <2>1. \A a \in DOMAIN answers : a = 1 /\ Len(answers) = 1
      BY <1>3
    <2>2. Len(answers) = 1 => u.left = << >> /\ u.id # 0
      <3>1. Len(answers) = 1 => u.left = << >> /\ (u.several \/ v.id # 0)
        BY <1>3
      <3> QED BY <1>3, <1>5, <3>1, Zenon
    <2>3. u.id # 0 => u.id < 0
      <3>1. u.id \in -delivered..0
        BY <1>3, <1>5
      <3> QED BY <1>6, <3>1
    <2> QED BY <2>1, <2>2, <2>3 DEF m, Message
  <1>9. sent' = sent \/ sent' = sent \o ms
    BY <1>1 DEF SendAll, qvars, m
  <1>10. /\ \A t \in DOMAIN sent : t \in DOMAIN sent' /\ sent'[t] = sent[t]
         /\ \A t \in DOMAIN sent' : \/ t \in DOMAIN sent
                                    \/ /\ t = Len(sent) + 1 /\ sent'[t] = m
                                       /\ u.left = << >> /\ u.id < 0
    <2>1. CASE sent' = sent
      BY <2>1
    <2>2. CASE sent' = sent \o ms
      <3>1. \A t \in DOMAIN sent' : \/ t \in DOMAIN sent
                                    \/ /\ t > Len(sent) /\ t - Len(sent) \in DOMAIN ms
                                       /\ sent'[t] = ms[t - Len(sent)] /\ t \in Nat
        <4> HIDE DEF ms
        <4> QED BY <1>2, <1>6, <2>2, SentGrows
      <3>2. \A t \in DOMAIN sent : t \in DOMAIN sent' /\ sent'[t] = sent[t]
        <4> HIDE DEF ms
        <4> QED BY <1>2, <1>6, <2>2, SentGrows
      <3>3. Len(sent) \in Nat
        BY <1>6
      <3> QED BY <1>8, <3>1, <3>2, <3>3
    <2> QED BY <1>9, <2>1, <2>2
  <1> HIDE DEF ms
  <1>11. /\ \A j \in DOMAIN vs : vs[j].id = invocations[j].id
         /\ \A j \in DOMAIN vs : j = i \/ vs[j] = invocations[j]
    BY <1>2, <1>3 DEF v
  <1>12. /\ \A j \in DOMAIN vs : vs[j].id \in -delivered..0
         /\ \A j, l \in DOMAIN vs : j # l /\ vs[j].id # 0 => vs[j].id # vs[l].id
    BY <1>2, <1>4, <1>11
  <1>13. /\ \A j \in DOMAIN vs : Len(vs[j].answers) = IF vs[j].id # 0 /\ vs[j].left = << >> THEN 1 ELSE 0
         /\ \A j \in DOMAIN vs : vs[j].several => vs[j].id # 0
    <2> SUFFICES ASSUME NEW j \in DOMAIN vs
                 PROVE  /\ Len(vs[j].answers) = IF vs[j].id # 0 /\ vs[j].left = << >> THEN 1 ELSE 0
                        /\ vs[j].several => vs[j].id # 0
      OBVIOUS
    <2>1. CASE j = i
      BY <1>2, <1>7, <2>1
    <2>2. CASE j # i
      BY <1>2, <1>4, <2>2
    <2> QED BY <2>1, <2>2
  <1>14. \A t \in DOMAIN sent : IsAnswer(sent[t]) =>
             \E j \in DOMAIN vs : j # i /\ vs[j].id = sent[t].id /\ vs[j].left = << >>
    <2> SUFFICES ASSUME NEW t \in DOMAIN sent, IsAnswer(sent[t])
                 PROVE  \E j \in DOMAIN vs : j # i /\ vs[j].id = sent[t].id /\ vs[j].left = << >>
      OBVIOUS
    <2>1. PICK j \in DOMAIN invocations : invocations[j].id = sent[t].id /\ invocations[j].left = << >>
      BY <1>4
    <2>2. j # i
      BY <1>3, <2>1 DEF v
    <2> QED BY <1>2, <2>1, <2>2
  <1>15. \A t \in DOMAIN sent' : IsAnswer(sent'[t]) =>
             \E j \in DOMAIN vs : vs[j].id = sent'[t].id /\ vs[j].left = << >>
    BY <1>2, <1>8, <1>10, <1>14
  <1>16. \A t, s \in DOMAIN sent' : t # s /\ IsAnswer(sent'[t]) => sent'[t] # sent'[s]
    <2>1. ASSUME NEW t \in DOMAIN sent, IsAnswer(sent[t]), u.id < 0 PROVE sent[t] # m
      <3>1. PICK j \in DOMAIN vs : j # i /\ vs[j].id = sent[t].id
        BY <1>14, <2>1
      <3>2. vs[j].id # u.id
        BY <1>2, <1>12, <2>1, <3>1
      <3> QED BY <1>8, <3>1, <3>2
    <2> SUFFICES ASSUME NEW t \in DOMAIN sent', NEW s \in DOMAIN sent', t # s, IsAnswer(sent'[t]),
                        sent'[t] = sent'[s]
                 PROVE  FALSE
      OBVIOUS
    <2>2. CASE t \in DOMAIN sent /\ s \in DOMAIN sent
      BY <1>4, <1>10, <2>2
    <2>3. CASE t \in DOMAIN sent /\ s \notin DOMAIN sent
      BY <1>10, <2>1, <2>3
    <2>4. CASE t \notin DOMAIN sent /\ s \in DOMAIN sent
      BY <1>10, <2>1, <2>4
    <2>5. CASE t \notin DOMAIN sent /\ s \notin DOMAIN sent
      BY <1>10, <2>5
    <2> QED BY <2>2, <2>3, <2>4, <2>5
  <1>17. AnswerInv(sent, invocations, delivered)'
    BY <1>6, <1>12, <1>13, <1>15, <1>16 DEF AnswerInv, IsAnswer, vs
  <1>18. ServerIds'
    BY <1>6 DEF AnswerState, ServerIds
  <1> QED BY <1>17, <1>18 DEF AnswerState

LEMMA AnswerStateStep == HubInv /\ UploadInv /\ AnswerState /\ [Next]_vars => AnswerState'
  <1> SUFFICES ASSUME HubInv, UploadInv, AnswerState, [Next]_vars PROVE AnswerState'
    OBVIOUS
  <1> HubTypeOK
    BY DEF HubInv
  <1>1. CASE QueueStep
    BY <1>1, HubInvQueue, AnswerStateSame DEF QueueStep, LoopStep, hvars
  <1>2. CASE Continuation
    BY <1>2, AnswerStateCalls DEF Continuation
  <1>3. CASE Page
    <2>1. CASE \E call \in page.calls : Call(call.kind, call.args)
      <3>1. (\E c : NewCall(c)) /\ UNCHANGED <<invocations, served, delivered>>
        BY <2>1, CallAdds DEF Call
      <3> QED BY <3>1, AnswerStateNewCall
    <2>2. CASE \E k \in DOMAIN calls : Dispose(k)
      BY <2>2, AnswerStateCalls
    <2>3. CASE \E k \in DOMAIN calls : \E s \in calls[k].live, type \in {"StreamItem", "Completion"} :
                   Emit(k, s, type)
      BY <2>3, AnswerStateSame DEF Emit, UnchangedButCalls, qvars
    <2>4. CASE (\E h : On(h)) \/ (\E r : Off(r))
      BY <2>4, MethodsChange, AnswerStateSame DEF qvars
    <2> QED BY <1>3, <2>1, <2>2, <2>3, <2>4, Zenon DEF Page
  <1>4. CASE HandlerRuns
    BY <1>4, AnswerStateHandler DEF HandlerRuns
  <1>5. CASE \E n \in 1..MaxChunk : Receive(n)
    BY <1>5, AnswerStateReceive
  <1>6. CASE Close
    BY <1>6, AnswerStateSame DEF Close, StopQueue
  <1>7. CASE ServerAnswers \/ ServerInvokes \/ ServerSendsOther
    <2>1. PICK m \in ServerMessages :
              Reply(m) /\ (m.type = "Invocation" => m.id \in {0, -1 - Len(served)})
      BY <1>7, ServerReplies
    <2> QED BY <2>1, AnswerStateReply
  <1>8. CASE UNCHANGED vars
    BY <1>8, AnswerStateSame DEF vars, hvars, qvars
  <1> QED BY <1>1, <1>2, <1>3, <1>4, <1>5, <1>6, <1>7, <1>8 DEF Next

LEMMA MessageInvHolds == Spec => [](UploadInv /\ AnswerState)
  <1>1. Init => UploadInv /\ AnswerState
    <2> SUFFICES ASSUME Init PROVE UploadInv /\ AnswerState
      OBVIOUS
    <2>1. sent = << >> /\ calls = << >> /\ invocations = << >> /\ served = <<Handshake>>
      BY DEF Init, QueueInit
    <2>2. DOMAIN << >> = {} /\ Len(<<Handshake>>) = 1
      OBVIOUS
    <2>3. UploadInv
      BY <2>1, <2>2 DEF UploadInv, StreamsOwned, StreamsDrawn, EndsLast, UploadsSentInOrder
    <2>4. ServerIds
      BY <2>1, <2>2 DEF ServerIds
    <2>5. AnswerInv(sent, invocations, delivered)
      BY <2>1, <2>2 DEF AnswerInv
    <2> QED BY <2>3, <2>4, <2>5 DEF AnswerState
  <1> QED BY <1>1, HubInvHolds, UploadInvStep, AnswerStateStep, PTL DEF Spec

\* HubConnection._invokeClientMethod: an invocation that wants an answer gets one, in however many
\* texts it came and however its handlers end; one that wants none gets none.
THEOREM OneAnswerHolds == Spec => []OneAnswer
  <1>1. HubInv /\ AnswerState => OneAnswer
    <2> SUFFICES ASSUME HubInv, AnswerState, NEW i \in DOMAIN invocations
                 PROVE  LET v == invocations[i]
                            completions == {t \in DOMAIN sent : sent[t] = Message("Completion", v.id, << >>)}
                        IN  /\ Len(v.answers) = IF v.id # 0 /\ v.left = << >> THEN 1 ELSE 0
                            /\ v.id # 0 => Cardinality(completions) <= Len(v.answers)
      BY DEF OneAnswer
    <2> DEFINE v == invocations[i]
               m == Message("Completion", v.id, << >>)
               completions == {t \in DOMAIN sent : sent[t] = m}
    <2>1. /\ Len(v.answers) = IF v.id # 0 /\ v.left = << >> THEN 1 ELSE 0
          /\ \A j \in DOMAIN invocations : j # i /\ v.id # 0 => invocations[j].id # v.id
          /\ \A t \in DOMAIN sent : IsAnswer(sent[t]) => \E j \in DOMAIN invocations :
                 invocations[j].id = sent[t].id /\ invocations[j].left = << >>
          /\ \A t, s \in DOMAIN sent : t # s /\ IsAnswer(sent[t]) => sent[t] # sent[s]
      BY DEF AnswerState, AnswerInv, IsAnswer
    <2>2. v.id \in Int /\ v.id <= 0
      BY DEF HubInv, HubTypeOK, IsInvocation
    <2>3. v.id # 0 => IsAnswer(m) /\ m.id = v.id
      BY <2>2 DEF IsAnswer, Message
    <2> HIDE DEF m
    <2>4. ASSUME v.id # 0 PROVE Cardinality(completions) <= Len(v.answers)
      <3>1. CASE completions = {}
        <4>1. Cardinality(completions) = 0
          BY <3>1, FS_EmptySet
        <4>2. Len(v.answers) \in {0, 1}
          BY <2>1
        <4> QED BY <4>1, <4>2
      <3>2. CASE completions # {}
        <4>1. PICK t \in DOMAIN sent : sent[t] = m
          BY <3>2
        <4>2. completions = {t}
          BY <2>1, <2>3, <2>4, <4>1
        <4>3. Cardinality(completions) = 1
          BY <4>2, FS_Singleton
        <4>4. PICK j \in DOMAIN invocations : invocations[j].id = v.id /\ invocations[j].left = << >>
          BY <2>1, <2>3, <2>4, <4>1
        <4>5. v.left = << >>
          BY <2>1, <2>4, <4>4
        <4>6. Len(v.answers) = 1
          BY <2>1, <2>4, <4>5
        <4> QED BY <4>3, <4>6
      <3> QED BY <3>1, <3>2
    <2> QED BY <2>1, <2>4 DEF m
  <1> QED BY <1>1, HubInvHolds, MessageInvHolds, PTL

\* HubConnection._launchStreams: the server gets the announcement of a stream, its items and its
\* end in this order, whatever sends fail in between.
THEOREM UploadsInOrderHolds == Spec => []UploadsInOrder
  <1>1. HubInv /\ UploadInv => UploadsInOrder
    <2> SUFFICES ASSUME HubInv, UploadInv, NEW i \in DOMAIN wire, NEW j \in DOMAIN wire
                 PROVE  LET m == sent[wire[i]]
                            n == sent[wire[j]]
                        IN  /\ n.type \in {"StreamItem", "Completion"} /\ n.id \in Tickets(m.streams) => i < j
                            /\ m.type = "StreamItem" /\ n = Message("Completion", m.id, << >>) => i < j
      BY DEF UploadsInOrder
    <2>1. QueueTypeOK /\ InOrder /\ Issued(wire) /\ sent \in Seq(ClientMessages) /\ UploadsSentInOrder(sent)
      BY DEF HubInv, QueueInv, HubTypeOK, UploadInv
    <2>2. /\ wire[i] \in DOMAIN sent /\ wire[j] \in DOMAIN sent /\ i \in Nat /\ j \in Nat
          /\ wire[i] \in Nat /\ wire[j] \in Nat
      <3>1. wire[i] \in Tickets(wire) /\ wire[j] \in Tickets(wire) /\ DOMAIN promise = DOMAIN sent
        BY <2>1 DEF Tickets, QueueTypeOK
      <3> QED BY <2>1, <3>1, SMTT(30) DEF QueueTypeOK, Issued
    <2>3. wire[i] < wire[j] => i < j
      BY <2>1, <2>2 DEF InOrder, Increasing
    <2> DEFINE m == sent[wire[i]]
               n == sent[wire[j]]
    <2>3a. \A t \in DOMAIN sent : sent[t] \in ClientMessages
      BY <2>1
    <2>3b. \A c \in ClientMessages : c.id \in Int /\ c.streams \in Seq(Nat)
      BY DEF ClientMessages
    <2>4. n.id \in Int /\ m.streams \in Seq(Nat)
      BY <2>2, <2>3a, <2>3b
    <2>5. Tickets(m.streams) \subseteq Nat
      BY <2>4 DEF Tickets
    <2>6. ASSUME n.type \in {"StreamItem", "Completion"}, n.id \in Tickets(m.streams) PROVE i < j
      <3>1. IsUpload(n)
        BY <2>5, <2>6 DEF IsUpload
      <3>2. wire[i] < wire[j]
        BY <2>1, <2>2, <2>6, <3>1 DEF UploadsSentInOrder
      <3> QED BY <2>3, <3>2
    <2>7. ASSUME m.type = "StreamItem", n = Message("Completion", m.id, << >>) PROVE i < j
      <3>1. n.type = "Completion" /\ n.id = m.id
        BY <2>7 DEF Message
      <3>2. wire[i] < wire[j]
        BY <2>1, <2>2, <2>7, <3>1 DEF UploadsSentInOrder
      <3> QED BY <2>3, <3>2
    <2> QED BY <2>6, <2>7
  <1> QED BY <1>1, HubInvHolds, MessageInvHolds, PTL

LEMMA SubSeqSplits ==
    ASSUME NEW S, NEW s \in Seq(S), NEW a \in Nat, NEW b \in Nat, NEW c \in Nat,
           1 <= a, a <= b + 1, b <= c, c <= Len(s)
    PROVE  /\ SubSeq(s, a, b) \in Seq(S) /\ SubSeq(s, b + 1, c) \in Seq(S)
           /\ SubSeq(s, a, c) = SubSeq(s, a, b) \o SubSeq(s, b + 1, c)
  <1> DEFINE x == SubSeq(s, a, b)
             y == SubSeq(s, b + 1, c)
             z == SubSeq(s, a, c)
             d == b - a + 1
             e == c - b
  <1>1. d \in Nat /\ e \in Nat
    OBVIOUS
  <1>2. x \in Seq(S) /\ Len(x) = d /\ \A i \in 1..d : x[i] = s[i + a - 1]
    OBVIOUS
  <1>3. y \in Seq(S) /\ Len(y) = e /\ \A i \in 1..e : y[i] = s[i + b]
    OBVIOUS
  <1>4. z \in Seq(S) /\ Len(z) = d + e /\ \A i \in 1..d + e : z[i] = s[i + a - 1]
    OBVIOUS
  <1>5. \A i \in d + 1..d + e : i - d \in 1..e /\ i - d + b = i + a - 1
    OBVIOUS
  <1> HIDE DEF x, y, z, d, e
  <1>6. \A i \in 1..d + e : z[i] = IF i <= d THEN x[i] ELSE y[i - d]
    <2> SUFFICES ASSUME NEW i \in 1..d + e PROVE z[i] = IF i <= d THEN x[i] ELSE y[i - d]
      OBVIOUS
    <2>0. z[i] = s[i + a - 1]
      BY <1>4
    <2>1. CASE i <= d
      <3>1. i \in 1..d
        BY <1>1, <2>1
      <3>2. x[i] = s[i + a - 1]
        BY <1>2, <3>1
      <3> QED BY <2>0, <2>1, <3>2
    <2>2. CASE i > d
      <3>1. i \in d + 1..d + e
        BY <1>1, <2>2
      <3>2. y[i - d] = s[i + a - 1]
        BY <1>3, <1>5, <3>1
      <3> QED BY <1>1, <2>0, <2>2, <3>2
    <2> QED BY <1>1, <2>1, <2>2
  <1>7. z = x \o y
    <2>1. /\ x \o y \in Seq(S) /\ Len(x \o y) = d + e
          /\ \A i \in 1..d + e : (x \o y)[i] = IF i <= d THEN x[i] ELSE y[i - d]
      BY <1>2, <1>3, ConcatProperties
    <2>2. \A i \in 1..d + e : (x \o y)[i] = z[i]
      BY <1>6, <2>1
    <2> HIDE DEF x, y, z, d, e
    <2>3. \A u, v \in Seq(S) : Len(u) = Len(v) /\ (\A i \in 1..Len(u) : u[i] = v[i]) => u = v
      OBVIOUS
    <2> QED BY <1>4, <2>1, <2>2, <2>3, Zenon
  <1> QED BY <1>2, <1>3, <1>7 DEF x, y, z

\* The messages that came before and the ones of a text are what was served up to its end.
LEMMA ServedSplits ==
    ASSUME HubTypeOK, NEW n \in 1..Len(served) - delivered
    PROVE  /\ SubSeq(served, 2, delivered) \in Seq(Tokens) /\ SubSeq(served, FirstOf, delivered + n) \in Seq(Tokens)
           /\ SubSeq(served, 2, delivered + n) =
                  SubSeq(served, 2, delivered) \o SubSeq(served, FirstOf, delivered + n)
  <1>1. /\ served \in Seq(Tokens) /\ Len(served) \in Nat /\ delivered \in Nat /\ delivered + n <= Len(served)
        /\ n \in Nat /\ n >= 1 /\ delivered + n \in Nat
    BY ServedTokens
  <1>2. CASE received
    <2>1. FirstOf = delivered + 1 /\ delivered >= 1
      BY <1>1, <1>2 DEF FirstOf, HubTypeOK
    <2>2. /\ SubSeq(served, 2, delivered) \in Seq(Tokens)
          /\ SubSeq(served, delivered + 1, delivered + n) \in Seq(Tokens)
          /\ SubSeq(served, 2, delivered + n) =
                 SubSeq(served, 2, delivered) \o SubSeq(served, delivered + 1, delivered + n)
      BY <1>1, <2>1, SubSeqSplits
    <2> QED BY <2>1, <2>2
  <1>3. CASE ~received
    <2>1. FirstOf = 2 /\ delivered = 0
      BY <1>1, <1>3 DEF FirstOf, HubTypeOK
    <2>2. /\ SubSeq(served, 2, 1) \in Seq(Tokens) /\ SubSeq(served, 2, delivered + n) \in Seq(Tokens)
      BY <1>1
    <2>3. SubSeq(served, 2, delivered) = << >>
      BY <1>1, <2>1
    <2>4. \A s \in Seq(Tokens) : << >> \in Seq(Tokens) /\ << >> \o s = s
      OBVIOUS
    <2> QED BY <2>1, <2>2, <2>3, <2>4, Zenon
  <1> QED BY <1>2, <1>3

LEMMA DispatchedReceive ==
    ASSUME HubTypeOK, DispatchedInOrder, NEW n \in 1..MaxChunk, Receive(n)
    PROVE  DispatchedInOrder'
  <1> DEFINE before == SubSeq(served, 2, delivered)
             part == SubSeq(served, FirstOf, delivered + n)
  <1>1. /\ n \in 1..Len(served) - delivered /\ dispatched' = dispatched \o MessagesOf(n)
        /\ served' = served /\ delivered' = delivered + n
    BY Receives
  <1>2. dispatched = OfType(before, KnownTypes)
    BY DEF DispatchedInOrder, KnownTypes
  <1>3. MessagesOf(n) = OfType(part, KnownTypes)
    BY <1>1, MessagesOfText
  <1>4. /\ before \in Seq(Tokens) /\ part \in Seq(Tokens)
        /\ SubSeq(served', 2, delivered') = before \o part
    BY <1>1, ServedSplits
  <1> HIDE DEF before, part
  <1>5. OfType(before \o part, KnownTypes) = OfType(before, KnownTypes) \o OfType(part, KnownTypes)
    BY <1>4, OfTypeConcat
  <1>6. dispatched' = OfType(SubSeq(served', 2, delivered'), KnownTypes)
    BY <1>1, <1>2, <1>3, <1>4, <1>5
  <1> QED BY <1>6, Zenon DEF DispatchedInOrder, KnownTypes

LEMMA DispatchedReply ==
    ASSUME HubTypeOK, DispatchedInOrder, NEW m \in ServerMessages, Reply(m)
    PROVE  DispatchedInOrder'
  <1>1. /\ served' = Append(served, m) /\ delivered' = delivered /\ dispatched' = dispatched
    BY DEF Reply
  <1>2. /\ served \in Seq(Tokens) /\ Len(served) \in Nat /\ delivered \in Nat /\ delivered <= Len(served)
    BY ServedTokens
  <1>2a. served \in Seq(Tokens \cup {m}) /\ m \in Tokens \cup {m}
    BY <1>2
  <1>3. SubSeq(Append(served, m), 2, delivered) = SubSeq(served, 2, delivered)
    BY <1>2, <1>2a
  <1> QED BY <1>1, <1>3, Zenon DEF DispatchedInOrder

LEMMA DispatchedSame ==
    ASSUME DispatchedInOrder, UNCHANGED <<served, delivered, dispatched>>
    PROVE  DispatchedInOrder'
  BY Zenon DEF DispatchedInOrder

\* HubConnection._processIncomingData: however the transport cuts what the server sends into texts,
\* every message of a known type is dispatched once and in order.
THEOREM DispatchedInOrderHolds == Spec => []DispatchedInOrder
  <1>1. Init => DispatchedInOrder
    <2> SUFFICES ASSUME Init PROVE DispatchedInOrder
      OBVIOUS
    <2>1. served = <<Handshake>> /\ delivered = 0 /\ dispatched = << >>
      BY DEF Init
    <2>2. SubSeq(<<Handshake>>, 2, 0) = << >>
      OBVIOUS
    <2> QED BY <2>1, <2>2, OfTypeEmpty DEF DispatchedInOrder
  <1>2. HubInv /\ DispatchedInOrder /\ [Next]_vars => DispatchedInOrder'
    <2> SUFFICES ASSUME HubInv, DispatchedInOrder, [Next]_vars PROVE DispatchedInOrder'
      OBVIOUS
    <2> HubTypeOK
      BY DEF HubInv
    <2>1. CASE QueueStep
      BY <2>1, DispatchedSame DEF QueueStep, LoopStep, hvars
    <2>2. CASE Continuation
      <3>1. UNCHANGED <<served, delivered, dispatched>>
        BY <2>2 DEF Continuation, SendCaught, SendSettles, SendCancel, ChainRuns, UnchangedButCalls
      <3> QED BY <3>1, DispatchedSame
    <2>3. CASE Page
      <3>1. CASE \E call \in page.calls : Call(call.kind, call.args)
        BY <3>1, DispatchedSame DEF Call
      <3>2. CASE \E k \in DOMAIN calls : Dispose(k)
        BY <3>2, DispatchedSame DEF Dispose, UnchangedButCalls
      <3>3. CASE \E k \in DOMAIN calls : \E s \in calls[k].live, type \in {"StreamItem", "Completion"} :
                     Emit(k, s, type)
        BY <3>3, DispatchedSame DEF Emit, UnchangedButCalls
      <3>4. CASE (\E h : On(h)) \/ (\E r : Off(r))
        BY <3>4, MethodsChange, DispatchedSame
      <3> QED BY <2>3, <3>1, <3>2, <3>3, <3>4, Zenon DEF Page
    <2>4. CASE HandlerRuns
      BY <2>4, DispatchedSame DEF HandlerRuns, HandlerReturns
    <2>5. CASE \E n \in 1..MaxChunk : Receive(n)
      BY <2>5, DispatchedReceive
    <2>6. CASE Close
      BY <2>6, DispatchedSame DEF Close
    <2>7. CASE ServerAnswers \/ ServerInvokes \/ ServerSendsOther
      BY <2>7, ServerReplies, DispatchedReply
    <2>8. CASE UNCHANGED vars
      BY <2>8, DispatchedSame DEF vars, hvars
    <2> QED BY <2>1, <2>2, <2>3, <2>4, <2>5, <2>6, <2>7, <2>8 DEF Next
  <1> QED BY <1>1, <1>2, HubInvHolds, PTL DEF Spec
=============================================================================
