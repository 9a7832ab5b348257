------------------------ MODULE DeviceTrackingProofs ------------------------
(* Proofs about DeviceTracking, for any users, devices, queries and bounds. *)
EXTENDS DeviceTracking, TLAPS

\* What is inductive: the state is well formed, and both the stored lists and the
\* answers on their way are current unless a notice is to come or was missed.
IInv == TypeOK /\ CurrentUnlessMissed /\ AnswersCurrent

\* The stored device after an answer is well formed and keeps its identity key.
LEMMA UpdateKeeps ==
  ASSUME NEW s \in Stored, NEW e \in Entry \cup {Absent}
  PROVE  /\ Update(s, e) \in Stored
         /\ Known(s) => Update(s, e).ed = s.ed
PROOF
<1>1. CASE s = Nothing
  BY <1>1, KeysAssumption DEF Update, Stored, Nothing, Entry, Absent, Known
<1>2. CASE s # Nothing
  BY <1>2, KeysAssumption DEF Update, Stored, Nothing, Entry, Absent, Known
<1> QED BY <1>1, <1>2

\* The stored device after an answer matches the entry of the answer.
LEMMA UpdateMatches ==
  ASSUME NEW s \in Stored, NEW e \in Entry \cup {Absent}
  PROVE  /\ e = Absent => (Known(Update(s, e)) => Update(s, e).deleted)
         /\ e.valid => /\ Known(Update(s, e))
                       /\ Update(s, e).ed = e.ed => Update(s, e).curve = e.curve
PROOF
<1>1. CASE s = Nothing
  BY <1>1, KeysAssumption DEF Update, Stored, Nothing, Entry, Absent, Known
<1>2. CASE s # Nothing /\ e = Absent
  BY <1>2, KeysAssumption DEF Update, Stored, Nothing, Absent, Known
<1>3. CASE s # Nothing /\ e \in Entry /\ e # Absent
  <2>1. Known(s) /\ e.valid \in BOOLEAN /\ s = [ed |-> s.ed, curve |-> s.curve, deleted |-> s.deleted]
    BY <1>3, KeysAssumption DEF Stored, Nothing, Entry, Known
  <2>2. [s EXCEPT !.curve = e.curve] = [ed |-> s.ed, curve |-> e.curve, deleted |-> s.deleted]
    BY <2>1
  <2> QED BY <1>3, <2>1, <2>2 DEF Update, Known
<1> QED BY <1>1, <1>2, <1>3

\* The first state has no query, no tracked user and an empty store.
LEMMA InitInv == Init => IInv
PROOF
  BY BoundsAssumption DEF Init, IInv, TypeOK, CurrentUnlessMissed, AnswersCurrent, Idle,
     QueryState, Stored, Nothing, Entry, Absent

\* Every step keeps the state well formed.
LEMMA TypePreserved == TypeOK /\ [Next]_vars => TypeOK'
PROOF
<1> SUFFICES ASSUME TypeOK, [Next]_vars PROVE TypeOK'
  OBVIOUS
<1> USE BoundsAssumption, OwnerAssumption
<1>1. ASSUME NEW d \in Device, ListChanges(d) PROVE TypeOK'
  <2>1. server' \in [Device -> Entry \cup {Absent}]
    BY <1>1 DEF ListChanges, TypeOK
  <2>2. told' \in SUBSET User /\ removed' \in SUBSET Device /\ changes' \in 0..MaxChanges
    BY <1>1 DEF ListChanges, TypeOK, Change
  <2> QED BY <1>1, <2>1, <2>2 DEF ListChanges, TypeOK
<1>2. ASSUME NEW u \in User, UserJoins(u) PROVE TypeOK'
  BY <1>2 DEF UserJoins, TypeOK, Change, Untracked
<1>3. ASSUME NEW u \in User, UserLeaves(u) PROVE TypeOK'
  BY <1>3 DEF UserLeaves, TypeOK, Change
<1>4. ASSUME NEW u \in User, UnknownDeviceSeen(u) PROVE TypeOK'
  BY <1>4 DEF UnknownDeviceSeen, TypeOK
<1>5. CASE SyncNotices
  BY <1>5 DEF SyncNotices, TypeOK
<1>6. CASE Restart
  <2>1. queries' \in [Query -> QueryState]
    BY <1>6 DEF Restart, Idle, QueryState
  <2> QED BY <1>6, <2>1 DEF Restart, Fault, TypeOK
<1>7. ASSUME NEW q \in Query, KeysQuery(q) PROVE TypeOK'
  <2>1. queries' \in [Query -> QueryState]
    BY <1>7 DEF KeysQuery, TypeOK, Idle, QueryState
  <2> QED BY <1>7, <2>1 DEF KeysQuery, TypeOK
<1>8. ASSUME NEW q \in Query, Answers(q) PROVE TypeOK'
  <2> PICK A \in SUBSET queries[q].users :
        /\ queries' = [queries EXCEPT ![q] = [state |-> "answered", users |-> A, lists |-> server]]
        /\ \/ A = queries[q].users /\ UNCHANGED faults
           \/ A # queries[q].users /\ Fault
    BY <1>8 DEF Answers
  <2>1. queries[q].users \in SUBSET User
    BY DEF TypeOK, QueryState
  <2>2. queries' \in [Query -> QueryState]
    BY <2>1 DEF TypeOK, QueryState
  <2>3. faults' \in 0..MaxFaults
    BY DEF TypeOK, Fault
  <2> QED BY <1>8, <2>2, <2>3 DEF Answers, TypeOK
<1>9. ASSUME NEW q \in Query, HandleKeyQuery(q) PROVE TypeOK'
  <2>1. /\ queries[q].users \in SUBSET User
        /\ queries[q].lists \in [Device -> Entry \cup {Absent}]
    BY DEF TypeOK, QueryState
  <2>2. \A d \in Device : Update(store[d], queries[q].lists[d]) \in Stored
    BY <2>1, UpdateKeeps DEF TypeOK
  <2>3. store' \in [Device -> Stored]
    BY <1>9, <2>2 DEF HandleKeyQuery, TypeOK
  <2>4. queries' \in [Query -> QueryState]
    BY <1>9 DEF HandleKeyQuery, TypeOK, Idle, QueryState
  <2> QED BY <1>9, <2>1, <2>3, <2>4 DEF HandleKeyQuery, Unsettled, TypeOK
<1>10. ASSUME NEW q \in Query, QueryFails(q) PROVE TypeOK'
  <2>1. queries' \in [Query -> QueryState]
    BY <1>10 DEF QueryFails, TypeOK, Idle, QueryState
  <2> QED BY <1>10, <2>1 DEF QueryFails, Fault, TypeOK
<1>11. CASE UNCHANGED vars
  BY <1>11 DEF vars, TypeOK
<1> QED BY <1>1, <1>2, <1>3, <1>4, <1>5, <1>6, <1>7, <1>8, <1>9, <1>10, <1>11 DEF Next

\* Every step keeps the lists and the answers current: a change of the server is
\* told, a notice makes the user pending or missed, an answer on its way
\* included, and handling a current answer makes the stored list current.
LEMMA CurrentPreserved ==
  IInv /\ [Next]_vars => CurrentUnlessMissed' /\ AnswersCurrent'
PROOF
<1> SUFFICES ASSUME IInv, [Next]_vars PROVE CurrentUnlessMissed' /\ AnswersCurrent'
  OBVIOUS
<1> DEFINE Good == CurrentUnlessMissed' /\ AnswersCurrent'
<1> USE OwnerAssumption DEF IInv
<1>1. ASSUME NEW d \in Device, ListChanges(d) PROVE Good
  <2>1. \A x \in Device : Owner[x] # Owner[d] => server'[x] = server[x]
    BY <1>1 DEF ListChanges, TypeOK
  <2> QED BY <1>1, <2>1 DEF ListChanges, CurrentUnlessMissed, AnswersCurrent, Match
<1>2. ASSUME NEW u \in User, UserJoins(u) PROVE Good
  BY <1>2 DEF UserJoins, CurrentUnlessMissed, AnswersCurrent, Match
<1>3. ASSUME NEW u \in User, UserLeaves(u) PROVE Good
  BY <1>3 DEF UserLeaves, CurrentUnlessMissed, AnswersCurrent, Match
<1>4. ASSUME NEW u \in User, UnknownDeviceSeen(u) PROVE Good
  BY <1>4 DEF UnknownDeviceSeen, CurrentUnlessMissed, AnswersCurrent, Match
<1>5. CASE SyncNotices
  <2>1. AnswersCurrent'
    BY <1>5 DEF SyncNotices, AnswersCurrent, Answered, TypeOK
  <2>2. CurrentUnlessMissed'
    BY <1>5 DEF SyncNotices, CurrentUnlessMissed, Match, TypeOK
  <2> QED BY <2>1, <2>2
<1>6. CASE Restart
  BY <1>6 DEF Restart, CurrentUnlessMissed, AnswersCurrent, Idle
<1>7. ASSUME NEW q \in Query, KeysQuery(q) PROVE Good
  BY <1>7 DEF KeysQuery, CurrentUnlessMissed, AnswersCurrent, Match, Idle, TypeOK
<1>8. ASSUME NEW q \in Query, Answers(q) PROVE Good
  BY <1>8 DEF Answers, CurrentUnlessMissed, AnswersCurrent, Match, TypeOK
<1>9. ASSUME NEW q \in Query, HandleKeyQuery(q) PROVE Good
  <2>1. AnswersCurrent'
    BY <1>9 DEF HandleKeyQuery, AnswersCurrent, Idle, TypeOK
  <2>2. ASSUME NEW u \in tracked' PROVE (u \in pending \cup told \cup missed \/ Match(u))'
    <3>1. CASE u \notin queries[q].users
      BY <1>9, <2>2, <3>1 DEF HandleKeyQuery, Unsettled, CurrentUnlessMissed, Match, TypeOK
    <3>2. CASE u \in queries[q].users /\ u \notin told \cup missed
      <4>1. \A d \in Device : Owner[d] = u => queries[q].lists[d] = server[d]
        BY <1>9, <3>2 DEF HandleKeyQuery, AnswersCurrent
      <4>2. \A d \in Device : Owner[d] = u => store'[d] = Update(store[d], server[d])
        BY <1>9, <3>2, <4>1 DEF HandleKeyQuery, TypeOK
      <4>3. server' = server
        BY <1>9 DEF HandleKeyQuery
      <4>4. \A d \in Device : store[d] \in Stored /\ server[d] \in Entry \cup {Absent}
        BY DEF TypeOK
      <4>5. Match(u)'
        BY <4>2, <4>3, <4>4, UpdateMatches DEF Match
      <4> QED BY <4>5
    <3>3. CASE u \in told \cup missed
      BY <1>9, <3>3 DEF HandleKeyQuery
    <3> QED BY <3>1, <3>2, <3>3
  <2> QED BY <2>1, <2>2 DEF CurrentUnlessMissed
<1>10. ASSUME NEW q \in Query, QueryFails(q) PROVE Good
  BY <1>10 DEF QueryFails, CurrentUnlessMissed, AnswersCurrent, Match, Idle, TypeOK
<1>11. CASE UNCHANGED vars
  BY <1>11 DEF vars, CurrentUnlessMissed, AnswersCurrent, Match
<1> QED BY <1>1, <1>2, <1>3, <1>4, <1>5, <1>6, <1>7, <1>8, <1>9, <1>10, <1>11 DEF Next

\* The inductive invariant holds in every reachable state.
THEOREM Invariant == Spec => []IInv
PROOF
<1>1. IInv /\ [Next]_vars => IInv'
  BY TypePreserved, CurrentPreserved DEF IInv
<1> QED BY InitInv, <1>1, PTL DEF Spec

\* The state of the tracking is always well formed; a device that was never
\* stored is never marked as deleted.
THEOREM TypeCorrect == Spec => []TypeOK
PROOF
<1>1. IInv => TypeOK
  BY DEF IInv
<1> QED BY Invariant, <1>1, PTL

\* A tracked user's stored device list is out of date only while a notice or a
\* query is to come, or when the notice was dropped or came while an older
\* answer was on its way: nothing else loses a change, restarts included.
THEOREM ListsAreCurrent == Spec => []CurrentUnlessMissed
PROOF
<1>1. IInv => CurrentUnlessMissed
  BY DEF IInv
<1> QED BY Invariant, <1>1, PTL

\* No order of answers and no restart changes the identity key of a known device.
THEOREM FingerprintIsPinned == Spec => FingerprintPinned
PROOF
<1> DEFINE Pinned == \A d \in Device : Known(store[d]) => store'[d].ed = store[d].ed
<1>1. TypeOK /\ [Next]_vars => [Pinned]_vars
  <2> SUFFICES ASSUME TypeOK, Next PROVE Pinned
    OBVIOUS
  <2>1. ASSUME NEW q \in Query, HandleKeyQuery(q) PROVE Pinned
    <3>1. \A d \in Device : store[d] \in Stored /\ queries[q].lists[d] \in Entry \cup {Absent}
      BY DEF TypeOK, QueryState
    <3> QED BY <2>1, <3>1, UpdateKeeps DEF HandleKeyQuery
  <2>2. ASSUME UNCHANGED store PROVE Pinned
    BY <2>2
  <2> QED BY <2>1, <2>2 DEF Next, ListChanges, UserJoins, UserLeaves, UnknownDeviceSeen,
           SyncNotices, Restart, KeysQuery, Answers, QueryFails
<1> QED BY <1>1, TypeCorrect, PTL DEF Spec, FingerprintPinned
=============================================================================
