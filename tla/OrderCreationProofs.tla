------------------------ MODULE OrderCreationProofs ------------------------
(***************************************************************************)
(* Proofs about OrderCreation, for any number of requests, keys, bodies.   *)
(***************************************************************************)
EXTENDS OrderCreation, TLAPS

-----------------------------------------------------------------------------
(* The inductive invariant *)

\* A request that has arrived knows its key and body, and has no answer before
\* it is done.
RequestShape ==
    \A r \in Requests :
        /\ req[r].pc # "new" => req[r].key \in Keys /\ req[r].body \in Bodies
        /\ req[r].pc # "done" => req[r].answer = "none"

\* Inside its transaction a request holds the lock of its key ...
LockIsHeld ==
    \A r \in Requests :
        req[r].pc \in {"recheck", "insert", "commit"} => lock[req[r].key] = r

\* ... and after the recheck nobody has stored an order under that key.
KeyIsFree ==
    \A r \in Requests :
        req[r].pc \in {"insert", "commit"} => RowsOf(req[r].key) = {}

\* An order is stored by the last step of its request.
OrdersAreDone == \A r \in orders : req[r].pc = "done"

CreationInv ==
    /\ TypeOK
    /\ RequestShape
    /\ LockIsHeld
    /\ KeyIsFree
    /\ OrdersAreDone
    /\ AllOrNothing

-----------------------------------------------------------------------------

LEMMA InitInv == Init => CreationInv
BY CreationAssumption
   DEF Init, CreationInv, TypeOK, RequestStates, Answers, IdemRows, RequestShape, LockIsHeld,
       KeyIsFree, OrdersAreDone, AllOrNothing

\* A reply from the stored row is one of two answers, and names a stored order.
LEMMA ReplyStoredCases ==
    ASSUME NEW r \in Requests, TypeOK, ReplyStored(r)
    PROVE  \E i \in idem :
              /\ i.key = req[r].key
              /\ \/ i.body = req[r].body /\ Reply(r, "existing", i.order)
                 \/ i.body # req[r].body /\ Reply(r, "conflict", None)
BY DEF ReplyStored, RowsOf

LEMMA ReplyType ==
    ASSUME NEW r \in Requests, TypeOK, NEW a \in Answers, NEW o \in Requests \cup {None},
           Reply(r, a, o)
    PROVE  req' \in [Requests -> RequestStates]
<1> DEFINE x == [req[r] EXCEPT !.pc = "done", !.answer = a, !.order = o]
<1>1. x \in RequestStates
  BY DEF TypeOK, RequestStates
<1>2. req' = [req EXCEPT ![r] = x]
  BY DEF Reply
<1> HIDE DEF x
<1> QED
  BY <1>1, <1>2 DEF TypeOK

LEMMA GotoType ==
    ASSUME NEW r \in Requests, TypeOK,
           NEW pc \in {"validate", "begin", "recheck", "insert", "commit"}, Goto(r, pc)
    PROVE  req' \in [Requests -> RequestStates]
BY DEF TypeOK, Goto, RequestStates

LEMMA ReleaseType ==
    ASSUME NEW r \in Requests, TypeOK, Release(r)
    PROVE  lock' \in [Keys -> Requests \cup {NoOne}]
BY DEF TypeOK, Release

LEMMA ReplyStoredType ==
    ASSUME NEW r \in Requests, TypeOK, ReplyStored(r)
    PROVE  req' \in [Requests -> RequestStates]
<1>1. PICK i \in idem : \/ Reply(r, "existing", i.order)
                        \/ Reply(r, "conflict", None)
  BY ReplyStoredCases
<1>2. i.order \in Requests
  BY DEF TypeOK, IdemRows
<1> QED
  BY <1>1, <1>2, ReplyType DEF Answers

LEMMA WrittenType ==
    ASSUME NEW r \in Requests, TypeOK, RequestShape, req[r].pc = "commit", Written(r)
    PROVE  /\ idem' \subseteq IdemRows
           /\ orders' \subseteq Requests
           /\ outbox' \subseteq Requests
           /\ lock' \in [Keys -> Requests \cup {NoOne}]
<1>1. req[r].key \in Keys /\ req[r].body \in Bodies
  BY DEF RequestShape
<1> QED
  BY <1>1, ReleaseType DEF TypeOK, Written, IdemRows

LEMMA TypeInductive ==
    ASSUME TypeOK, RequestShape, [Next]_vars
    PROVE  TypeOK'
<1>1. UNCHANGED vars => TypeOK'
  BY DEF vars, TypeOK
<1>2. ASSUME NEW r \in Requests, NEW k \in Keys, NEW b \in Bodies, Arrive(r, k, b)
      PROVE  TypeOK'
  <2> DEFINE known == RowsOf(k) # {}
             x == [req[r] EXCEPT !.pc = "lookup", !.key = k, !.body = b, !.known = known]
  <2>1. known \in BOOLEAN
    OBVIOUS
  <2>2. req' = [req EXCEPT ![r] = x]
    BY <1>2 DEF Arrive
  <2> HIDE DEF known
  <2>3. x \in RequestStates
    BY <2>1 DEF TypeOK, RequestStates
  <2>4. UNCHANGED <<idem, orders, outbox, lock>>
    BY <1>2 DEF Arrive
  <2> HIDE DEF x
  <2> QED
    BY <2>2, <2>3, <2>4 DEF TypeOK
<1>3. ASSUME NEW r \in Requests, Lookup(r)
      PROVE  TypeOK'
  <2>1. req' \in [Requests -> RequestStates]
    BY <1>3, GotoType, ReplyStoredType DEF Lookup
  <2> QED
    BY <1>3, <2>1 DEF Lookup, TypeOK
<1>4. ASSUME NEW r \in Requests, Validate(r)
      PROVE  TypeOK'
  <2>1. req' \in [Requests -> RequestStates]
    BY <1>4, GotoType, ReplyType DEF Validate, Answers
  <2> QED
    BY <1>4, <2>1 DEF Validate, TypeOK
<1>5. ASSUME NEW r \in Requests, AcquireLock(r)
      PROVE  TypeOK'
  <2>1. req' \in [Requests -> RequestStates]
    BY <1>5, GotoType DEF AcquireLock
  <2> QED
    BY <1>5, <2>1 DEF AcquireLock, TypeOK
<1>6. ASSUME NEW r \in Requests, Recheck(r)
      PROVE  TypeOK'
  <2>1. req' \in [Requests -> RequestStates]
    BY <1>6, GotoType, ReplyStoredType DEF Recheck
  <2>2. lock' \in [Keys -> Requests \cup {NoOne}]
    BY <1>6, ReleaseType DEF Recheck, TypeOK
  <2> QED
    BY <1>6, <2>1, <2>2 DEF Recheck, TypeOK
<1>7. ASSUME NEW r \in Requests, Insert(r)
      PROVE  TypeOK'
  <2>1. req' \in [Requests -> RequestStates]
    BY <1>7, GotoType, ReplyType DEF Insert, Answers
  <2>2. lock' \in [Keys -> Requests \cup {NoOne}]
    BY <1>7, ReleaseType DEF Insert, TypeOK
  <2> QED
    BY <1>7, <2>1, <2>2 DEF Insert, TypeOK
<1>8. ASSUME NEW r \in Requests, Commit(r) \/ CommitAnswerLost(r)
      PROVE  TypeOK'
  <2>1. req' \in [Requests -> RequestStates]
    BY <1>8, ReplyType DEF Commit, CommitAnswerLost, Answers
  <2> QED
    BY <1>8, <2>1, WrittenType DEF Commit, CommitAnswerLost, TypeOK
<1>9. ASSUME NEW r \in Requests, Interrupted(r)
      PROVE  TypeOK'
  <2>1. req' \in [Requests -> RequestStates]
    BY <1>9, ReplyType DEF Interrupted, Answers
  <2> QED
    BY <1>9, <2>1, ReleaseType DEF Interrupted, TypeOK
<1> QED
  BY <1>1, <1>2, <1>3, <1>4, <1>5, <1>6, <1>7, <1>8, <1>9 DEF Next, Work

-----------------------------------------------------------------------------
(* Steps of one request *)

\* A served request moves alone, and keeps its key and body.
LEMMA Frame ==
    ASSUME TypeOK, RequestShape, NEW r \in Requests, Work(r) \/ Interrupted(r)
    PROVE  /\ req[r].pc \notin {"new", "done"}
           /\ \A q \in Requests : req'[q].key = req[q].key /\ req'[q].body = req[q].body
           /\ \A q \in Requests \ {r} : req'[q] = req[q]
           /\ req'[r].pc # "new"
           /\ req'[r].pc # "done" => req'[r].answer = req[r].answer
<1> USE DEF TypeOK, RequestStates
<1>1. ASSUME NEW pc \in {"validate", "begin", "recheck", "insert", "commit"}, Goto(r, pc)
      PROVE  /\ \A q \in Requests : req'[q].key = req[q].key /\ req'[q].body = req[q].body
             /\ \A q \in Requests \ {r} : req'[q] = req[q]
             /\ req'[r].pc # "new"
             /\ req'[r].answer = req[r].answer
  BY <1>1 DEF Goto
<1>2. ASSUME NEW a, NEW o, Reply(r, a, o)
      PROVE  /\ \A q \in Requests : req'[q].key = req[q].key /\ req'[q].body = req[q].body
             /\ \A q \in Requests \ {r} : req'[q] = req[q]
             /\ req'[r].pc = "done"
  BY <1>2 DEF Reply
<1>3. ASSUME ReplyStored(r)
      PROVE  \E a, o : Reply(r, a, o)
  BY <1>3 DEF ReplyStored
<1> HIDE DEF TypeOK, RequestStates
<1>4. req[r].pc \notin {"new", "done"}
  BY DEF Work, Lookup, Validate, AcquireLock, Recheck, Insert, Commit, CommitAnswerLost, Interrupted
<1>5. \/ \E pc \in {"validate", "begin", "recheck", "insert", "commit"} : Goto(r, pc)
      \/ \E a, o : Reply(r, a, o)
  BY <1>3 DEF Work, Lookup, Validate, AcquireLock, Recheck, Insert, Commit, CommitAnswerLost, Interrupted
<1> QED
  BY <1>1, <1>2, <1>4, <1>5

\* Only Commit and CommitAnswerLost write the tables.
LEMMA TablesChange ==
    ASSUME TypeOK, NEW r \in Requests, Work(r) \/ Interrupted(r)
    PROVE  \/ UNCHANGED <<idem, orders, outbox>>
           \/ req[r].pc = "commit" /\ Written(r) /\ req'[r].pc = "done"
<1>1. ASSUME NEW a, NEW o, Reply(r, a, o)
      PROVE  req'[r].pc = "done"
  BY <1>1 DEF TypeOK, RequestStates, Reply
<1> QED
  BY <1>1 DEF Work, Lookup, Validate, AcquireLock, Recheck, Insert, Commit, CommitAnswerLost, Interrupted

\* What a step does to the locks, and what is known inside the transaction.
LEMMA LocksChange ==
    ASSUME TypeOK, RequestShape, LockIsHeld, KeyIsFree,
           NEW r \in Requests, Work(r) \/ Interrupted(r)
    PROVE  /\ \A k \in Keys : lock[k] \notin {r, NoOne} => lock'[k] = lock[k]
           /\ req'[r].pc \in {"recheck", "insert", "commit"} => lock'[req[r].key] = r
           /\ req'[r].pc \in {"insert", "commit"} => RowsOf(req[r].key) = {} /\ UNCHANGED idem
<1>1. req[r].pc # "new" => req[r].key \in Keys
  BY DEF RequestShape
<1>2. ASSUME NEW pc, Goto(r, pc)
      PROVE  req'[r].pc = pc
  BY <1>2 DEF TypeOK, RequestStates, Goto
<1>3. ASSUME NEW a, NEW o, Reply(r, a, o)
      PROVE  req'[r].pc = "done"
  BY <1>3 DEF TypeOK, RequestStates, Reply
<1>4. ASSUME ReplyStored(r)
      PROVE  req'[r].pc = "done"
  BY <1>3, <1>4 DEF ReplyStored
<1>5. ASSUME Release(r)
      PROVE  \A k \in Keys : lock[k] \notin {r, NoOne} => lock'[k] = lock[k]
  BY <1>5 DEF Release
<1>6. CASE Lookup(r) \/ Validate(r)
  BY <1>2, <1>3, <1>4, <1>6 DEF Lookup, Validate
<1>7. CASE AcquireLock(r)
  BY <1>1, <1>2, <1>7 DEF AcquireLock, TypeOK
<1>8. CASE Recheck(r)
  <2>1. CASE RowsOf(req[r].key) = {}
    BY <1>2, <1>8, <2>1 DEF Recheck, LockIsHeld
  <2>2. CASE RowsOf(req[r].key) # {}
    BY <1>4, <1>5, <1>8, <2>2 DEF Recheck
  <2> QED
    BY <2>1, <2>2
<1>9. CASE Insert(r)
  BY <1>2, <1>9 DEF Insert, LockIsHeld, KeyIsFree
<1>10. CASE Commit(r) \/ CommitAnswerLost(r)
  BY <1>3, <1>5, <1>10 DEF Commit, CommitAnswerLost, Written
<1>11. CASE Interrupted(r)
  BY <1>3, <1>5, <1>11 DEF Interrupted
<1> QED
  BY <1>6, <1>7, <1>8, <1>9, <1>10, <1>11 DEF Work

-----------------------------------------------------------------------------

LEMMA InvInductive ==
    ASSUME CreationInv, [Next]_vars
    PROVE  CreationInv'
<1> USE DEF CreationInv
<1>1. TypeOK'
  BY TypeInductive
<1>2. CASE UNCHANGED vars
  BY <1>1, <1>2 DEF vars, RequestShape, LockIsHeld, KeyIsFree, RowsOf, OrdersAreDone, AllOrNothing
<1>3. ASSUME NEW r \in Requests, NEW k \in Keys, NEW b \in Bodies, Arrive(r, k, b)
      PROVE  CreationInv'
  <2>1. /\ req[r].pc = "new" /\ r \notin orders
        /\ \A q \in Requests \ {r} : req'[q] = req[q]
        /\ req'[r].pc = "lookup" /\ req'[r].key = k /\ req'[r].body = b
        /\ req'[r].answer = req[r].answer
    BY <1>3 DEF Arrive, TypeOK, RequestStates, OrdersAreDone
  <2>2. UNCHANGED <<idem, orders, outbox, lock>>
    BY <1>3 DEF Arrive
  <2>3. RequestShape'
    BY <2>1 DEF RequestShape
  <2>4. LockIsHeld' /\ KeyIsFree'
    BY <2>1, <2>2 DEF LockIsHeld, KeyIsFree, RowsOf
  <2>5. OrdersAreDone'
    BY <2>1, <2>2 DEF OrdersAreDone, TypeOK
  <2>6. AllOrNothing'
    BY <2>1, <2>2 DEF AllOrNothing, TypeOK
  <2> QED
    BY <1>1, <2>3, <2>4, <2>5, <2>6
<1>4. ASSUME NEW r \in Requests, Work(r) \/ Interrupted(r)
      PROVE  CreationInv'
  <2>1. RequestShape'
    BY <1>4, Frame DEF RequestShape
  <2>2. LockIsHeld'
    <3> SUFFICES ASSUME NEW q \in Requests, req'[q].pc \in {"recheck", "insert", "commit"}
                 PROVE  lock'[req'[q].key] = q
      BY DEF LockIsHeld
    <3>1. CASE q = r
      BY <1>4, <3>1, Frame, LocksChange
    <3>2. CASE q # r
      <4>1. req'[q] = req[q] /\ lock[req[q].key] = q /\ req[q].key \in Keys
        BY <1>4, <3>2, Frame DEF LockIsHeld, RequestShape
      <4>2. q # NoOne
        BY CreationAssumption
      <4> QED
        BY <1>4, <3>2, <4>1, <4>2, LocksChange
    <3> QED
      BY <3>1, <3>2
  <2>3. KeyIsFree'
    <3> SUFFICES ASSUME NEW q \in Requests, req'[q].pc \in {"insert", "commit"}
                 PROVE  \A i \in idem' : i.key # req'[q].key
      BY DEF KeyIsFree, RowsOf
    <3>1. CASE q = r
      <4>1. RowsOf(req[r].key) = {} /\ UNCHANGED idem /\ req'[r].key = req[r].key
        BY <1>4, <3>1, Frame, LocksChange
      <4> QED
        BY <3>1, <4>1 DEF RowsOf
    <3>2. CASE q # r
      <4>1. /\ req'[q] = req[q] /\ lock[req[q].key] = q
            /\ RowsOf(req[q].key) = {}
        BY <1>4, <3>2, Frame DEF LockIsHeld, KeyIsFree
      <4>2. CASE UNCHANGED idem
        BY <4>1, <4>2 DEF RowsOf
      <4>3. CASE req[r].pc = "commit" /\ Written(r)
        <5>1. req[r].key # req[q].key
          BY <3>2, <4>1, <4>3 DEF LockIsHeld
        <5> QED
          BY <4>1, <4>3, <5>1 DEF RowsOf, Written
      <4> QED
        BY <1>4, <4>2, <4>3, TablesChange
    <3> QED
      BY <3>1, <3>2
  <2>4. OrdersAreDone'
    <3>1. \A q \in Requests \ {r} : req'[q] = req[q]
      BY <1>4, Frame
    <3>2. r \notin orders
      BY <1>4, Frame DEF OrdersAreDone
    <3> QED
      BY <1>4, <3>1, <3>2, TablesChange DEF OrdersAreDone, Written, TypeOK
  <2>5. AllOrNothing'
    <3>1. \A q \in Requests : req'[q].key = req[q].key /\ req'[q].body = req[q].body
      BY <1>4, Frame
    <3>2. CASE UNCHANGED <<idem, orders, outbox>>
      BY <3>1, <3>2 DEF AllOrNothing, TypeOK, IdemRows
    <3>3. CASE Written(r)
      <4> DEFINE new == [key |-> req[r].key, body |-> req[r].body, order |-> r]
      <4>1. idem' = idem \cup {new} /\ orders' = orders \cup {r} /\ outbox' = outbox \cup {r}
        BY <3>3 DEF Written
      <4>2. \A i \in idem : i.order \in Requests
        BY DEF TypeOK, IdemRows
      <4>3. {i.order : i \in idem'} = {i.order : i \in idem} \cup {r}
        <5>1. new.order = r
          OBVIOUS
        <5> HIDE DEF new
        <5>2. ASSUME NEW x
              PROVE  (\E i \in idem' : i.order = x) <=> (\E i \in idem : i.order = x) \/ x = r
          BY <4>1, <5>1
        <5> QED
          BY <5>2
      <4>4. \A i \in idem' : req'[i.order].key = i.key /\ req'[i.order].body = i.body
        BY <3>1, <4>1, <4>2 DEF AllOrNothing
      <4> QED
        BY <4>1, <4>3, <4>4 DEF AllOrNothing
    <3> QED
      BY <1>4, <3>2, <3>3, TablesChange
  <2> QED
    BY <1>1, <2>1, <2>2, <2>3, <2>4, <2>5
<1> QED
  BY <1>2, <1>3, <1>4 DEF Next

\* Every reachable state is well typed, and holds what a request inside its
\* transaction relies on: its lock, and a key nobody has used.
THEOREM CreationInvariant == Spec => []CreationInv
<1>1. CreationInv /\ [Next]_vars => CreationInv'
  BY InvInductive
<1> QED
  BY InitInv, <1>1, PTL DEF Spec

-----------------------------------------------------------------------------
(* Correctness *)

\* Requests, locks and tables keep their types through every interleaving of
\* CreateOrder's statements.
THEOREM TypeCorrect == Spec => []TypeOK
BY CreationInvariant, PTL DEF CreationInv

\* Order, idempotency row and event exist together in every reachable state.
THEOREM AlwaysAllOrNothing == Spec => []AllOrNothing
BY CreationInvariant, PTL DEF CreationInv

\* A new order finds its key free, so no order of its key is stored.
LEMMA OneOrderInductive ==
    ASSUME CreationInv, OneOrderPerKey, [Next]_vars
    PROVE  OneOrderPerKey'
<1> USE DEF CreationInv
<1>1. CASE UNCHANGED vars
  BY <1>1 DEF vars, OneOrderPerKey
<1>2. ASSUME NEW r \in Requests, NEW k \in Keys, NEW b \in Bodies, Arrive(r, k, b)
      PROVE  OneOrderPerKey'
  <2>1. r \notin orders /\ \A q \in Requests \ {r} : req'[q] = req[q]
    BY <1>2 DEF Arrive, TypeOK, RequestStates, OrdersAreDone
  <2> QED
    BY <1>2, <2>1 DEF Arrive, OneOrderPerKey, TypeOK
<1>3. ASSUME NEW r \in Requests, Work(r) \/ Interrupted(r)
      PROVE  OneOrderPerKey'
  <2>1. \A q \in Requests : req'[q].key = req[q].key
    BY <1>3, Frame
  <2>2. CASE UNCHANGED orders
    BY <2>1, <2>2 DEF OneOrderPerKey, TypeOK
  <2>3. CASE req[r].pc = "commit" /\ Written(r)
    <3>1. \A q \in orders : req[q].key # req[r].key
      <4> SUFFICES ASSUME NEW q \in orders
                   PROVE  req[q].key # req[r].key
        OBVIOUS
      <4>1. PICK i \in idem : i.order = q
        BY DEF AllOrNothing
      <4>2. i.key = req[q].key
        BY <4>1 DEF AllOrNothing
      <4>3. i.key # req[r].key
        BY <2>3 DEF KeyIsFree, RowsOf
      <4> QED
        BY <4>2, <4>3
    <3> QED
      BY <2>1, <2>3, <3>1 DEF Written, OneOrderPerKey, TypeOK
  <2> QED
    BY <1>3, <2>2, <2>3, TablesChange
<1> QED
  BY <1>1, <1>2, <1>3 DEF Next

\* However many requests race with one key, they create one order.
THEOREM AlwaysOneOrderPerKey == Spec => []OneOrderPerKey
<1>1. Init => OneOrderPerKey
  BY DEF Init, OneOrderPerKey
<1>2. CreationInv /\ OneOrderPerKey /\ [Next]_vars => OneOrderPerKey'
  BY OneOrderInductive
<1> QED
  BY CreationInvariant, <1>1, <1>2, PTL DEF Spec

\* What a step may answer: nothing new, an order that is stored for this body,
\* a conflict with a stored row, or an answer that claims nothing.
LEMMA AnswerGiven ==
    ASSUME TypeOK, RequestShape, LockIsHeld, KeyIsFree,
           NEW r \in Requests, Work(r) \/ Interrupted(r)
    PROVE  /\ req'[r].answer # "duplicateKey"
           /\ req'[r].answer \in {"created", "existing"} =>
                 [key |-> req[r].key, body |-> req[r].body, order |-> req'[r].order] \in idem'
           /\ req'[r].answer = "conflict" =>
                 \E i \in idem' : i.key = req[r].key /\ i.body # req[r].body
<1>1. req[r].pc \notin {"new", "done"} /\ req[r].answer = "none"
  BY Frame DEF RequestShape
<1>2. ASSUME NEW pc, Goto(r, pc)
      PROVE  req'[r].answer = "none"
  BY <1>1, <1>2 DEF Goto, TypeOK, RequestStates
<1>3. ASSUME NEW a, NEW o, Reply(r, a, o)
      PROVE  req'[r].answer = a /\ req'[r].order = o
  BY <1>3 DEF Reply, TypeOK, RequestStates
<1>4. ASSUME ReplyStored(r), UNCHANGED idem
      PROVE  /\ req'[r].answer \in {"existing", "conflict"}
             /\ req'[r].answer = "existing" =>
                   [key |-> req[r].key, body |-> req[r].body, order |-> req'[r].order] \in idem'
             /\ req'[r].answer = "conflict" =>
                   \E i \in idem' : i.key = req[r].key /\ i.body # req[r].body
  <2>1. PICK i \in idem :
              /\ i.key = req[r].key
              /\ \/ i.body = req[r].body /\ Reply(r, "existing", i.order)
                 \/ i.body # req[r].body /\ Reply(r, "conflict", None)
    BY <1>4, ReplyStoredCases
  <2>2. i = [key |-> i.key, body |-> i.body, order |-> i.order]
    BY DEF TypeOK, IdemRows
  <2> QED
    BY <1>3, <1>4, <2>1, <2>2
<1>5. CASE Lookup(r) \/ Recheck(r)
  BY <1>2, <1>4, <1>5 DEF Lookup, Recheck
<1>6. CASE Validate(r) \/ AcquireLock(r)
  BY <1>2, <1>3, <1>6 DEF Validate, AcquireLock
<1>7. CASE Insert(r)
  BY <1>2, <1>7 DEF Insert, KeyIsFree
<1>8. CASE Commit(r) \/ CommitAnswerLost(r)
  BY <1>3, <1>8 DEF Commit, CommitAnswerLost, Written
<1>9. CASE Interrupted(r)
  BY <1>3, <1>9 DEF Interrupted
<1> QED
  BY <1>5, <1>6, <1>7, <1>8, <1>9 DEF Work

LEMMA AnswersInductive ==
    ASSUME CreationInv, AnswersAreTrue, RaceIsNoError, [Next]_vars
    PROVE  AnswersAreTrue' /\ RaceIsNoError'
<1> USE DEF CreationInv
<1>1. CASE UNCHANGED vars
  BY <1>1 DEF vars, AnswersAreTrue, RaceIsNoError
<1>2. ASSUME NEW r \in Requests, NEW k \in Keys, NEW b \in Bodies, Arrive(r, k, b)
      PROVE  AnswersAreTrue' /\ RaceIsNoError'
  <2>1. /\ \A q \in Requests \ {r} : req'[q] = req[q]
        /\ req'[r].answer = "none"
        /\ UNCHANGED idem
    BY <1>2 DEF Arrive, TypeOK, RequestStates, RequestShape
  <2> QED
    BY <2>1 DEF AnswersAreTrue, RaceIsNoError
<1>3. ASSUME NEW r \in Requests, Work(r) \/ Interrupted(r)
      PROVE  AnswersAreTrue' /\ RaceIsNoError'
  <2>1. idem \subseteq idem'
    BY <1>3, TablesChange DEF Written
  <2>2. /\ \A q \in Requests \ {r} : req'[q] = req[q]
        /\ req'[r].key = req[r].key /\ req'[r].body = req[r].body
    BY <1>3, Frame
  <2>3. ASSUME NEW q \in Requests
        PROVE  /\ req'[q].answer # "duplicateKey"
               /\ req'[q].answer \in {"created", "existing"} =>
                     [key |-> req'[q].key, body |-> req'[q].body, order |-> req'[q].order] \in idem'
               /\ req'[q].answer = "conflict" =>
                     \E i \in idem' : i.key = req'[q].key /\ i.body # req'[q].body
    <3>1. CASE q = r
      BY <1>3, <2>2, <3>1, AnswerGiven
    <3>2. CASE q # r
      BY <2>1, <2>2, <3>2 DEF AnswersAreTrue, RaceIsNoError
    <3> QED
      BY <3>1, <3>2
  <2> QED
    BY <2>3 DEF AnswersAreTrue, RaceIsNoError
<1> QED
  BY <1>1, <1>2, <1>3 DEF Next

\* No request is told anything about the database that is not so.
THEOREM AnswersAlwaysTrue == Spec => []AnswersAreTrue
<1>1. Init => AnswersAreTrue /\ RaceIsNoError
  BY DEF Init, AnswersAreTrue, RaceIsNoError
<1>2. CreationInv /\ AnswersAreTrue /\ RaceIsNoError /\ [Next]_vars
         => AnswersAreTrue' /\ RaceIsNoError'
  BY AnswersInductive
<1> QED
  BY CreationInvariant, <1>1, <1>2, PTL DEF Spec

\* A lost race never shows as a violated constraint: nobody inserts under a key
\* that is taken.
THEOREM RaceIsNeverAnError == Spec => []RaceIsNoError
<1>1. Init => AnswersAreTrue /\ RaceIsNoError
  BY DEF Init, AnswersAreTrue, RaceIsNoError
<1>2. CreationInv /\ AnswersAreTrue /\ RaceIsNoError /\ [Next]_vars
         => AnswersAreTrue' /\ RaceIsNoError'
  BY AnswersInductive
<1> QED
  BY CreationInvariant, <1>1, <1>2, PTL DEF Spec

\* A request whose key was used when it came is answered by its first look at the
\* key: nothing removes the row.
KnownIsStored ==
    \A r \in Requests : req[r].known =>
        /\ \E i \in idem : i.key = req[r].key
        /\ req[r].pc \in {"lookup", "done"}
        /\ req[r].answer # "refused"

\* What a step of a known request may be.
LEMMA KnownStep ==
    ASSUME TypeOK, KnownIsStored, NEW r \in Requests, req[r].known, Work(r) \/ Interrupted(r)
    PROVE  ReplyStored(r) \/ Reply(r, "error", None)
<1>1. req[r].pc \in {"lookup", "done"} /\ RowsOf(req[r].key) # {}
  BY DEF KnownIsStored, RowsOf
<1>2. CASE Lookup(r)
  BY <1>1, <1>2 DEF Lookup
<1>3. CASE Interrupted(r)
  BY <1>3 DEF Interrupted
<1>4. ~(Validate(r) \/ AcquireLock(r) \/ Recheck(r) \/ Insert(r) \/ Commit(r) \/ CommitAnswerLost(r))
  BY <1>1 DEF Validate, AcquireLock, Recheck, Insert, Commit, CommitAnswerLost
<1> QED
  BY <1>2, <1>3, <1>4 DEF Work

\* Known is settled on arrival.
LEMMA KnownStays ==
    ASSUME TypeOK, NEW r \in Requests, Work(r) \/ Interrupted(r)
    PROVE  req'[r].known = req[r].known
<1>1. ASSUME NEW pc, Goto(r, pc) PROVE req'[r].known = req[r].known
  BY <1>1 DEF Goto, TypeOK, RequestStates
<1>2. ASSUME NEW a, NEW o, Reply(r, a, o) PROVE req'[r].known = req[r].known
  BY <1>2 DEF Reply, TypeOK, RequestStates
<1>3. \E pc, a, o : Goto(r, pc) \/ Reply(r, a, o)
  BY DEF Work, Interrupted, Lookup, Validate, AcquireLock, Recheck, Insert, Commit,
         CommitAnswerLost, ReplyStored
<1> QED
  BY <1>1, <1>2, <1>3

LEMMA KnownInductive ==
    ASSUME CreationInv, KnownIsStored, [Next]_vars
    PROVE  KnownIsStored'
<1> USE DEF CreationInv
<1>1. CASE UNCHANGED vars
  BY <1>1 DEF vars, KnownIsStored
<1>2. ASSUME NEW r \in Requests, NEW k \in Keys, NEW b \in Bodies, Arrive(r, k, b)
      PROVE  KnownIsStored'
  <2>1. /\ \A q \in Requests \ {r} : req'[q] = req[q]
        /\ req'[r].pc = "lookup" /\ req'[r].key = k /\ req'[r].answer = "none"
        /\ req'[r].known = (RowsOf(k) # {})
        /\ UNCHANGED idem
    BY <1>2 DEF Arrive, TypeOK, RequestStates, RequestShape
  <2>2. req'[r].known => \E i \in idem : i.key = k
    BY <2>1 DEF RowsOf
  <2>3. ASSUME NEW q \in Requests \ {r}, req'[q].known
        PROVE  /\ \E i \in idem' : i.key = req'[q].key
               /\ req'[q].pc \in {"lookup", "done"}
               /\ req'[q].answer # "refused"
    BY <2>1, <2>3 DEF KnownIsStored
  <2> QED
    BY <2>1, <2>2, <2>3 DEF KnownIsStored
<1>3. ASSUME NEW r \in Requests, Work(r) \/ Interrupted(r)
      PROVE  KnownIsStored'
  <2>1. idem \subseteq idem'
    BY <1>3, TablesChange DEF Written
  <2>2. /\ \A q \in Requests \ {r} : req'[q] = req[q]
        /\ req'[r].key = req[r].key
    BY <1>3, Frame
  <2>3. ASSUME req[r].known PROVE req'[r].pc = "done" /\ req'[r].answer # "refused"
    <3>1. \/ \E i : Reply(r, "existing", i) \/ Reply(r, "conflict", i)
          \/ Reply(r, "error", None)
      BY <1>3, <2>3, KnownStep, ReplyStoredCases
    <3> QED
      BY <3>1 DEF Reply, TypeOK, RequestStates
  <2>4. ASSUME NEW q \in Requests, req'[q].known
        PROVE  /\ \E i \in idem' : i.key = req'[q].key
               /\ req'[q].pc \in {"lookup", "done"}
               /\ req'[q].answer # "refused"
    <3>1. req[q].known /\ req'[q].key = req[q].key
      BY <1>3, <2>2, <2>4, KnownStays
    <3>2. \E i \in idem' : i.key = req'[q].key
      BY <2>1, <3>1 DEF KnownIsStored
    <3> QED
      BY <2>2, <2>3, <3>1, <3>2 DEF KnownIsStored
  <2> QED
    BY <2>4 DEF KnownIsStored
<1> QED
  BY <1>1, <1>2, <1>3 DEF Next

\* A repetition of a stored order is never refused by the catalog
\* (service.go:133: the key is looked up first).
THEOREM ReplayNeverNeedsCatalog == Spec => []ReplayNeedsNoCatalog
<1>1. Init => KnownIsStored
  BY DEF Init, KnownIsStored
<1>2. CreationInv /\ KnownIsStored /\ [Next]_vars => KnownIsStored'
  BY KnownInductive
<1>3. KnownIsStored => ReplayNeedsNoCatalog
  BY DEF KnownIsStored, ReplayNeedsNoCatalog
<1> QED
  BY CreationInvariant, <1>1, <1>2, <1>3, PTL DEF Spec

-----------------------------------------------------------------------------
(* Refinement *)

\* Before it arrives a request has no key, and before it is done no order.
Blank ==
    \A r \in Requests :
        /\ req[r].pc = "new" => req[r].key = None /\ req[r].body = None
        /\ req[r].pc # "done" => req[r].order = None

\* What the callers see of a step inside a request: nothing.
LEMMA GotoIsSilent ==
    ASSUME TypeOK, NEW r \in Requests, NEW pc, Goto(r, pc)
    PROVE  Told' = Told /\ req'[r].order = req[r].order
<1>1. \A q \in Requests :
          /\ req'[q].key = req[q].key /\ req'[q].body = req[q].body
          /\ req'[q].known = req[q].known
          /\ req'[q].answer = req[q].answer /\ req'[q].order = req[q].order
  BY DEF Goto, TypeOK, RequestStates
<1> QED
  BY <1>1 DEF Told

\* What the callers see of a reply: one answer, to a request that waits for it.
LEMMA ReplyIsTell ==
    ASSUME TypeOK, RequestShape, NEW r \in Requests, req[r].pc \notin {"new", "done"},
           NEW a, NEW o, Reply(r, a, o)
    PROVE  Promise!Tell(r, a, o)
<1>1. req[r].key \in Keys /\ req[r].answer = "none"
  BY DEF RequestShape
<1>2. Told[r].key # None /\ Told[r].answer = "none"
  BY <1>1, CreationAssumption DEF Told
<1>3. \A q \in Requests :
          /\ req'[q].key = req[q].key /\ req'[q].body = req[q].body
          /\ req'[q].known = req[q].known
          /\ req'[q].answer = IF q = r THEN a ELSE req[q].answer
          /\ req'[q].order = IF q = r THEN o ELSE req[q].order
  BY DEF Reply, TypeOK, RequestStates
<1>4. Told' = [Told EXCEPT ![r].answer = a, ![r].order = o]
  BY <1>3 DEF Told
<1> QED
  BY <1>2, <1>4 DEF Promise!Tell

LEMMA ReplyStoredIsRepeat ==
    ASSUME TypeOK, RequestShape, NEW r \in Requests, req[r].pc \notin {"new", "done"},
           ReplyStored(r), UNCHANGED idem
    PROVE  Promise!Repeat(r)
<1>1. PICK i \in idem :
            /\ i.key = req[r].key
            /\ \/ i.body = req[r].body /\ Reply(r, "existing", i.order)
               \/ i.body # req[r].body /\ Reply(r, "conflict", None)
  BY ReplyStoredCases
<1>2. i.key = Told[r].key /\ (i.body = Told[r].body <=> i.body = req[r].body)
  BY <1>1 DEF Told
<1> QED
  BY <1>1, <1>2, ReplyIsTell DEF Promise!Repeat

\* The commit is the moment of a creation, whatever the caller hears of it.
LEMMA WrittenIsCreate ==
    ASSUME TypeOK, RequestShape, KeyIsFree, NEW r \in Requests,
           Commit(r) \/ CommitAnswerLost(r)
    PROVE  Promise!Create(r)
<1>1. req[r].pc = "commit" /\ Written(r)
  BY DEF Commit, CommitAnswerLost
<1>2. Told[r].key = req[r].key /\ Told[r].body = req[r].body
  BY DEF Told
<1>3. ~Promise!Used(Told[r].key)
  BY <1>1, <1>2 DEF KeyIsFree, RowsOf, Promise!Used
<1>4. idem' = idem \cup {[key |-> Told[r].key, body |-> Told[r].body, order |-> r]}
  BY <1>1, <1>2 DEF Written
<1>5. Promise!Tell(r, "created", r) \/ Promise!Tell(r, "error", None)
  BY <1>1, ReplyIsTell DEF Commit, CommitAnswerLost
<1> QED
  BY <1>3, <1>4, <1>5 DEF Promise!Create

LEMMA ArriveIsAsk ==
    ASSUME TypeOK, RequestShape, Blank, NEW r \in Requests, NEW k \in Keys, NEW b \in Bodies,
           Arrive(r, k, b)
    PROVE  Promise!Ask(r, k, b)
<1>1. /\ req[r].pc = "new" /\ req[r].key = None
      /\ req[r].answer = "none" /\ req[r].order = None
  BY DEF Arrive, Blank, RequestShape
<1>2. /\ \A q \in Requests \ {r} : req'[q] = req[q]
      /\ req'[r].key = k /\ req'[r].body = b /\ req'[r].known = (RowsOf(k) # {})
      /\ req'[r].answer = req[r].answer /\ req'[r].order = req[r].order
      /\ UNCHANGED idem
  BY DEF Arrive, TypeOK, RequestStates
<1>3. (RowsOf(k) # {}) = Promise!Used(k)
  BY DEF RowsOf, Promise!Used
<1>4. Told' = [Told EXCEPT ![r] = [key |-> k, body |-> b, known |-> Promise!Used(k),
                                   answer |-> "none", order |-> None]]
  BY <1>1, <1>2, <1>3 DEF Told
<1>5. Told[r].key = None
  BY <1>1 DEF Told
<1> QED
  BY <1>2, <1>4, <1>5 DEF Promise!Ask

\* Every step of a request is one the promise allows, or nothing to the callers.
LEMMA WorkIsPromised ==
    ASSUME TypeOK, RequestShape, LockIsHeld, KeyIsFree, KnownIsStored,
           NEW r \in Requests, Work(r) \/ Interrupted(r)
    PROVE  \/ Promise!Create(r) \/ Promise!Repeat(r) \/ Promise!Refuse(r) \/ Promise!Fail(r)
           \/ Told' = Told /\ UNCHANGED idem
<1>1. req[r].pc \notin {"new", "done"}
  BY Frame
<1>2. CASE Lookup(r)
  BY <1>1, <1>2, GotoIsSilent, ReplyStoredIsRepeat DEF Lookup
<1>3. CASE Validate(r)
  <2>1. CASE Goto(r, "begin")
    BY <1>3, <2>1, GotoIsSilent DEF Validate
  <2>2. CASE Reply(r, "refused", None)
    <3>1. ~Told[r].known
      BY <1>3 DEF Validate, KnownIsStored, Told
    <3> QED
      BY <1>1, <1>3, <2>2, <3>1, ReplyIsTell DEF Validate, Promise!Refuse
  <2> QED
    BY <1>3, <2>1, <2>2 DEF Validate
<1>4. CASE AcquireLock(r)
  BY <1>4, GotoIsSilent DEF AcquireLock
<1>5. CASE Recheck(r)
  BY <1>1, <1>5, GotoIsSilent, ReplyStoredIsRepeat DEF Recheck
<1>6. CASE Insert(r)
  BY <1>6, GotoIsSilent DEF Insert, KeyIsFree
<1>7. CASE Commit(r) \/ CommitAnswerLost(r)
  BY <1>7, WrittenIsCreate
<1>8. CASE Interrupted(r)
  BY <1>1, <1>8, ReplyIsTell DEF Interrupted, Promise!Fail
<1> QED
  BY <1>2, <1>3, <1>4, <1>5, <1>6, <1>7, <1>8 DEF Work

LEMMA BlankInductive ==
    ASSUME CreationInv, Blank, [Next]_vars
    PROVE  Blank'
<1> USE DEF CreationInv
<1>1. CASE UNCHANGED vars
  BY <1>1 DEF vars, Blank
<1>2. ASSUME NEW r \in Requests, NEW k \in Keys, NEW b \in Bodies, Arrive(r, k, b)
      PROVE  Blank'
  <2>1. /\ \A q \in Requests \ {r} : req'[q] = req[q]
        /\ req'[r].pc = "lookup" /\ req'[r].order = None
    BY <1>2 DEF Arrive, TypeOK, RequestStates, Blank
  <2> QED
    BY <2>1 DEF Blank
<1>3. ASSUME NEW r \in Requests, Work(r) \/ Interrupted(r)
      PROVE  Blank'
  <2>1. /\ \A q \in Requests \ {r} : req'[q] = req[q]
        /\ req'[r].pc # "new" /\ req[r].pc \notin {"new", "done"}
    BY <1>3, Frame
  <2>2. ASSUME NEW a, NEW o, Reply(r, a, o)
        PROVE  req'[r].pc = "done"
    BY <2>2 DEF Reply, TypeOK, RequestStates
  <2>3. \/ \E pc : Goto(r, pc)
        \/ \E a, o : Reply(r, a, o)
    BY <1>3 DEF Work, Interrupted, Lookup, Validate, AcquireLock, Recheck, Insert, Commit,
           CommitAnswerLost, ReplyStored
  <2>4. req'[r].pc # "done" => req'[r].order = req[r].order
    BY <2>2, <2>3, GotoIsSilent
  <2> QED
    BY <2>1, <2>4 DEF Blank
<1> QED
  BY <1>1, <1>2, <1>3 DEF Next

\* Locks, two looks at the key, rollbacks and lost answers included, CreateOrder
\* is one atomic step to its callers: every step is a step of CreationPromise or
\* shows them nothing.
THEOREM CreationImplementsPromise == Spec => ImplementsPromise
<1>1. Init => Blank /\ KnownIsStored /\ Promise!PromiseInit
  BY DEF Init, Blank, KnownIsStored, Told, Promise!PromiseInit
<1>2. CreationInv /\ Blank /\ [Next]_vars => Blank'
  BY BlankInductive
<1>3. CreationInv /\ KnownIsStored /\ [Next]_vars => KnownIsStored'
  BY KnownInductive
<1>4. ASSUME CreationInv, Blank, KnownIsStored, [Next]_vars
      PROVE  [Promise!PromiseNext]_(Promise!promiseVars)
  <2>1. CASE UNCHANGED vars
    BY <2>1 DEF vars, Told, Promise!promiseVars
  <2>2. ASSUME NEW r \in Requests, NEW k \in Keys, NEW b \in Bodies, Arrive(r, k, b)
        PROVE  Promise!PromiseNext
    BY <1>4, <2>2, ArriveIsAsk DEF CreationInv, Promise!PromiseNext
  <2>3. ASSUME NEW r \in Requests, Work(r) \/ Interrupted(r)
        PROVE  [Promise!PromiseNext]_(Promise!promiseVars)
    BY <1>4, <2>3, WorkIsPromised DEF CreationInv, Promise!PromiseNext, Promise!promiseVars
  <2> QED
    BY <1>4, <2>1, <2>2, <2>3 DEF Next
<1> QED
  BY CreationInvariant, <1>1, <1>2, <1>3, <1>4, PTL DEF Spec, ImplementsPromise, Promise!PromiseSpec
=============================================================================
