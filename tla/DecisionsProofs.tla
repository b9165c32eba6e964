-------------------------- MODULE DecisionsProofs --------------------------
(* What a receipt says is true for every set of native requests, every     *)
(* number of runs and of faults.                                           *)
EXTENDS Decisions, TLAPS

Statuses == {"none", "pending", "answered", "responded", "cancelled", "expired"}
Tasks == Waiting \union {"none", "answering", "denying", "written", "confirmed"}
Natives == {"none", "open", "answered", "denied", "ended"}
Calls == [call : {"create", "receipt"}, d : Asked, run : Nat, status : Statuses,
          live : BOOLEAN]

Typed ==
    /\ server \in [Asked -> Statuses]
    /\ receipt \in [Asked -> {NoReceipt, "pending", "responded", "cancelled"}]
    /\ task \in [Asked -> Tasks]
    /\ native \in [Asked -> Natives]
    /\ net \subseteq Calls
    /\ cur \in Nat

\* The answer comes from the owner, and the callback that carries it belongs to
\* a request the native runtime still waits for.
AnswerOwned ==
    \A d \in Asked :
        /\ server[d] = "answered" => d \in owner
        /\ task[d] = "answering" => d \in owner
        /\ native[d] = "answered" => d \in owner
        /\ task[d] \in Waiting \union {"answering", "denying"} => native[d] = "open"

\* Whatever says responded, on its way from the writer to the server, is about
\* a request whose answer was written.
WordIsTrue ==
    \A d \in Asked :
        /\ task[d] \in {"written", "confirmed"} => native[d] = "answered"
        /\ receipt[d] = "responded" => native[d] = "answered"
        /\ server[d] = "responded" => native[d] = "answered"

\* A request has one creation whose answer is still waited for.
CallsTrue ==
    /\ \A c \in net :
          /\ c.call = "receipt" => c.status \in {"responded", "cancelled"}
          /\ (c.call = "receipt" /\ c.status = "responded") => native[c.d] = "answered"
          /\ (c.call = "create" /\ c.live) => task[c.d] = "creating"
    /\ \A c, e \in net :
          (c.call = "create" /\ c.live /\ e.call = "create" /\ e.live /\ c.d = e.d) => c = e

IInv == Typed /\ AnswerOwned /\ WordIsTrue /\ CallsTrue

LEMMA InitIInv == Init => IInv
  BY DEF Init, IInv, Typed, AnswerOwned, WordIsTrue, CallsTrue, Statuses, Tasks,
         Natives, NoReceipt, Waiting

\* A call that nobody waits for is a call.
LEMMA LeftIsCall ==
  ASSUME NEW c \in Calls
  PROVE  /\ [c EXCEPT !.live = FALSE] \in Calls
         /\ [c EXCEPT !.live = FALSE].live = FALSE
         /\ [c EXCEPT !.live = FALSE].call = c.call
         /\ [c EXCEPT !.live = FALSE].d = c.d
         /\ [c EXCEPT !.live = FALSE].status = c.status
  BY DEF Calls

LEMMA StepIInv ==
  ASSUME IInv, [Next]_vars
  PROVE  IInv'
<1>1. ASSUME NEW c \in net, Create(c) PROVE IInv'
  <2>1. Typed'
    BY <1>1 DEF Create, IInv, Typed, Calls, Statuses, Tasks, Natives,
           NoReceipt, Waiting, serverVars, broker
  <2>2. AnswerOwned'
    BY <1>1 DEF Create, IInv, Typed, AnswerOwned, CallsTrue, Calls,
           Waiting, serverVars, broker
  <2>3. WordIsTrue'
    BY <1>1 DEF Create, IInv, Typed, AnswerOwned, WordIsTrue, CallsTrue,
           Calls, NoReceipt, Waiting, serverVars, broker
  <2>4. CallsTrue'
    BY <1>1 DEF Create, IInv, Typed, AnswerOwned, WordIsTrue, CallsTrue,
           Calls, NoReceipt, Waiting, serverVars, broker
  <2> QED BY <2>1, <2>2, <2>3, <2>4 DEF IInv
<1>2. ASSUME NEW d \in Asked, OwnerAnswers(d) PROVE IInv'
  BY <1>2 DEF OwnerAnswers, Current, IInv, Typed, AnswerOwned, WordIsTrue, CallsTrue, Calls, Statuses,
         Tasks, Natives, NoReceipt, Waiting, serverVars, broker
<1>3. ASSUME NEW c \in net, Receipt(c) PROVE IInv'
  <2>1. Typed'
    BY <1>3 DEF Receipt, Accepts, IInv, Typed, Calls, Statuses, Tasks, Natives,
           NoReceipt, Waiting, serverVars, broker
  <2>2. AnswerOwned'
    BY <1>3 DEF Receipt, Accepts, IInv, Typed, AnswerOwned, CallsTrue, Calls,
           Waiting, serverVars, broker
  <2>3. WordIsTrue'
    BY <1>3 DEF Receipt, Accepts, IInv, Typed, AnswerOwned, WordIsTrue, CallsTrue,
           Calls, NoReceipt, Waiting, serverVars, broker
  <2>4. CallsTrue'
    BY <1>3 DEF Receipt, Accepts, IInv, Typed, AnswerOwned, WordIsTrue, CallsTrue,
           Calls, NoReceipt, Waiting, serverVars, broker
  <2> QED BY <2>1, <2>2, <2>3, <2>4 DEF IInv
<1>4. ASSUME NEW d \in Asked, Expire(d) PROVE IInv'
  BY <1>4 DEF Expire, Current, IInv, Typed, AnswerOwned, WordIsTrue, CallsTrue, Calls, Statuses,
         Tasks, Natives, NoReceipt, Waiting, serverVars, broker
<1>5. ASSUME NEW d \in Asked, TimeOver(d) PROVE IInv'
  BY <1>5 DEF TimeOver, IInv, Typed, AnswerOwned, WordIsTrue, CallsTrue, Calls, Statuses,
         Tasks, Natives, NoReceipt, Waiting, serverVars, broker
<1>6. CASE Lapse
  BY <1>6 DEF Lapse, IInv, Typed, AnswerOwned, WordIsTrue, CallsTrue, Calls, Statuses,
         Tasks, Natives, NoReceipt, Waiting, serverVars, broker
<1>7. CASE Regain
  BY <1>7 DEF Regain, IInv, Typed, AnswerOwned, WordIsTrue, CallsTrue, Calls, Statuses,
         Tasks, Natives, NoReceipt, Waiting, serverVars, broker
<1>8. ASSUME NEW r \in 1..MaxRuns, RunExpires(r) PROVE IInv'
  BY <1>8 DEF RunExpires, IInv, Typed, AnswerOwned, WordIsTrue, CallsTrue, Calls, Statuses,
         Tasks, Natives, NoReceipt, Waiting, serverVars, broker
<1>9. ASSUME NEW d \in Asked, Request(d) PROVE IInv'
  BY <1>9 DEF Request, IInv, Typed, AnswerOwned, WordIsTrue, CallsTrue, Calls, Statuses,
         Tasks, Natives, NoReceipt, Waiting, serverVars, broker
<1>10. ASSUME NEW d \in Asked, Offer(d) PROVE IInv'
  <2>1. Typed'
    <3>1. [call |-> "create", d |-> d, run |-> cur, status |-> "pending", live |-> TRUE]
             \in Calls
      BY <1>10 DEF Offer, IInv, Typed, Calls, Statuses, NoReceipt
    <3> QED BY <3>1, <1>10 DEF Offer, IInv, Typed, Tasks, Waiting, NoReceipt,
            serverVars, broker
  <2>2. AnswerOwned'
    BY <1>10 DEF Offer, IInv, Typed, AnswerOwned, CallsTrue, Calls,
           Waiting, serverVars, broker
  <2>3. WordIsTrue'
    BY <1>10 DEF Offer, IInv, Typed, AnswerOwned, WordIsTrue, CallsTrue,
           Calls, NoReceipt, Waiting, serverVars, broker
  <2>4. CallsTrue'
    <3> DEFINE new == [call |-> "create", d |-> d, run |-> cur, status |-> "pending",
                       live |-> TRUE]
    <3>1. net' = net \union {new} /\ native' = native /\ task[d] = "offering"
          /\ task' = [task EXCEPT ![d] = "creating"] /\ task \in [Asked -> Tasks]
      BY <1>10 DEF Offer, IInv, Typed
    <3>2. \A c \in net : (c.call = "create" /\ c.live) => c.d # d
      BY <3>1 DEF IInv, CallsTrue
    <3>3. \A c \in net : c.d \in Asked
      BY DEF IInv, Typed, Calls
    <3>4. new.call = "create" /\ new.d = d
      OBVIOUS
    <3>5. task'[d] = "creating"
          /\ \A x \in Asked : (task[x] = "creating" => task'[x] = "creating")
      BY <3>1
    <3> HIDE DEF new
    <3>6. ASSUME NEW c \in net'
          PROVE  /\ c.call = "receipt" => c.status \in {"responded", "cancelled"}
                 /\ (c.call = "receipt" /\ c.status = "responded")
                        => native'[c.d] = "answered"
                 /\ (c.call = "create" /\ c.live) => task'[c.d] = "creating"
      <4>1. CASE c \in net
        BY <4>1, <3>1, <3>3, <3>5 DEF IInv, CallsTrue
      <4>2. CASE c = new
        BY <4>2, <3>4, <3>5
      <4> QED BY <4>1, <4>2, <3>1
    <3>7. ASSUME NEW c \in net', NEW e \in net',
                 c.call = "create", c.live, e.call = "create", e.live, c.d = e.d
          PROVE  c = e
      BY <3>1, <3>2, <3>4, <3>7 DEF IInv, CallsTrue
    <3> QED BY <3>6, <3>7 DEF CallsTrue
  <2> QED BY <2>1, <2>2, <2>3, <2>4 DEF IInv
<1>11. ASSUME NEW d \in Asked, Poll(d) PROVE IInv'
  BY <1>11 DEF Poll, Current, IInv, Typed, AnswerOwned, WordIsTrue, CallsTrue, Calls, Statuses,
         Tasks, Natives, NoReceipt, Waiting, serverVars, broker
<1>12. ASSUME NEW d \in Asked, Fails(d) PROVE IInv'
  <2>1. Typed'
    BY <1>12 DEF Fails, Left, IInv, Typed, Calls, Statuses, Tasks, Natives,
           NoReceipt, Waiting, serverVars, broker
  <2>2. AnswerOwned'
    BY <1>12 DEF Fails, Left, IInv, Typed, AnswerOwned, CallsTrue, Calls,
           Waiting, serverVars, broker
  <2>3. WordIsTrue'
    BY <1>12 DEF Fails, Left, IInv, Typed, AnswerOwned, WordIsTrue, CallsTrue,
           Calls, NoReceipt, Waiting, serverVars, broker
  <2>4. CallsTrue'
    BY <1>12 DEF Fails, Left, IInv, Typed, AnswerOwned, WordIsTrue, CallsTrue,
           Calls, NoReceipt, Waiting, serverVars, broker
  <2> QED BY <2>1, <2>2, <2>3, <2>4 DEF IInv
<1>13. ASSUME NEW d \in Asked, Write(d) PROVE IInv'
  BY <1>13 DEF Write, IInv, Typed, AnswerOwned, WordIsTrue, CallsTrue, Calls, Statuses,
         Tasks, Natives, NoReceipt, Waiting, serverVars, broker
<1>14. ASSUME NEW d \in Asked, Confirm(d) PROVE IInv'
  BY <1>14 DEF Confirm, IInv, Typed, AnswerOwned, WordIsTrue, CallsTrue, Calls, Statuses,
         Tasks, Natives, NoReceipt, Waiting, serverVars, broker
<1>15. ASSUME NEW d \in Asked, Responded(d) PROVE IInv'
  BY <1>15 DEF Responded, IInv, Typed, AnswerOwned, WordIsTrue, CallsTrue, Calls, Statuses,
         Tasks, Natives, NoReceipt, Waiting, serverVars, broker
<1>16. ASSUME NEW d \in Asked, Ends(d) PROVE IInv'
  <2>1. Typed'
    BY <1>16 DEF Ends, Left, IInv, Typed, Calls, Statuses, Tasks, Natives,
           NoReceipt, Waiting, serverVars, broker
  <2>2. AnswerOwned'
    BY <1>16 DEF Ends, Left, IInv, Typed, AnswerOwned, CallsTrue, Calls,
           Waiting, serverVars, broker
  <2>3. WordIsTrue'
    BY <1>16 DEF Ends, Left, IInv, Typed, AnswerOwned, WordIsTrue, CallsTrue,
           Calls, NoReceipt, Waiting, serverVars, broker
  <2>4. CallsTrue'
    BY <1>16 DEF Ends, Left, IInv, Typed, AnswerOwned, WordIsTrue, CallsTrue,
           Calls, NoReceipt, Waiting, serverVars, broker
  <2> QED BY <2>1, <2>2, <2>3, <2>4 DEF IInv
<1>17. ASSUME NEW d \in Asked, Flush(d) PROVE IInv'
  <2>1. Typed'
    <3>1. [call |-> "receipt", d |-> d, run |-> cur, status |-> receipt[d], live |-> TRUE]
             \in Calls
      BY <1>17 DEF Flush, IInv, Typed, Calls, Statuses, NoReceipt
    <3> QED BY <3>1, <1>17 DEF Flush, IInv, Typed, Tasks, Waiting, NoReceipt,
            serverVars, broker
  <2>2. AnswerOwned'
    BY <1>17 DEF Flush, IInv, Typed, AnswerOwned, CallsTrue, Calls,
           Waiting, serverVars, broker
  <2>3. WordIsTrue'
    BY <1>17 DEF Flush, IInv, Typed, AnswerOwned, WordIsTrue, CallsTrue,
           Calls, NoReceipt, Waiting, serverVars, broker
  <2>4. CallsTrue'
    BY <1>17 DEF Flush, IInv, Typed, AnswerOwned, WordIsTrue, CallsTrue,
           Calls, NoReceipt, Waiting, serverVars, broker
  <2> QED BY <2>1, <2>2, <2>3, <2>4 DEF IInv
<1>18. CASE FlushFails
  <2>1. Typed'
    BY <1>18 DEF FlushFails, IInv, Typed, Calls, Statuses, Tasks, Natives,
           NoReceipt, Waiting, serverVars, broker
  <2>2. AnswerOwned'
    BY <1>18 DEF FlushFails, IInv, Typed, AnswerOwned, CallsTrue, Calls,
           Waiting, serverVars, broker
  <2>3. WordIsTrue'
    BY <1>18 DEF FlushFails, IInv, Typed, AnswerOwned, WordIsTrue, CallsTrue,
           Calls, NoReceipt, Waiting, serverVars, broker
  <2>4. CallsTrue'
    BY <1>18 DEF FlushFails, IInv, Typed, AnswerOwned, WordIsTrue, CallsTrue,
           Calls, NoReceipt, Waiting, serverVars, broker
  <2> QED BY <2>1, <2>2, <2>3, <2>4 DEF IInv
<1>19. CASE Close
  <2>1. Typed'
    <3>1. net' \subseteq Calls
      BY <1>19, LeftIsCall DEF Close, AllLeft, IInv, Typed
    <3> QED BY <3>1, <1>19 DEF Close, Unresolved, IInv, Typed, Tasks, Natives, NoReceipt,
            serverVars, broker
  <2>2. AnswerOwned'
    BY <1>19 DEF Close, Unresolved, AllLeft, IInv, Typed, AnswerOwned, CallsTrue, Calls,
           Waiting, serverVars, broker
  <2>3. WordIsTrue'
    BY <1>19 DEF Close, Unresolved, AllLeft, IInv, Typed, AnswerOwned, WordIsTrue, CallsTrue,
           Calls, NoReceipt, Waiting, serverVars, broker
  <2>4. CallsTrue'
    BY <1>19 DEF Close, Unresolved, AllLeft, IInv, Typed, AnswerOwned, WordIsTrue, CallsTrue,
           Calls, NoReceipt, Waiting, serverVars, broker
  <2> QED BY <2>1, <2>2, <2>3, <2>4 DEF IInv
<1>20. CASE Closed
  <2>1. Typed'
    <3>1. net' \subseteq Calls
      BY <1>20, LeftIsCall DEF Closed, AllLeft, IInv, Typed
    <3> QED BY <3>1, <1>20 DEF Closed, IInv, Typed, Tasks, Natives, NoReceipt,
            serverVars, broker
  <2>2. AnswerOwned'
    BY <1>20 DEF Closed, AllLeft, IInv, Typed, AnswerOwned, CallsTrue, Calls,
           Waiting, serverVars, broker
  <2>3. WordIsTrue'
    BY <1>20 DEF Closed, AllLeft, IInv, Typed, AnswerOwned, WordIsTrue, CallsTrue,
           Calls, NoReceipt, Waiting, serverVars, broker
  <2>4. CallsTrue'
    BY <1>20 DEF Closed, AllLeft, IInv, Typed, AnswerOwned, WordIsTrue, CallsTrue,
           Calls, NoReceipt, Waiting, serverVars, broker
  <2> QED BY <2>1, <2>2, <2>3, <2>4 DEF IInv
<1>21. CASE Crash
  <2>1. Typed'
    <3>1. net' \subseteq Calls
      BY <1>21, LeftIsCall DEF Crash, AllLeft, IInv, Typed
    <3> QED BY <3>1, <1>21 DEF Crash, IInv, Typed, Tasks, Natives, NoReceipt,
            serverVars, broker
  <2>2. AnswerOwned'
    BY <1>21 DEF Crash, AllLeft, IInv, Typed, AnswerOwned, CallsTrue, Calls,
           Waiting, serverVars, broker
  <2>3. WordIsTrue'
    BY <1>21 DEF Crash, AllLeft, IInv, Typed, AnswerOwned, WordIsTrue, CallsTrue,
           Calls, NoReceipt, Waiting, serverVars, broker
  <2>4. CallsTrue'
    BY <1>21 DEF Crash, AllLeft, IInv, Typed, AnswerOwned, WordIsTrue, CallsTrue,
           Calls, NoReceipt, Waiting, serverVars, broker
  <2> QED BY <2>1, <2>2, <2>3, <2>4 DEF IInv
<1>22. CASE Open
  BY <1>22 DEF Open, Unresolved, IInv, Typed, AnswerOwned, WordIsTrue, CallsTrue, Calls, Statuses,
         Tasks, Natives, NoReceipt, Waiting, serverVars, broker
<1>23. CASE UNCHANGED vars
  BY <1>23 DEF vars, IInv, Typed, AnswerOwned, WordIsTrue, CallsTrue, Calls, Statuses,
         Tasks, Natives, NoReceipt, Waiting, serverVars, broker
<1> QED
  BY <1>1, <1>2, <1>3, <1>4, <1>5, <1>6, <1>7, <1>8, <1>9, <1>10, <1>11, <1>12, <1>13, <1>14, <1>15, <1>16, <1>17, <1>18, <1>19, <1>20, <1>21, <1>22, <1>23
     DEF Next, AtServer, World, Listener, Callback

\* The server shows responded only of what the native runtime has, and that is
\* an answer of the owner: callbacks cancelled between the answer, the write and
\* its confirmation, lost and late receipts and restarts make no difference.
THEOREM ResponsesTrue == Spec => []RespondedTrue
<1>1. IInv => RespondedTrue
  BY DEF IInv, AnswerOwned, WordIsTrue, RespondedTrue
<1> QED BY InitIInv, StepIInv, <1>1, PTL DEF Spec

-----------------------------------------------------------------------------
\* A request that has not been offered has no record and no creation on its
\* way; an answer the callback has, or tells of, is one the server recorded.
Known ==
    \A d \in Asked :
        /\ native[d] = "none" => (server[d] = "none" /\ task[d] = "none")
        /\ task[d] = "offering" => server[d] = "none"
        /\ (task[d] \in {"answering", "written", "confirmed"} \/ receipt[d] = "responded")
              => server[d] \notin {"none", "pending"}

\* A creation is on its way once, and nothing of its record is there before it.
CallsKnown ==
    /\ \A c \in net :
          /\ c.call = "create" => (server[c.d] = "none" /\ native[c.d] # "none"
                                   /\ task[c.d] # "offering")
          /\ (c.call = "receipt" /\ c.status = "responded")
                => server[c.d] \notin {"none", "pending"}
    /\ \A c, e \in net :
          (c.call = "create" /\ e.call = "create" /\ c.d = e.d) => c = e

KInv == IInv /\ Known /\ CallsKnown /\ SettledIsKnown

LEMMA InitKInv == Init => KInv
  BY InitIInv DEF Init, KInv, Known, CallsKnown, SettledIsKnown, NoReceipt

LEMMA StepKInv ==
  ASSUME KInv, [Next]_vars
  PROVE  KInv'
<1>0. IInv'
  BY StepIInv DEF KInv
<1>1. ASSUME NEW c \in net, Create(c) PROVE Known' /\ CallsKnown' /\ SettledIsKnown'
  <2>1. Known'
    BY <1>1 DEF Create, AnswerOwned, CallsKnown, KInv, IInv, Typed, Known, Calls, NoReceipt,
           Waiting, serverVars, broker
  <2>2. CallsKnown'
    BY <1>1 DEF Create, CallsTrue, CallsKnown, AnswerOwned, KInv, IInv, Typed, Known, Calls, NoReceipt,
           Waiting, serverVars, broker
  <2>3. SettledIsKnown'
    BY <1>1 DEF Create, CallsTrue, CallsKnown, SettledIsKnown, KInv, IInv, Typed, Known, Calls, NoReceipt,
           Waiting, serverVars, broker
  <2> QED BY <2>1, <2>2, <2>3
<1>2. ASSUME NEW d \in Asked, OwnerAnswers(d) PROVE Known' /\ CallsKnown' /\ SettledIsKnown'
  <2>1. Known'
    BY <1>2 DEF OwnerAnswers, Current, AnswerOwned, CallsKnown, KInv, IInv, Typed, Known, Calls, NoReceipt,
           Waiting, serverVars, broker
  <2>2. CallsKnown'
    BY <1>2 DEF OwnerAnswers, Current, CallsTrue, CallsKnown, AnswerOwned, KInv, IInv, Typed, Known, Calls, NoReceipt,
           Waiting, serverVars, broker
  <2>3. SettledIsKnown'
    BY <1>2 DEF OwnerAnswers, Current, CallsTrue, CallsKnown, SettledIsKnown, KInv, IInv, Typed, Known, Calls, NoReceipt,
           Waiting, serverVars, broker
  <2> QED BY <2>1, <2>2, <2>3
<1>3. ASSUME NEW c \in net, Receipt(c) PROVE Known' /\ CallsKnown' /\ SettledIsKnown'
  <2>1. Known'
    BY <1>3 DEF Receipt, Accepts, AnswerOwned, CallsTrue, CallsKnown, KInv, IInv, Typed, Known, Calls, NoReceipt,
           Waiting, serverVars, broker
  <2>2. CallsKnown'
    BY <1>3 DEF Receipt, Accepts, CallsTrue, CallsKnown, AnswerOwned, KInv, IInv, Typed, Known, Calls, NoReceipt,
           Waiting, serverVars, broker
  <2>3. SettledIsKnown'
    BY <1>3 DEF Receipt, Accepts, CallsTrue, CallsKnown, SettledIsKnown, KInv, IInv, Typed, Known, Calls, NoReceipt,
           Waiting, serverVars, broker
  <2> QED BY <2>1, <2>2, <2>3
<1>4. ASSUME NEW d \in Asked, Expire(d) PROVE Known' /\ CallsKnown' /\ SettledIsKnown'
  <2>1. Known'
    BY <1>4 DEF Expire, Current, AnswerOwned, CallsKnown, KInv, IInv, Typed, Known, Calls, NoReceipt,
           Waiting, serverVars, broker
  <2>2. CallsKnown'
    BY <1>4 DEF Expire, Current, CallsTrue, CallsKnown, AnswerOwned, KInv, IInv, Typed, Known, Calls, NoReceipt,
           Waiting, serverVars, broker
  <2>3. SettledIsKnown'
    BY <1>4 DEF Expire, Current, CallsTrue, CallsKnown, SettledIsKnown, KInv, IInv, Typed, Known, Calls, NoReceipt,
           Waiting, serverVars, broker
  <2> QED BY <2>1, <2>2, <2>3
<1>5. ASSUME NEW d \in Asked, TimeOver(d) PROVE Known' /\ CallsKnown' /\ SettledIsKnown'
  <2>1. Known'
    BY <1>5 DEF TimeOver, AnswerOwned, CallsKnown, KInv, IInv, Typed, Known, Calls, NoReceipt,
           Waiting, serverVars, broker
  <2>2. CallsKnown'
    BY <1>5 DEF TimeOver, CallsTrue, CallsKnown, AnswerOwned, KInv, IInv, Typed, Known, Calls, NoReceipt,
           Waiting, serverVars, broker
  <2>3. SettledIsKnown'
    BY <1>5 DEF TimeOver, CallsTrue, CallsKnown, SettledIsKnown, KInv, IInv, Typed, Known, Calls, NoReceipt,
           Waiting, serverVars, broker
  <2> QED BY <2>1, <2>2, <2>3
<1>6. CASE Lapse
  <2>1. Known'
    BY <1>6 DEF Lapse, AnswerOwned, CallsKnown, KInv, IInv, Typed, Known, Calls, NoReceipt,
           Waiting, serverVars, broker
  <2>2. CallsKnown'
    BY <1>6 DEF Lapse, CallsTrue, CallsKnown, AnswerOwned, KInv, IInv, Typed, Known, Calls, NoReceipt,
           Waiting, serverVars, broker
  <2>3. SettledIsKnown'
    BY <1>6 DEF Lapse, CallsTrue, CallsKnown, SettledIsKnown, KInv, IInv, Typed, Known, Calls, NoReceipt,
           Waiting, serverVars, broker
  <2> QED BY <2>1, <2>2, <2>3, <1>0 DEF KInv
<1>7. CASE Regain
  <2>1. Known'
    BY <1>7 DEF Regain, AnswerOwned, CallsKnown, KInv, IInv, Typed, Known, Calls, NoReceipt,
           Waiting, serverVars, broker
  <2>2. CallsKnown'
    BY <1>7 DEF Regain, CallsTrue, CallsKnown, AnswerOwned, KInv, IInv, Typed, Known, Calls, NoReceipt,
           Waiting, serverVars, broker
  <2>3. SettledIsKnown'
    BY <1>7 DEF Regain, CallsTrue, CallsKnown, SettledIsKnown, KInv, IInv, Typed, Known, Calls, NoReceipt,
           Waiting, serverVars, broker
  <2> QED BY <2>1, <2>2, <2>3, <1>0 DEF KInv
<1>8. ASSUME NEW r \in 1..MaxRuns, RunExpires(r) PROVE Known' /\ CallsKnown' /\ SettledIsKnown'
  <2>1. Known'
    BY <1>8 DEF RunExpires, AnswerOwned, CallsKnown, KInv, IInv, Typed, Known, Calls, NoReceipt,
           Waiting, serverVars, broker
  <2>2. CallsKnown'
    BY <1>8 DEF RunExpires, CallsTrue, CallsKnown, AnswerOwned, KInv, IInv, Typed, Known, Calls, NoReceipt,
           Waiting, serverVars, broker
  <2>3. SettledIsKnown'
    BY <1>8 DEF RunExpires, CallsTrue, CallsKnown, SettledIsKnown, KInv, IInv, Typed, Known, Calls, NoReceipt,
           Waiting, serverVars, broker
  <2> QED BY <2>1, <2>2, <2>3
<1>9. ASSUME NEW d \in Asked, Request(d) PROVE Known' /\ CallsKnown' /\ SettledIsKnown'
  <2>1. Known'
    BY <1>9 DEF Request, AnswerOwned, CallsKnown, KInv, IInv, Typed, Known, Calls, NoReceipt,
           Waiting, serverVars, broker
  <2>2. CallsKnown'
    BY <1>9 DEF Request, CallsTrue, CallsKnown, AnswerOwned, KInv, IInv, Typed, Known, Calls, NoReceipt,
           Waiting, serverVars, broker
  <2>3. SettledIsKnown'
    BY <1>9 DEF Request, CallsTrue, CallsKnown, SettledIsKnown, KInv, IInv, Typed, Known, Calls, NoReceipt,
           Waiting, serverVars, broker
  <2> QED BY <2>1, <2>2, <2>3
<1>10. ASSUME NEW d \in Asked, Offer(d) PROVE Known' /\ CallsKnown' /\ SettledIsKnown'
  <2>1. Known'
    BY <1>10 DEF Offer, AnswerOwned, CallsKnown, KInv, IInv, Typed, Known, Calls, NoReceipt,
           Waiting, serverVars, broker
  <2>2. CallsKnown'
    <3> DEFINE new == [call |-> "create", d |-> d, run |-> cur, status |-> "pending",
                       live |-> TRUE]
    <3>1. /\ net' = net \union {new} /\ native' = native /\ server' = server
          /\ task[d] = "offering" /\ task' = [task EXCEPT ![d] = "creating"]
          /\ task \in [Asked -> Tasks]
      BY <1>10 DEF Offer, KInv, IInv, Typed, serverVars
    <3>2. \A c \in net : c.d \in Asked /\ (c.call = "create" => c.d # d)
      BY <3>1 DEF KInv, IInv, Typed, Calls, CallsKnown
    <3>3. new.call = "create" /\ new.d = d
      OBVIOUS
    <3>4. server[d] = "none" /\ native[d] # "none"
      BY <3>1 DEF KInv, Known, IInv, AnswerOwned, Waiting
    <3>5. \A x \in Asked : task'[x] = IF x = d THEN "creating" ELSE task[x]
      BY <3>1
    <3> HIDE DEF new
    <3>6. ASSUME NEW c \in net'
          PROVE  /\ c.call = "create" => (server'[c.d] = "none" /\ native'[c.d] # "none"
                                           /\ task'[c.d] # "offering")
                 /\ (c.call = "receipt" /\ c.status = "responded")
                        => server'[c.d] \notin {"none", "pending"}
      <4>1. CASE c \in net
        BY <4>1, <3>1, <3>2, <3>5 DEF KInv, CallsKnown
      <4>2. CASE c = new
        BY <4>2, <3>1, <3>3, <3>4, <3>5
      <4> QED BY <4>1, <4>2, <3>1
    <3>7. ASSUME NEW c \in net', NEW e \in net', c.call = "create", e.call = "create",
                 c.d = e.d
          PROVE  c = e
      BY <3>1, <3>2, <3>3, <3>7 DEF KInv, CallsKnown
    <3> QED BY <3>6, <3>7 DEF CallsKnown
  <2>3. SettledIsKnown'
    BY <1>10 DEF Offer, CallsTrue, CallsKnown, SettledIsKnown, KInv, IInv, Typed, Known, Calls, NoReceipt,
           Waiting, serverVars, broker
  <2> QED BY <2>1, <2>2, <2>3
<1>11. ASSUME NEW d \in Asked, Poll(d) PROVE Known' /\ CallsKnown' /\ SettledIsKnown'
  <2>1. Known'
    BY <1>11 DEF Poll, Current, AnswerOwned, CallsKnown, KInv, IInv, Typed, Known, Calls, NoReceipt,
           Waiting, serverVars, broker
  <2>2. CallsKnown'
    BY <1>11 DEF Poll, Current, CallsTrue, CallsKnown, AnswerOwned, KInv, IInv, Typed, Known, Calls, NoReceipt,
           Waiting, serverVars, broker
  <2>3. SettledIsKnown'
    BY <1>11 DEF Poll, Current, CallsTrue, CallsKnown, SettledIsKnown, KInv, IInv, Typed, Known, Calls, NoReceipt,
           Waiting, serverVars, broker
  <2> QED BY <2>1, <2>2, <2>3
<1>12. ASSUME NEW d \in Asked, Fails(d) PROVE Known' /\ CallsKnown' /\ SettledIsKnown'
  <2>1. Known'
    BY <1>12 DEF Fails, Left, AnswerOwned, CallsKnown, KInv, IInv, Typed, Known, Calls, NoReceipt,
           Waiting, serverVars, broker
  <2>2. CallsKnown'
    <3> DEFINE F(c) == IF c.d = d /\ c.call = "create" THEN [c EXCEPT !.live = FALSE] ELSE c
    <3>1. \A c \in net : c \in Calls /\ F(c).call = c.call /\ F(c).d = c.d
                          /\ F(c).status = c.status
      BY LeftIsCall DEF KInv, IInv, Typed
    <3>2. net' = {F(c) : c \in net}
      BY <1>12 DEF Fails, Left
    <3> HIDE DEF F
    <3>3. /\ server' = server
          /\ \A x \in Asked : native[x] # "none" => native'[x] # "none"
          /\ \A x \in Asked : task'[x] = "offering" => task[x] = "offering"
      BY <1>12 DEF Fails, KInv, IInv, Typed, Tasks, serverVars
    <3>4. \A c \in net : c.d \in Asked
      BY <3>1 DEF Calls
    <3>5. ASSUME NEW c \in net'
          PROVE  /\ c.call = "create" => (server'[c.d] = "none" /\ native'[c.d] # "none"
                                           /\ task'[c.d] # "offering")
                 /\ (c.call = "receipt" /\ c.status = "responded")
                        => server'[c.d] \notin {"none", "pending"}
      <4>1. PICK o \in net : c = F(o)
        BY <3>2
      <4> QED BY <4>1, <3>1, <3>3, <3>4 DEF KInv, CallsKnown
    <3>6. ASSUME NEW c \in net', NEW e \in net', c.call = "create", e.call = "create",
                 c.d = e.d
          PROVE  c = e
      <4>1. PICK o \in net : c = F(o)
        BY <3>2
      <4>2. PICK q \in net : e = F(q)
        BY <3>2
      <4> QED BY <4>1, <4>2, <3>1, <3>6 DEF KInv, CallsKnown
    <3> QED BY <3>5, <3>6 DEF CallsKnown
  <2>3. SettledIsKnown'
    BY <1>12 DEF Fails, Left, CallsTrue, CallsKnown, SettledIsKnown, KInv, IInv, Typed, Known, Calls, NoReceipt,
           Waiting, serverVars, broker
  <2> QED BY <2>1, <2>2, <2>3
<1>13. ASSUME NEW d \in Asked, Write(d) PROVE Known' /\ CallsKnown' /\ SettledIsKnown'
  <2>1. Known'
    BY <1>13 DEF Write, AnswerOwned, CallsKnown, KInv, IInv, Typed, Known, Calls, NoReceipt,
           Waiting, serverVars, broker
  <2>2. CallsKnown'
    BY <1>13 DEF Write, CallsTrue, CallsKnown, AnswerOwned, KInv, IInv, Typed, Known, Calls, NoReceipt,
           Waiting, serverVars, broker
  <2>3. SettledIsKnown'
    BY <1>13 DEF Write, CallsTrue, CallsKnown, SettledIsKnown, KInv, IInv, Typed, Known, Calls, NoReceipt,
           Waiting, serverVars, broker
  <2> QED BY <2>1, <2>2, <2>3
<1>14. ASSUME NEW d \in Asked, Confirm(d) PROVE Known' /\ CallsKnown' /\ SettledIsKnown'
  <2>1. Known'
    BY <1>14 DEF Confirm, AnswerOwned, CallsKnown, KInv, IInv, Typed, Known, Calls, NoReceipt,
           Waiting, serverVars, broker
  <2>2. CallsKnown'
    BY <1>14 DEF Confirm, CallsTrue, CallsKnown, AnswerOwned, KInv, IInv, Typed, Known, Calls, NoReceipt,
           Waiting, serverVars, broker
  <2>3. SettledIsKnown'
    BY <1>14 DEF Confirm, CallsTrue, CallsKnown, SettledIsKnown, KInv, IInv, Typed, Known, Calls, NoReceipt,
           Waiting, serverVars, broker
  <2> QED BY <2>1, <2>2, <2>3
<1>15. ASSUME NEW d \in Asked, Responded(d) PROVE Known' /\ CallsKnown' /\ SettledIsKnown'
  <2>1. Known'
    BY <1>15 DEF Responded, AnswerOwned, CallsKnown, KInv, IInv, Typed, Known, Calls, NoReceipt,
           Waiting, serverVars, broker
  <2>2. CallsKnown'
    BY <1>15 DEF Responded, CallsTrue, CallsKnown, AnswerOwned, KInv, IInv, Typed, Known, Calls, NoReceipt,
           Waiting, serverVars, broker
  <2>3. SettledIsKnown'
    BY <1>15 DEF Responded, CallsTrue, CallsKnown, SettledIsKnown, KInv, IInv, Typed, Known, Calls, NoReceipt,
           Waiting, serverVars, broker
  <2> QED BY <2>1, <2>2, <2>3
<1>16. ASSUME NEW d \in Asked, Ends(d) PROVE Known' /\ CallsKnown' /\ SettledIsKnown'
  <2>1. Known'
    BY <1>16 DEF Ends, Left, AnswerOwned, CallsKnown, KInv, IInv, Typed, Known, Calls, NoReceipt,
           Waiting, serverVars, broker
  <2>2. CallsKnown'
    <3> DEFINE F(c) == IF c.d = d /\ c.call = "create" THEN [c EXCEPT !.live = FALSE] ELSE c
    <3>1. \A c \in net : c \in Calls /\ F(c).call = c.call /\ F(c).d = c.d
                          /\ F(c).status = c.status
      BY LeftIsCall DEF KInv, IInv, Typed
    <3>2. net' = {F(c) : c \in net}
      BY <1>16 DEF Ends, Left
    <3> HIDE DEF F
    <3>3. /\ server' = server
          /\ \A x \in Asked : native[x] # "none" => native'[x] # "none"
          /\ \A x \in Asked : task'[x] = "offering" => task[x] = "offering"
      BY <1>16 DEF Ends, KInv, IInv, Typed, Tasks, serverVars
    <3>4. \A c \in net : c.d \in Asked
      BY <3>1 DEF Calls
    <3>5. ASSUME NEW c \in net'
          PROVE  /\ c.call = "create" => (server'[c.d] = "none" /\ native'[c.d] # "none"
                                           /\ task'[c.d] # "offering")
                 /\ (c.call = "receipt" /\ c.status = "responded")
                        => server'[c.d] \notin {"none", "pending"}
      <4>1. PICK o \in net : c = F(o)
        BY <3>2
      <4> QED BY <4>1, <3>1, <3>3, <3>4 DEF KInv, CallsKnown
    <3>6. ASSUME NEW c \in net', NEW e \in net', c.call = "create", e.call = "create",
                 c.d = e.d
          PROVE  c = e
      <4>1. PICK o \in net : c = F(o)
        BY <3>2
      <4>2. PICK q \in net : e = F(q)
        BY <3>2
      <4> QED BY <4>1, <4>2, <3>1, <3>6 DEF KInv, CallsKnown
    <3> QED BY <3>5, <3>6 DEF CallsKnown
  <2>3. SettledIsKnown'
    BY <1>16 DEF Ends, Left, CallsTrue, CallsKnown, SettledIsKnown, KInv, IInv, Typed, Known, Calls, NoReceipt,
           Waiting, serverVars, broker
  <2> QED BY <2>1, <2>2, <2>3
<1>17. ASSUME NEW d \in Asked, Flush(d) PROVE Known' /\ CallsKnown' /\ SettledIsKnown'
  <2>1. Known'
    BY <1>17 DEF Flush, AnswerOwned, CallsKnown, KInv, IInv, Typed, Known, Calls, NoReceipt,
           Waiting, serverVars, broker
  <2>2. CallsKnown'
    BY <1>17 DEF Flush, CallsTrue, CallsKnown, AnswerOwned, KInv, IInv, Typed, Known, Calls, NoReceipt,
           Waiting, serverVars, broker
  <2>3. SettledIsKnown'
    BY <1>17 DEF Flush, CallsTrue, CallsKnown, SettledIsKnown, KInv, IInv, Typed, Known, Calls, NoReceipt,
           Waiting, serverVars, broker
  <2> QED BY <2>1, <2>2, <2>3
<1>18. CASE FlushFails
  <2>1. Known'
    BY <1>18 DEF FlushFails, AnswerOwned, CallsKnown, KInv, IInv, Typed, Known, Calls, NoReceipt,
           Waiting, serverVars, broker
  <2>2. CallsKnown'
    BY <1>18 DEF FlushFails, CallsTrue, CallsKnown, AnswerOwned, KInv, IInv, Typed, Known, Calls, NoReceipt,
           Waiting, serverVars, broker
  <2>3. SettledIsKnown'
    BY <1>18 DEF FlushFails, CallsTrue, CallsKnown, SettledIsKnown, KInv, IInv, Typed, Known, Calls, NoReceipt,
           Waiting, serverVars, broker
  <2> QED BY <2>1, <2>2, <2>3, <1>0 DEF KInv
<1>19. CASE Close
  <2>1. Known'
    BY <1>19 DEF Close, Unresolved, AllLeft, AnswerOwned, CallsKnown, KInv, IInv, Typed, Known, Calls, NoReceipt,
           Waiting, serverVars, broker
  <2>2. CallsKnown'
    <3> DEFINE F(c) == [c EXCEPT !.live = FALSE]
    <3>1. \A c \in net : c \in Calls /\ F(c).call = c.call /\ F(c).d = c.d
                          /\ F(c).status = c.status
      BY LeftIsCall DEF KInv, IInv, Typed
    <3>2. net' = {F(c) : c \in net}
      BY <1>19 DEF Close, AllLeft
    <3> HIDE DEF F
    <3>3. /\ server' = server
          /\ \A x \in Asked : native[x] # "none" => native'[x] # "none"
          /\ \A x \in Asked : task'[x] = "offering" => task[x] = "offering"
      BY <1>19 DEF Close, KInv, IInv, Typed, Tasks, serverVars
    <3>4. \A c \in net : c.d \in Asked
      BY <3>1 DEF Calls
    <3>5. ASSUME NEW c \in net'
          PROVE  /\ c.call = "create" => (server'[c.d] = "none" /\ native'[c.d] # "none"
                                           /\ task'[c.d] # "offering")
                 /\ (c.call = "receipt" /\ c.status = "responded")
                        => server'[c.d] \notin {"none", "pending"}
      <4>1. PICK o \in net : c = F(o)
        BY <3>2
      <4> QED BY <4>1, <3>1, <3>3, <3>4 DEF KInv, CallsKnown
    <3>6. ASSUME NEW c \in net', NEW e \in net', c.call = "create", e.call = "create",
                 c.d = e.d
          PROVE  c = e
      <4>1. PICK o \in net : c = F(o)
        BY <3>2
      <4>2. PICK q \in net : e = F(q)
        BY <3>2
      <4> QED BY <4>1, <4>2, <3>1, <3>6 DEF KInv, CallsKnown
    <3> QED BY <3>5, <3>6 DEF CallsKnown
  <2>3. SettledIsKnown'
    BY <1>19 DEF Close, Unresolved, AllLeft, CallsTrue, CallsKnown, SettledIsKnown, KInv, IInv, Typed, Known, Calls, NoReceipt,
           Waiting, serverVars, broker
  <2> QED BY <2>1, <2>2, <2>3, <1>0 DEF KInv
<1>20. CASE Closed
  <2>1. Known'
    BY <1>20 DEF Closed, AllLeft, AnswerOwned, CallsKnown, KInv, IInv, Typed, Known, Calls, NoReceipt,
           Waiting, serverVars, broker
  <2>2. CallsKnown'
    <3> DEFINE F(c) == [c EXCEPT !.live = FALSE]
    <3>1. \A c \in net : c \in Calls /\ F(c).call = c.call /\ F(c).d = c.d
                          /\ F(c).status = c.status
      BY LeftIsCall DEF KInv, IInv, Typed
    <3>2. net' = {F(c) : c \in net}
      BY <1>20 DEF Closed, AllLeft
    <3> HIDE DEF F
    <3>3. /\ server' = server
          /\ \A x \in Asked : native[x] # "none" => native'[x] # "none"
          /\ \A x \in Asked : task'[x] = "offering" => task[x] = "offering"
      BY <1>20 DEF Closed, KInv, IInv, Typed, Tasks, serverVars
    <3>4. \A c \in net : c.d \in Asked
      BY <3>1 DEF Calls
    <3>5. ASSUME NEW c \in net'
          PROVE  /\ c.call = "create" => (server'[c.d] = "none" /\ native'[c.d] # "none"
                                           /\ task'[c.d] # "offering")
                 /\ (c.call = "receipt" /\ c.status = "responded")
                        => server'[c.d] \notin {"none", "pending"}
      <4>1. PICK o \in net : c = F(o)
        BY <3>2
      <4> QED BY <4>1, <3>1, <3>3, <3>4 DEF KInv, CallsKnown
    <3>6. ASSUME NEW c \in net', NEW e \in net', c.call = "create", e.call = "create",
                 c.d = e.d
          PROVE  c = e
      <4>1. PICK o \in net : c = F(o)
        BY <3>2
      <4>2. PICK q \in net : e = F(q)
        BY <3>2
      <4> QED BY <4>1, <4>2, <3>1, <3>6 DEF KInv, CallsKnown
    <3> QED BY <3>5, <3>6 DEF CallsKnown
  <2>3. SettledIsKnown'
    BY <1>20 DEF Closed, AllLeft, CallsTrue, CallsKnown, SettledIsKnown, KInv, IInv, Typed, Known, Calls, NoReceipt,
           Waiting, serverVars, broker
  <2> QED BY <2>1, <2>2, <2>3, <1>0 DEF KInv
<1>21. CASE Crash
  <2>1. Known'
    BY <1>21 DEF Crash, AllLeft, AnswerOwned, CallsKnown, KInv, IInv, Typed, Known, Calls, NoReceipt,
           Waiting, serverVars, broker
  <2>2. CallsKnown'
    <3> DEFINE F(c) == [c EXCEPT !.live = FALSE]
    <3>1. \A c \in net : c \in Calls /\ F(c).call = c.call /\ F(c).d = c.d
                          /\ F(c).status = c.status
      BY LeftIsCall DEF KInv, IInv, Typed
    <3>2. net' = {F(c) : c \in net}
      BY <1>21 DEF Crash, AllLeft
    <3> HIDE DEF F
    <3>3. /\ server' = server
          /\ \A x \in Asked : native[x] # "none" => native'[x] # "none"
          /\ \A x \in Asked : task'[x] = "offering" => task[x] = "offering"
      BY <1>21 DEF Crash, KInv, IInv, Typed, Tasks, serverVars
    <3>4. \A c \in net : c.d \in Asked
      BY <3>1 DEF Calls
    <3>5. ASSUME NEW c \in net'
          PROVE  /\ c.call = "create" => (server'[c.d] = "none" /\ native'[c.d] # "none"
                                           /\ task'[c.d] # "offering")
                 /\ (c.call = "receipt" /\ c.status = "responded")
                        => server'[c.d] \notin {"none", "pending"}
      <4>1. PICK o \in net : c = F(o)
        BY <3>2
      <4> QED BY <4>1, <3>1, <3>3, <3>4 DEF KInv, CallsKnown
    <3>6. ASSUME NEW c \in net', NEW e \in net', c.call = "create", e.call = "create",
                 c.d = e.d
          PROVE  c = e
      <4>1. PICK o \in net : c = F(o)
        BY <3>2
      <4>2. PICK q \in net : e = F(q)
        BY <3>2
      <4> QED BY <4>1, <4>2, <3>1, <3>6 DEF KInv, CallsKnown
    <3> QED BY <3>5, <3>6 DEF CallsKnown
  <2>3. SettledIsKnown'
    BY <1>21 DEF Crash, AllLeft, CallsTrue, CallsKnown, SettledIsKnown, KInv, IInv, Typed, Known, Calls, NoReceipt,
           Waiting, serverVars, broker
  <2> QED BY <2>1, <2>2, <2>3, <1>0 DEF KInv
<1>22. CASE Open
  <2>1. Known'
    BY <1>22 DEF Open, Unresolved, AnswerOwned, CallsKnown, KInv, IInv, Typed, Known, Calls, NoReceipt,
           Waiting, serverVars, broker
  <2>2. CallsKnown'
    BY <1>22 DEF Open, Unresolved, CallsTrue, CallsKnown, AnswerOwned, KInv, IInv, Typed, Known, Calls, NoReceipt,
           Waiting, serverVars, broker
  <2>3. SettledIsKnown'
    BY <1>22 DEF Open, Unresolved, CallsTrue, CallsKnown, SettledIsKnown, KInv, IInv, Typed, Known, Calls, NoReceipt,
           Waiting, serverVars, broker
  <2> QED BY <2>1, <2>2, <2>3, <1>0 DEF KInv
<1>23. CASE UNCHANGED vars
  BY <1>23, <1>0 DEF vars, CallsKnown, SettledIsKnown, KInv, IInv, Typed, Known, Calls, NoReceipt,
           Waiting, serverVars, broker
<1> QED
  BY <1>0, <1>1, <1>2, <1>3, <1>4, <1>5, <1>6, <1>7, <1>8, <1>9, <1>10, <1>11, <1>12, <1>13, <1>14, <1>15, <1>16, <1>17, <1>18, <1>19, <1>20, <1>21, <1>22, <1>23
     DEF KInv, Next, AtServer, World, Listener, Callback

\* No lost, late, refused or repeated receipt, and no restart, leaves a record
\* open of which the broker knows nothing more, but for one created late.
THEOREM SettlementKnown == Spec => []SettledIsKnown
<1>1. KInv => SettledIsKnown
  BY DEF KInv
<1> QED BY InitKInv, StepKInv, <1>1, PTL DEF Spec
=============================================================================
