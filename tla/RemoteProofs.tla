---------------------------- MODULE RemoteProofs ----------------------------
(***************************************************************************)
(* The adapters for remote stores keep what RemoteStores promises, for any *)
(* number of callers and keys, any deadlines, and requests that fail at    *)
(* any point.                                                              *)
(*                                                                         *)
(* RemoteInv says of every call under way what its steps so far entitle it *)
(* to: what a write told its server (DeadlineOk), which rows it may name   *)
(* (SpaceOk), where they may be (ShapeOk), what it may answer (AnswerOk),  *)
(* and of the rows that were there when a read or a clear() began, and     *)
(* untouched since, what the call knows of each (ReadOk, ClearOk).  A step *)
(* of an adapter either begins a call of which all this holds (Starting)   *)
(* or leads a call on to one of which it still holds (Going); a lemma for  *)
(* each action says which, and why.  Other callers' steps and the server's *)
(* cannot falsify what a call knows of rows they leave alone (FrameOk).    *)
(***************************************************************************)
EXTENDS RemoteStores, TLAPS

\* What the variables may hold.

Moments == Int \cup {Never}
Row     == [e : Moments, dies : Moments]
Expiry  == [rel : BOOLEAN, n : Int]
Places  == {"unused", "queued", "late", "sent", "meta", "held", "load", "purge", "done"}
Ops     == {"none", "set", "get", "delete", "clear", "clearExpired", "clearUnusedFor", "iterate"}

CallType ==
  [op : Ops, e : Moments, exp : Expiry \cup {Never}, now : Int, asks : BOOLEAN,
   ahead : SUBSET Rows, at : [Rows -> Places], batch : [Rows -> SUBSET Rows],
   seen : [Rows -> Moments], ok : SUBSET Rows, took : SUBSET Rows, failed : BOOLEAN]

\* The stores that OthersKept excepts, where a call may name any row.
Wide == {"memcache", "redisAll", "valkey", "bridgeBare"}

Slack == IF store \in {"kvBind", "kvRest"} THEN Second - 1 ELSE 0

Dead(k) == kv[k].e # Never /\ kv[k].e <= clock

\* The namespace's set does not know the row.
Unlisted(k) == store = "valkeySets" /\ k \notin index

\* What the call tells the server about its deadline is not before it.
DeadlineOk(call) ==
  call.op = "set" /\ call.exp # Never =>
    call.e # Never /\ (IF call.exp.rel THEN clock + call.exp.n ELSE call.exp.n) + Slack >= call.e

SpaceOk(call) ==
  store \notin Wide =>
    \A k \in Rows : call.batch[k] \subseteq Keys /\ (call.at[k] # "unused" => k \in Keys)

\* Where the rows of a call may be.
Allowed(op, place) ==
  /\ place \in {"held", "meta", "load"} => op \in {"get", "iterate"}
  /\ place = "late" => op = "set"
  /\ place = "purge" /\ store = "mongo" => op \in {"get", "iterate"}

\* Operations that go through a listing.
Lists(op) == op = "iterate" \/ (op = "clear" /\ store \notin {"mongo", "gridfs"})

ShapeOk(call) ==
  /\ \A k \in Rows : Allowed(call.op, call.at[k])
  /\ call.ahead # {} => Lists(call.op)
  /\ call.asks => call.op = "set"
  /\ call.now <= clock

AnswerOk(call) ==
  call.op \in {"set", "delete"} =>
    call.ok \subseteq call.took \/ (call.op = "delete" /\ store \in {"kvBind", "kvRest"})

\* The write of a namespace with a set is one request.
OneWrite(call) ==
  store = "valkeySets" /\ call.op = "set" =>
    \A j \in Rows : call.at[j] = "sent" =>
      /\ call.took = {}
      /\ \A k \in Rows : call.at[k] = "sent" => k \in call.batch[j]

\* R: rows that were there when the call began, untouched since.
ReadOk(call, R) ==
  \A k \in R :
    /\ call.at[k] = "held" => call.seen[k] = kv[k].e
    /\ call.op \in {"get", "iterate", "clearExpired"} /\ call.at[k] = "purge" => Dead(k)
    /\ \A j \in Rows : call.op \in {"get", "iterate", "clearExpired"} /\ call.at[j] = "purge"
                         /\ k \in call.batch[j] => Dead(k)
    /\ ~call.failed =>
         /\ call.op \in {"get", "iterate"} /\ call.at[k] = "done" => k \in call.ok \/ Dead(k)
         /\ call.op = "iterate" /\ k \in Keys /\ call.at[k] = "unused" => k \in call.ahead

ClearOk(call, R) ==
  call.op = "clear" /\ ~call.failed /\ store # "dynamo" =>
    \A k \in R \cap Keys :
      /\ call.at[k] = "unused" => k \in call.ahead \/ Unlisted(k)
      /\ call.at[k] = "done" => Unlisted(k)

CallOk(call, R) ==
  /\ call \in CallType
  /\ DeadlineOk(call) /\ SpaceOk(call) /\ ShapeOk(call) /\ AnswerOk(call) /\ OneWrite(call)
  /\ ReadOk(call, R) /\ ClearOk(call, R)

KvOk ==
  /\ kv \in [Rows -> Row \cup {Absent}]
  /\ DeadlinesKept
  /\ store \notin Wide => \A k \in Foreign : kv[k] = [e |-> Never, dies |-> Never]

IndexOk ==
  /\ index \subseteq Keys /\ unindex \in [Callers -> SUBSET Keys]
  /\ store # "valkeySets" => \A c \in Callers : unindex[c] = {}

RemoteInv ==
  /\ store \in AllStores /\ clock \in Nat
  /\ KvOk /\ IndexOk
  /\ calls \in [Callers -> CallType]
  /\ \A c \in Callers : steady[c] \subseteq Present /\ CallOk(calls[c], steady[c])

-----------------------------------------------------------------------------
(* What becomes of a call. *)

Same(new, call) ==
  /\ new.op = call.op /\ new.e = call.e /\ new.exp = call.exp /\ new.now = call.now
  /\ new.asks = call.asks /\ new.ahead = call.ahead /\ new.failed = call.failed

IsPosted(new, call, parts, place) ==
  /\ new \in CallType /\ Same(new, call) /\ new.ok = call.ok /\ new.took = call.took
  /\ \A k \in Rows :
       /\ k \in UNION parts => /\ new.at[k] = place /\ new.batch[k] \in parts
                               /\ k \in new.batch[k]
                               /\ place = "held" => new.seen[k] = kv[k].e
       /\ k \notin UNION parts => /\ new.at[k] = call.at[k] /\ new.batch[k] = call.batch[k]
                                  /\ new.seen[k] = call.seen[k]

IsClosed(new, call, B, yes, took) ==
  /\ new \in CallType /\ Same(new, call)
  /\ new.ok = call.ok \cup yes /\ new.took = call.took \cup took
  /\ \A k \in Rows :
       /\ k \in B => new.at[k] = "done" /\ new.batch[k] = {}
       /\ k \notin B => /\ new.at[k] = call.at[k] /\ new.batch[k] = call.batch[k]
                        /\ new.seen[k] = call.seen[k]

\* A row moves with its part; nothing else of the call changes.
LEMMA PostedMeans ==
  ASSUME NEW call \in CallType, KvOk, NEW parts \in SUBSET SUBSET Rows, NEW place \in Places,
         place = "held" => UNION parts \subseteq Present,
         NEW new, new = Posted(call, parts, place)
  PROVE  IsPosted(new, call, parts, place)
<1> DEFINE moved    == UNION parts
           at0    == [k \in Rows |-> IF k \in moved THEN place ELSE call.at[k]]
           part(k) == CHOOSE p \in parts : k \in p
           batch0 == [k \in Rows |-> IF k \in moved THEN part(k) ELSE call.batch[k]]
           seen0  == [k \in Rows |-> IF k \notin moved THEN call.seen[k]
                                     ELSE IF place = "held" THEN kv[k].e ELSE Never]
<1>1. ASSUME NEW k \in Rows, k \in moved
      PROVE  part(k) \in parts /\ k \in part(k)
  <2>1. \E p \in parts : k \in p
    BY <1>1
  <2> QED BY <2>1
<1>2. ASSUME NEW k \in Rows, k \in moved, place = "held"
      PROVE  kv[k].e \in Moments
  <2>1. kv[k] \in Row
    BY <1>2 DEF KvOk, Present
  <2> QED BY <2>1 DEF Row
<1> HIDE DEF part, moved
<1>3. at0 \in [Rows -> Places] /\ batch0 \in [Rows -> SUBSET Rows] /\ seen0 \in [Rows -> Moments]
  <2>1. at0 \in [Rows -> Places]
    BY DEF CallType
  <2>2. batch0 \in [Rows -> SUBSET Rows]
    <3> SUFFICES ASSUME NEW k \in Rows PROVE (IF k \in moved THEN part(k) ELSE call.batch[k]) \in SUBSET Rows
      OBVIOUS
    <3> QED BY <1>1 DEF CallType
  <2>3. seen0 \in [Rows -> Moments]
    <3> SUFFICES ASSUME NEW k \in Rows
                 PROVE  (IF k \notin moved THEN call.seen[k]
                         ELSE IF place = "held" THEN kv[k].e ELSE Never) \in Moments
      OBVIOUS
    <3> QED BY <1>2 DEF CallType, Moments
  <2> QED BY <2>1, <2>2, <2>3
<1> DEFINE new0 == [call EXCEPT !.at = at0, !.batch = batch0, !.seen = seen0]
<1>4. new = new0
  BY DEF Posted, moved, part
<1>5. \A k \in Rows : at0[k] = (IF k \in moved THEN place ELSE call.at[k])
  OBVIOUS
<1>6. \A k \in Rows : batch0[k] = IF k \in moved THEN part(k) ELSE call.batch[k]
  OBVIOUS
<1>7. \A k \in Rows : seen0[k] = IF k \notin moved THEN call.seen[k]
                                 ELSE IF place = "held" THEN kv[k].e ELSE Never
  OBVIOUS
<1> HIDE DEF at0, batch0, seen0
<1>8. /\ new \in CallType /\ new.at = at0 /\ new.batch = batch0 /\ new.seen = seen0
      /\ new.op = call.op /\ new.e = call.e /\ new.exp = call.exp /\ new.now = call.now
      /\ new.asks = call.asks /\ new.ahead = call.ahead /\ new.failed = call.failed
      /\ new.ok = call.ok /\ new.took = call.took
  BY <1>3, <1>4 DEF CallType
<1> HIDE DEF new0
<1> QED BY <1>1, <1>4, <1>5, <1>6, <1>7, <1>8 DEF moved, IsPosted, Same

\* Rows that are dealt with are done; nothing else of the call changes but the
\* rows it answers and the rows it took.
LEMMA ClosedMeans ==
  ASSUME NEW call \in CallType, NEW B \in SUBSET Rows, NEW yes \in SUBSET Rows,
         NEW took \in SUBSET Rows, NEW new, new = Closed(call, B, yes, took)
  PROVE  IsClosed(new, call, B, yes, took)
<1> DEFINE at0    == [k \in Rows |-> IF k \in B THEN "done" ELSE call.at[k]]
           batch0 == [k \in Rows |-> IF k \in B THEN {} ELSE call.batch[k]]
           seen0  == [k \in Rows |-> IF k \in B THEN Never ELSE call.seen[k]]
           new0 == [call EXCEPT !.at = at0, !.batch = batch0, !.seen = seen0,
                               !.ok = @ \cup yes, !.took = @ \cup took]
<1>1. at0 \in [Rows -> Places] /\ batch0 \in [Rows -> SUBSET Rows] /\ seen0 \in [Rows -> Moments]
  BY DEF CallType, Places, Moments
<1>2. new = new0
  BY DEF Closed
<1>3. \A k \in Rows : /\ at0[k] = (IF k \in B THEN "done" ELSE call.at[k])
                      /\ batch0[k] = (IF k \in B THEN {} ELSE call.batch[k])
                      /\ seen0[k] = (IF k \in B THEN Never ELSE call.seen[k])
  OBVIOUS
<1> HIDE DEF at0, batch0, seen0
<1>4. /\ new \in CallType /\ new.at = at0 /\ new.batch = batch0 /\ new.seen = seen0
      /\ new.op = call.op /\ new.e = call.e /\ new.exp = call.exp /\ new.now = call.now
      /\ new.asks = call.asks /\ new.ahead = call.ahead /\ new.failed = call.failed
      /\ new.ok = call.ok \cup yes /\ new.took = call.took \cup took
  BY <1>1, <1>2 DEF CallType
<1> HIDE DEF new0
<1> QED BY <1>2, <1>3, <1>4 DEF IsClosed, Same

\* The row is done with, for any of the reasons CallOk accepts.
LEMMA ClosedOk ==
  ASSUME NEW call, NEW R \in SUBSET Rows, CallOk(call, R), NEW B \in SUBSET Rows,
         NEW yes \in SUBSET Rows, NEW took \in SUBSET Rows,
         store \notin Wide => B \subseteq Keys,
         call.op \in {"set", "delete"} =>
           yes \subseteq took \/ (call.op = "delete" /\ store \in {"kvBind", "kvRest"}),
         store = "valkeySets" /\ call.op = "set" => \A k \in Rows : call.at[k] = "sent" => k \in B,
         call.op \in {"get", "iterate"} => \A k \in B \cap R : k \in yes \/ Dead(k),
         call.op = "clear" => \A k \in B \cap R : store = "dynamo" \/ Unlisted(k)
  PROVE  CallOk(Closed(call, B, yes, took), R)
<1> PICK new : new = Closed(call, B, yes, took)
  OBVIOUS
<1>0. call \in CallType
  BY DEF CallOk
<1>1. IsClosed(new, call, B, yes, took)
  BY <1>0, ClosedMeans
<1>2. DeadlineOk(new) /\ SpaceOk(new) /\ ShapeOk(new) /\ AnswerOk(new)
  <2>1. DeadlineOk(new) /\ AnswerOk(new)
    BY <1>1 DEF IsClosed, Same, CallOk, DeadlineOk, AnswerOk
  <2>2. SpaceOk(new)
    BY <1>1 DEF IsClosed, Same, CallOk, SpaceOk
  <2>3. ShapeOk(new)
    BY <1>1 DEF IsClosed, Same, CallOk, ShapeOk, Allowed
  <2> QED BY <2>1, <2>2, <2>3
<1>3. OneWrite(new)
  BY <1>1 DEF IsClosed, Same, CallOk, OneWrite
<1>4. ReadOk(new, R)
  BY <1>1 DEF IsClosed, Same, CallOk, ReadOk
<1>5. ClearOk(new, R)
  BY <1>1 DEF IsClosed, Same, CallOk, ClearOk
<1> QED BY <1>1, <1>2, <1>3, <1>4, <1>5 DEF CallOk, IsClosed

\* After an error nothing is promised but what was answered already.
LEMMA FailedOk ==
  ASSUME NEW call, NEW R \in SUBSET Rows, CallOk(call, R), NEW A \in SUBSET call.ahead
  PROVE  CallOk([call EXCEPT !.ahead = A, !.failed = TRUE], R)
<1> PICK new : new = [call EXCEPT !.ahead = A, !.failed = TRUE]
  OBVIOUS
<1>1. /\ new \in CallType
      /\ new.op = call.op /\ new.e = call.e /\ new.exp = call.exp /\ new.now = call.now
      /\ new.asks = call.asks /\ new.ahead = A /\ new.failed = TRUE
      /\ new.ok = call.ok /\ new.took = call.took
      /\ new.at = call.at /\ new.batch = call.batch /\ new.seen = call.seen
  BY DEF CallOk, CallType
<1>2. DeadlineOk(new) /\ SpaceOk(new) /\ ShapeOk(new) /\ AnswerOk(new) /\ OneWrite(new)
  <2>1. DeadlineOk(new) /\ AnswerOk(new) /\ OneWrite(new)
    BY <1>1 DEF CallOk, DeadlineOk, AnswerOk, OneWrite
  <2>2. SpaceOk(new) /\ ShapeOk(new)
    BY <1>1 DEF CallOk, SpaceOk, ShapeOk, Allowed
  <2> QED BY <2>1, <2>2
<1>3. ReadOk(new, R) /\ ClearOk(new, R)
  BY <1>1 DEF CallOk, ReadOk, ClearOk
<1> QED BY <1>1, <1>2, <1>3 DEF CallOk

\* The operations whose deletions are a clean-up.
Cleaning == {"get", "iterate", "clearExpired"}

\* A listing has come to the rows A.
Advanced(call, A) == [call EXCEPT !.ahead = A]

\* Rows that a listing passes are sent for, or nobody waits for them; a row that
\* moves to where it is deleted by a clean-up has expired.
LEMMA PagedOk ==
  ASSUME KvOk, NEW call, NEW R \in SUBSET Rows, CallOk(call, R),
         NEW A \in SUBSET call.ahead, NEW parts \in SUBSET SUBSET Rows,
         NEW place \in Places \ {"unused", "done"}, Allowed(call.op, place),
         store \notin Wide => parts \subseteq SUBSET Keys,
         place = "held" => UNION parts \subseteq Present,
         ~(store = "valkeySets" /\ call.op = "set"),
         call.op \in Cleaning /\ place = "purge" => \A k \in R \cap UNION parts : Dead(k),
         \A k \in R \cap Keys : k \in call.ahead \ A =>
           k \in UNION parts \/ (call.op = "clear" /\ (store = "dynamo" \/ Unlisted(k)))
  PROVE  CallOk(Posted(Advanced(call, A), parts, place), R)
<1> PICK mid : mid = Advanced(call, A)
  OBVIOUS
<1> PICK new : new = Posted(mid, parts, place)
  OBVIOUS
<1>1. /\ mid \in CallType /\ mid.op = call.op /\ mid.e = call.e /\ mid.exp = call.exp
      /\ mid.now = call.now /\ mid.asks = call.asks /\ mid.ahead = A
      /\ mid.failed = call.failed /\ mid.ok = call.ok /\ mid.took = call.took
      /\ mid.at = call.at /\ mid.batch = call.batch /\ mid.seen = call.seen
  BY DEF CallOk, CallType, Advanced
<1>2. IsPosted(new, mid, parts, place)
  BY <1>1, PostedMeans
<1>3. /\ new.op = call.op /\ new.e = call.e /\ new.exp = call.exp /\ new.now = call.now
      /\ new.asks = call.asks /\ new.ahead = A /\ new.failed = call.failed
      /\ new.ok = call.ok /\ new.took = call.took
  BY <1>1, <1>2 DEF IsPosted, Same
<1>4. \A k \in Rows :
        /\ k \in UNION parts => /\ new.at[k] = place /\ new.batch[k] \in parts
                                /\ place = "held" => new.seen[k] = kv[k].e
        /\ k \notin UNION parts => /\ new.at[k] = call.at[k] /\ new.batch[k] = call.batch[k]
                                   /\ new.seen[k] = call.seen[k]
  BY <1>1, <1>2 DEF IsPosted
<1>5. DeadlineOk(new) /\ AnswerOk(new)
  BY <1>3 DEF CallOk, DeadlineOk, AnswerOk
<1>6. SpaceOk(new)
  <2> SUFFICES ASSUME store \notin Wide, NEW k \in Rows
               PROVE  new.batch[k] \subseteq Keys /\ (new.at[k] # "unused" => k \in Keys)
    BY DEF SpaceOk
  <2>1. CASE k \in UNION parts
    BY <1>4, <2>1
  <2>2. CASE k \notin UNION parts
    BY <1>4, <2>2 DEF CallOk, SpaceOk
  <2> QED BY <2>1, <2>2
<1>7. ShapeOk(new)
  <2>1. ASSUME NEW k \in Rows PROVE Allowed(new.op, new.at[k])
    BY <1>3, <1>4 DEF CallOk, ShapeOk
  <2> QED BY <1>3, <2>1 DEF CallOk, ShapeOk
<1>8. OneWrite(new)
  BY <1>3 DEF OneWrite
<1>9. ReadOk(new, R)
  <2> SUFFICES ASSUME NEW k \in R
               PROVE  /\ new.at[k] = "held" => new.seen[k] = kv[k].e
                      /\ \A j \in Rows : new.op \in Cleaning /\ new.at[j] = "purge"
                                           /\ (k = j \/ k \in new.batch[j]) => Dead(k)
                      /\ ~new.failed =>
                           /\ new.op \in {"get", "iterate"} /\ new.at[k] = "done" => k \in new.ok \/ Dead(k)
                           /\ new.op = "iterate" /\ k \in Keys /\ new.at[k] = "unused" => k \in new.ahead
    BY DEF ReadOk, Cleaning
  <2>0. k \in Rows
    OBVIOUS
  <2>1. new.at[k] = "held" => new.seen[k] = kv[k].e
    BY <1>4, <2>0 DEF CallOk, ReadOk
  <2>2. ASSUME NEW j \in Rows, new.op \in Cleaning, new.at[j] = "purge", k = j \/ k \in new.batch[j]
        PROVE  Dead(k)
    <3>1. CASE j \in UNION parts
      <4>1. new.batch[j] \in parts /\ place = "purge"
        BY <1>4, <2>2, <3>1
      <4>2. k \in UNION parts
        BY <2>2, <3>1, <4>1
      <4> QED BY <1>3, <2>2, <4>1, <4>2
    <3>2. CASE j \notin UNION parts
      BY <1>3, <1>4, <2>2, <3>2 DEF CallOk, ReadOk, Cleaning
    <3> QED BY <3>1, <3>2
  <2>3. ASSUME ~new.failed, new.op \in {"get", "iterate"}, new.at[k] = "done"
        PROVE  k \in new.ok \/ Dead(k)
    BY <1>3, <1>4, <2>0, <2>3 DEF CallOk, ReadOk
  <2>4. ASSUME ~new.failed, new.op = "iterate", k \in Keys, new.at[k] = "unused"
        PROVE  k \in new.ahead
    <3>1. k \notin UNION parts /\ call.at[k] = "unused"
      BY <1>4, <2>0, <2>4
    <3> QED BY <1>3, <2>4, <3>1 DEF CallOk, ReadOk
  <2> QED BY <2>1, <2>2, <2>3, <2>4
<1>10. ClearOk(new, R)
  <2> SUFFICES ASSUME new.op = "clear", ~new.failed, store # "dynamo", NEW k \in R \cap Keys
               PROVE  /\ new.at[k] = "unused" => k \in new.ahead \/ Unlisted(k)
                      /\ new.at[k] = "done" => Unlisted(k)
    BY DEF ClearOk
  <2>1. CASE k \in UNION parts
    BY <1>4, <2>1
  <2>2. CASE k \notin UNION parts
    BY <1>3, <1>4, <2>2 DEF CallOk, ClearOk
  <2> QED BY <2>1, <2>2
<1> QED BY <1>2, <1>5, <1>6, <1>7, <1>8, <1>9, <1>10 DEF CallOk, IsPosted

\* A row moves on within its call.
LEMMA PostedOk ==
  ASSUME KvOk, NEW call, NEW R \in SUBSET Rows, CallOk(call, R),
         NEW parts \in SUBSET SUBSET Rows,
         NEW place \in Places \ {"unused", "done"}, Allowed(call.op, place),
         store \notin Wide => parts \subseteq SUBSET Keys,
         place = "held" => UNION parts \subseteq Present,
         ~(store = "valkeySets" /\ call.op = "set"),
         call.op \in Cleaning /\ place = "purge" => \A k \in R \cap UNION parts : Dead(k)
  PROVE  CallOk(Posted(call, parts, place), R)
<1>1. call = Advanced(call, call.ahead) /\ call.ahead \in SUBSET call.ahead
  BY DEF CallOk, CallType, Advanced
<1>2. \A k \in R \cap Keys : k \notin call.ahead \ call.ahead
  OBVIOUS
<1>3. CallOk(Posted(Advanced(call, call.ahead), parts, place), R)
  BY <1>1, <1>2, PagedOk
<1> QED BY <1>1, <1>3

\* What the call tells the server is settled, or settled anew.
LEMMA ExpiryOk ==
  ASSUME NEW call, NEW R \in SUBSET Rows, CallOk(call, R), NEW exp \in Expiry \cup {Never},
         NEW asks \in BOOLEAN, asks => call.op = "set",
         exp # Never =>
           call.e # Never /\ (IF exp.rel THEN clock + exp.n ELSE exp.n) + Slack >= call.e
  PROVE  CallOk([call EXCEPT !.asks = asks, !.exp = exp], R)
<1> PICK new : new = [call EXCEPT !.asks = asks, !.exp = exp]
  OBVIOUS
<1>1. /\ new \in CallType
      /\ new.op = call.op /\ new.e = call.e /\ new.exp = exp /\ new.now = call.now
      /\ new.asks = asks /\ new.ahead = call.ahead /\ new.failed = call.failed
      /\ new.ok = call.ok /\ new.took = call.took
      /\ new.at = call.at /\ new.batch = call.batch /\ new.seen = call.seen
  BY DEF CallOk, CallType
<1>2. DeadlineOk(new)
  BY <1>1 DEF DeadlineOk
<1>3. SpaceOk(new) /\ ShapeOk(new) /\ AnswerOk(new) /\ OneWrite(new)
  BY <1>1 DEF CallOk, AnswerOk, OneWrite, SpaceOk, ShapeOk
<1>4. ReadOk(new, R) /\ ClearOk(new, R)
  BY <1>1 DEF CallOk, ReadOk, ClearOk
<1> QED BY <1>1, <1>2, <1>3, <1>4 DEF CallOk

-----------------------------------------------------------------------------
(* How a call begins and ends. *)

\* A call that has not sent anything yet.
Fresh(call) ==
  /\ call \in CallType
  /\ call.at = Idle.at /\ call.batch = Idle.batch
  /\ call.ok = {} /\ call.took = {} /\ ~call.failed
  /\ DeadlineOk(call)
  /\ call.ahead # {} => Lists(call.op)
  /\ call.asks => call.op = "set"
  /\ call.now <= clock
  /\ call.op = "iterate" => call.ahead = Rows

\* A call that has not begun names no row.
LEMMA IdleRows == \A k \in Rows : Idle.at[k] = "unused" /\ Idle.batch[k] = {}
BY DEF Idle

\* A call that goes through a listing, or has nothing to do.
LEMMA FreshOk ==
  ASSUME NEW call, Fresh(call), call.op = "clear" => call.ahead = Rows
  PROVE  CallOk(call, Present)
<1>1. \A k \in Rows : call.at[k] = "unused" /\ call.batch[k] = {}
  BY IdleRows DEF Fresh
<1>2. SpaceOk(call) /\ ShapeOk(call) /\ AnswerOk(call) /\ OneWrite(call)
  BY <1>1 DEF Fresh, SpaceOk, ShapeOk, AnswerOk, OneWrite, Allowed
<1>3. ReadOk(call, Present) /\ ClearOk(call, Present)
  BY <1>1 DEF Fresh, ReadOk, ClearOk, Present
<1> QED BY <1>2, <1>3 DEF CallOk, Fresh

\* A call that sends its rows off.
LEMMA StartedOk ==
  ASSUME KvOk, NEW call, Fresh(call), NEW parts \in SUBSET SUBSET Rows,
         NEW place \in {"queued", "late", "sent"}, Allowed(call.op, place),
         store \notin Wide => parts \subseteq SUBSET Keys,
         store = "valkeySets" /\ call.op = "set" => \A p, q \in parts : p = q,
         call.op = "clear" => Keys \subseteq UNION parts
  PROVE  CallOk(Posted(call, parts, place), Present)
<1> PICK new : new = Posted(call, parts, place)
  OBVIOUS
<1>1. call \in CallType /\ \A k \in Rows : call.at[k] = "unused" /\ call.batch[k] = {}
  BY IdleRows DEF Fresh
<1>2. IsPosted(new, call, parts, place)
  <2>1. place \in Places /\ place # "held"
    BY DEF Places
  <2> QED BY <1>1, <2>1, PostedMeans
<1>3. /\ new.op = call.op /\ new.e = call.e /\ new.exp = call.exp /\ new.now = call.now
      /\ new.asks = call.asks /\ new.ahead = call.ahead /\ ~new.failed
      /\ new.ok = {} /\ new.took = {}
  BY <1>2 DEF IsPosted, Same, Fresh
<1>4. \A k \in Rows :
        /\ k \in UNION parts => new.at[k] = place /\ new.batch[k] \in parts /\ k \in new.batch[k]
        /\ k \notin UNION parts => new.at[k] = "unused" /\ new.batch[k] = {}
  BY <1>1, <1>2 DEF IsPosted
<1>5. DeadlineOk(new) /\ AnswerOk(new)
  BY <1>3 DEF Fresh, DeadlineOk, AnswerOk
<1>6. SpaceOk(new)
  <2> SUFFICES ASSUME store \notin Wide, NEW k \in Rows
               PROVE  new.batch[k] \subseteq Keys /\ (new.at[k] # "unused" => k \in Keys)
    BY DEF SpaceOk
  <2> QED BY <1>4
<1>7. ShapeOk(new)
  <2>1. ASSUME NEW k \in Rows PROVE Allowed(new.op, new.at[k])
    BY <1>3, <1>4 DEF Allowed
  <2> QED BY <1>3, <2>1 DEF Fresh, ShapeOk
<1>8. OneWrite(new)
  <2> SUFFICES ASSUME store = "valkeySets", new.op = "set", NEW j \in Rows, new.at[j] = "sent",
                      NEW k \in Rows, new.at[k] = "sent"
               PROVE  k \in new.batch[j]
    BY <1>3 DEF OneWrite
  <2>1. j \in UNION parts /\ k \in UNION parts
    BY <1>4
  <2>2. new.batch[j] = new.batch[k] /\ k \in new.batch[k]
    BY <1>3, <1>4, <2>1
  <2> QED BY <2>2
<1>9. ReadOk(new, Present)
  BY <1>3, <1>4 DEF Fresh, ReadOk, Present
<1>10. ClearOk(new, Present)
  BY <1>3, <1>4 DEF ClearOk, Present
<1> QED BY <1>2, <1>5, <1>6, <1>7, <1>8, <1>9, <1>10 DEF CallOk, IsPosted

\* A caller at rest.
LEMMA IdleFresh ==
  ASSUME clock \in Nat
  PROVE  Fresh(Idle)
BY DEF Fresh, Idle, CallType, Ops, Moments, Places, DeadlineOk

\* What is left of a call that has settled.
LEMMA OutcomeOk ==
  ASSUME clock \in Nat, NEW call, NEW R \in SUBSET Present, CallOk(call, R), Settled(call)
  PROVE  CallOk(Outcome(call), R)
<1> PICK new : new = Outcome(call)
  OBVIOUS
<1>1. CASE call.failed /\ (AllOrNothing(call.op) \/ call.op \notin {"set", "delete"})
  <2>1. Outcome(call) = Idle
    BY <1>1 DEF Outcome
  <2>2. CallOk(Idle, Present)
    BY IdleFresh, FreshOk DEF Idle
  <2>3. Idle.op = "none" /\ \A k \in Rows : Idle.at[k] = "unused"
    BY DEF Idle
  <2>4. ReadOk(Idle, R) /\ ClearOk(Idle, R)
    BY <2>3 DEF ReadOk, ClearOk, Present
  <2> QED BY <2>1, <2>2, <2>4 DEF CallOk
<1>2. CASE ~(call.failed /\ (AllOrNothing(call.op) \/ call.op \notin {"set", "delete"}))
  <2>1. Idle \in CallType
    BY IdleFresh DEF Fresh
  <2> DEFINE took0 == {k \in call.took : call.op \in {"set", "delete"}}
  <2>2. new = [Idle EXCEPT !.op = call.op, !.at = call.at, !.ok = call.ok,
                           !.took = took0, !.failed = call.failed]
    BY <1>2 DEF Outcome
  <2>3. took0 \in SUBSET Rows /\ (call.op \in {"set", "delete"} => took0 = call.took)
    BY DEF CallOk, CallType
  <2> HIDE DEF took0
  <2>4. /\ new \in CallType /\ new.op = call.op /\ new.at = call.at /\ new.ok = call.ok
        /\ new.took = took0 /\ new.failed = call.failed
        /\ new.exp = Idle.exp /\ new.batch = Idle.batch /\ new.now = Idle.now
        /\ new.asks = Idle.asks /\ new.ahead = Idle.ahead
    BY <2>1, <2>2, <2>3 DEF CallOk, CallType
  <2>5. /\ new.exp = Never /\ new.batch = [k \in Rows |-> {}] /\ new.now = 0 /\ ~new.asks
        /\ new.ahead = {}
    BY <2>4 DEF Idle
  <2>6. \A k \in Rows : new.at[k] \in {"unused", "done"} /\ new.batch[k] = {} /\ new.at[k] = call.at[k]
    BY <2>4, <2>5 DEF Settled
  <2>7. call.ahead = {}
    BY DEF Settled
  <2>8. DeadlineOk(new) /\ AnswerOk(new) /\ OneWrite(new)
    BY <2>3, <2>4, <2>5, <2>6 DEF CallOk, DeadlineOk, AnswerOk, OneWrite
  <2>9. SpaceOk(new) /\ ShapeOk(new)
    BY <2>4, <2>5, <2>6 DEF CallOk, SpaceOk, ShapeOk
  <2>10. ReadOk(new, R)
    BY <2>4, <2>5, <2>6, <2>7 DEF CallOk, ReadOk, Present
  <2>11. ClearOk(new, R)
    BY <2>4, <2>5, <2>6, <2>7 DEF CallOk, ClearOk, Present
  <2> QED BY <2>4, <2>8, <2>9, <2>10, <2>11 DEF CallOk
<1> QED BY <1>1, <1>2

\* What the invariant says of a call outlives a step that leaves the call and
\* its rows alone.
LEMMA FrameOk ==
  ASSUME KvOk, NEW call, NEW R \in SUBSET Present, CallOk(call, R), NEW R1 \in SUBSET R,
         \A k \in R1 : kv'[k] = kv[k] /\ (store = "valkeySets" /\ k \in index' => k \in index),
         clock \in Nat, clock' \in Nat, clock' >= clock, store' = store
  PROVE  CallOk(call, R1)'
<1>1. \A k \in R1 : (Dead(k) => Dead(k)') /\ (Unlisted(k) => Unlisted(k)')
  <2> SUFFICES ASSUME NEW k \in R1 PROVE (Dead(k) => Dead(k)') /\ (Unlisted(k) => Unlisted(k)')
    OBVIOUS
  <2>1. kv[k] \in Row
    BY DEF KvOk, Present
  <2>2. kv[k].e = Never \/ kv[k].e \in Int
    BY <2>1 DEF Row, Moments
  <2> QED BY <2>2 DEF Dead, Unlisted
<1>2. DeadlineOk(call)'
  <2> SUFFICES ASSUME call.op = "set", call.exp # Never
               PROVE  /\ call.e # Never
                      /\ (IF call.exp.rel THEN clock' + call.exp.n ELSE call.exp.n) + Slack >= call.e
    BY DEF DeadlineOk, Slack
  <2>1. call.exp \in Expiry /\ call.e \in Moments
    BY DEF CallOk, CallType
  <2>2. call.exp.n \in Int /\ Slack \in Int
    BY <2>1, RemoteAssumption DEF Expiry, Slack
  <2>3. call.e # Never /\ (IF call.exp.rel THEN clock + call.exp.n ELSE call.exp.n) + Slack >= call.e
    BY DEF CallOk, DeadlineOk
  <2>4. call.e \in Int
    BY <2>1, <2>3 DEF Moments
  <2> QED BY <2>2, <2>3, <2>4
<1>3. SpaceOk(call)' /\ ShapeOk(call)'
  <2>1. call.now \in Int
    BY DEF CallOk, CallType
  <2> QED BY <2>1 DEF CallOk, SpaceOk, ShapeOk, Allowed, Lists
<1>4. AnswerOk(call)' /\ OneWrite(call)'
  BY DEF CallOk, AnswerOk, OneWrite
<1>5. ReadOk(call, R1)'
  BY <1>1 DEF CallOk, ReadOk
<1>6. ClearOk(call, R1)'
  BY <1>1 DEF CallOk, ClearOk
<1> QED BY <1>2, <1>3, <1>4, <1>5, <1>6 DEF CallOk

\* Fewer rows, less to say.
LEMMA SubsetOk ==
  ASSUME NEW call, NEW R, CallOk(call, R), NEW R1 \in SUBSET R
  PROVE  CallOk(call, R1)
BY DEF CallOk, ReadOk, ClearOk

\* A rejected request leaves nothing to promise.
LEMMA BrokenOk ==
  ASSUME NEW call, NEW R \in SUBSET Rows, CallOk(call, R), NEW B \in SUBSET Rows,
         NEW took \in SUBSET Rows,
         store \notin Wide => B \subseteq Keys,
         store = "valkeySets" /\ call.op = "set" => \A k \in Rows : call.at[k] = "sent" => k \in B
  PROVE  /\ CallOk(Broken(call, B, took), R)
         /\ Broken(call, B, took).failed /\ Broken(call, B, took).ahead = call.ahead
<1> PICK mid : mid = Closed(call, B, {}, took)
  OBVIOUS
<1> PICK new : new = [mid EXCEPT !.failed = TRUE]
  OBVIOUS
<1>0. call \in CallType /\ {} \in SUBSET Rows
  BY DEF CallOk
<1>1. IsClosed(mid, call, B, {}, took)
  BY <1>0, ClosedMeans
<1>2. /\ new \in CallType
      /\ new.op = call.op /\ new.e = call.e /\ new.exp = call.exp /\ new.now = call.now
      /\ new.asks = call.asks /\ new.ahead = call.ahead /\ new.failed
      /\ new.ok = mid.ok /\ new.took = mid.took
      /\ new.at = mid.at /\ new.batch = mid.batch /\ new.seen = mid.seen
  BY <1>1 DEF IsClosed, Same, CallType
<1>3. new.ok = call.ok /\ new.took = call.took \cup took
  BY <1>1, <1>2 DEF IsClosed
<1>4. \A k \in Rows :
        /\ k \in B => new.at[k] = "done" /\ new.batch[k] = {}
        /\ k \notin B => /\ new.at[k] = call.at[k] /\ new.batch[k] = call.batch[k]
                         /\ new.seen[k] = call.seen[k]
  BY <1>1, <1>2 DEF IsClosed
<1>5. DeadlineOk(new) /\ AnswerOk(new)
  BY <1>2, <1>3 DEF CallOk, DeadlineOk, AnswerOk
<1>6. SpaceOk(new) /\ ShapeOk(new)
  BY <1>2, <1>4 DEF CallOk, SpaceOk, ShapeOk, Allowed
<1>7. OneWrite(new)
  BY <1>2, <1>4 DEF OneWrite
<1>8. ReadOk(new, R) /\ ClearOk(new, R)
  BY <1>2, <1>4 DEF CallOk, ReadOk, ClearOk
<1>9. new = Broken(call, B, took)
  BY DEF Broken
<1> QED BY <1>2, <1>5, <1>6, <1>7, <1>8, <1>9 DEF CallOk

\* The rows that were to come are left out.
LEMMA LeftOk ==
  ASSUME NEW call, NEW R \in SUBSET Rows, CallOk(call, R), call.failed
  PROVE  CallOk([call EXCEPT !.ahead = {}], R)
<1>1. [call EXCEPT !.ahead = {}] = [call EXCEPT !.ahead = {}, !.failed = TRUE]
  BY DEF CallOk, CallType
<1>2. {} \in SUBSET call.ahead
  OBVIOUS
<1> QED BY <1>1, <1>2, FailedOk

\* The error ends the loop.
LEMMA AbandonedOk ==
  ASSUME NEW c \in Callers, NEW R \in SUBSET Rows, CallOk(calls[c], R), NEW took \in SUBSET Rows
  PROVE  CallOk(Abandoned(c, took), R)
<1> PICK call : call = calls[c]
  OBVIOUS
<1> PICK B : B = Pending(c)
  OBVIOUS
<1>1. B \in SUBSET Rows /\ (store \notin Wide => B \subseteq Keys)
      /\ \A k \in Rows : call.at[k] = "sent" => k \in B
  BY DEF Pending, CallOk, SpaceOk
<1> PICK new : new = Broken(call, B, took)
  OBVIOUS
<1>2. CallOk(new, R) /\ new.failed
  BY <1>1, BrokenOk
<1>3. Abandoned(c, took) = [new EXCEPT !.ahead = {}]
  BY DEF Abandoned
<1> QED BY <1>2, <1>3, LeftOk

-----------------------------------------------------------------------------
(* What the steps have in common. *)

\* R are rows that the step leaves alone.
Following(c, R) == /\ RemoteInv /\ c \in Callers
                   /\ R \subseteq steady[c] /\ \A k \in R : kv'[k] = kv[k]

KvStep(c) ==
  \/ kv' = kv
  \/ \E B \in SUBSET Rows :
       /\ store \notin Wide => B \subseteq Keys
       /\ \/ kv' = Without(B)
          \/ calls[c].op = "set" /\ kv' = Written(B, calls[c].e, calls[c].exp)

\* A call goes on, or begins, and the invariant holds of it.
Going(c, R)  == KvStep(c) /\ \E call : Settle(c, call) /\ CallOk(call, R)
Starting(c)  == \E call : Begin(c, call) /\ CallOk(call, Present)

Busy(c) == ~Free(c) \/ unindex[c] # {}

\* What a step of c comes to.
Moves(c, R) == (Busy(c) /\ Going(c, R)) \/ Starting(c)

\* What RemoteInv says of the call that takes the step.
LEMMA FollowingMeans ==
  ASSUME NEW c, NEW R, Following(c, R)
  PROVE  /\ c \in Callers /\ CallOk(calls[c], R) /\ R \in SUBSET Present /\ R \in SUBSET Rows
         /\ KvOk /\ clock \in Nat /\ calls[c] \in CallType
<1>1. CallOk(calls[c], steady[c]) /\ R \in SUBSET steady[c] /\ steady[c] \subseteq Present
  BY DEF Following, RemoteInv
<1>2. CallOk(calls[c], R)
  BY <1>1, SubsetOk
<1> QED BY <1>1, <1>2 DEF Following, RemoteInv, Present

\* A call with something left to do has not settled.
LEMMA BusyMeans ==
  ASSUME NEW c
  PROVE  /\ \A place \in Places \ {"unused", "done"} : Requests(c, place) # {} => Busy(c)
         /\ Pages(c) # {} => Busy(c)
         /\ Pending(c) # {} => Busy(c)
         /\ Held(c) # {} => Busy(c)
         /\ calls[c].asks \/ calls[c].ahead # {} => Busy(c)
<1>1. ASSUME NEW k \in Rows, calls[c].at[k] \notin {"unused", "done"}
      PROVE  Busy(c)
  BY <1>1 DEF Busy, Free, Settled
<1>2. ASSUME NEW place \in Places \ {"unused", "done"}, Requests(c, place) # {}
      PROVE  Busy(c)
  <2>1. PICK k \in Rows : calls[c].at[k] = place
    BY <1>2 DEF Requests
  <2> QED BY <1>1, <2>1
<1>3. Pending(c) # {} => Busy(c)
  BY <1>1 DEF Pending
<1>4. Held(c) # {} => Busy(c)
  BY <1>1 DEF Held
<1>5. calls[c].asks \/ calls[c].ahead # {} => Busy(c)
  BY DEF Busy, Free, Settled
<1>6. Pages(c) # {} => calls[c].ahead # {}
  BY DEF Pages
<1> QED BY <1>2, <1>3, <1>4, <1>5, <1>6

\* What is known of the rows that one request names.
Asked(c, R, B, place) ==
  /\ B \in SUBSET Rows
  /\ store \notin Wide => B \subseteq Keys
  /\ store = "valkeySets" /\ calls[c].op = "set" /\ place = "sent" =>
       calls[c].took = {} /\ \A k \in Rows : calls[c].at[k] = "sent" => k \in B
  /\ calls[c].op \in Cleaning /\ place = "purge" => \A k \in B \cap R : Dead(k)
  /\ store = "mongo" /\ place = "purge" => calls[c].op \in {"get", "iterate"}

\* Every request under way is one of these.
LEMMA RequestMeans ==
  ASSUME NEW c, NEW R, Following(c, R), NEW place, NEW B \in Requests(c, place)
  PROVE  Asked(c, R, B, place)
<1>0. CallOk(calls[c], R) /\ R \in SUBSET Rows
  BY FollowingMeans
<1>1. PICK j \in Rows : calls[c].at[j] = place /\ B = calls[c].batch[j]
  BY DEF Requests
<1>2. B \in SUBSET Rows
  BY <1>0, <1>1 DEF CallOk, CallType
<1>3. store \notin Wide => B \subseteq Keys
  BY <1>0, <1>1 DEF CallOk, SpaceOk
<1>4. ASSUME store = "valkeySets", calls[c].op = "set", place = "sent"
      PROVE  calls[c].took = {} /\ \A k \in Rows : calls[c].at[k] = "sent" => k \in B
  BY <1>0, <1>1, <1>4 DEF CallOk, OneWrite
<1>5. ASSUME calls[c].op \in Cleaning, place = "purge", NEW k \in B \cap R
      PROVE  Dead(k)
  BY <1>0, <1>1, <1>5 DEF CallOk, ReadOk, Cleaning
<1>6. store = "mongo" /\ place = "purge" => calls[c].op \in {"get", "iterate"}
  BY <1>0, <1>1 DEF CallOk, ShapeOk, Allowed
<1> QED BY <1>2, <1>3, <1>4, <1>5, <1>6 DEF Asked

\* The request was refused, or its answer was.
LEMMA BrokenGoes ==
  ASSUME NEW c, NEW R, Following(c, R), NEW B, NEW place, Asked(c, R, B, place),
         store = "valkeySets" /\ calls[c].op = "set" => place = "sent",
         NEW took \in SUBSET Rows
  PROVE  CallOk(Broken(calls[c], B, took), R)
BY FollowingMeans, BrokenOk DEF Asked

\* A request that is refused ends as the invariant wants it.
LEMMA RefusedGoes ==
  ASSUME NEW c, NEW R, Following(c, R), NEW B, NEW place, Asked(c, R, B, place),
         store = "valkeySets" /\ calls[c].op = "set" => place = "sent", Refused(c, B)
  PROVE  Going(c, R)
<1>1. CallOk(Broken(calls[c], B, {}), R)
  <2>1. {} \in SUBSET Rows
    OBVIOUS
  <2> QED BY <2>1, BrokenGoes
<1> QED BY <1>1 DEF Refused, Fails, Going, KvStep

\* So does a loop that an error ends.
LEMMA AbandonedGoes ==
  ASSUME NEW c, NEW R, Following(c, R), Fails(c, Abandoned(c, {}))
  PROVE  Going(c, R)
<1>1. CallOk(Abandoned(c, {}), R)
  BY FollowingMeans, AbandonedOk
<1> QED BY <1>1 DEF Fails, Going, KvStep

\* An answer, in any of its outcomes.
LEMMA AnswerGoes ==
  ASSUME NEW c, NEW R, Following(c, R), NEW B, Asked(c, R, B, "sent"),
         NEW yes \in SUBSET Rows, NEW took \in SUBSET Rows, Answer(c, B, yes, took),
         calls[c].op \in {"set", "delete"} => yes \subseteq took,
         calls[c].op \in {"get", "iterate"} => \A k \in B \cap R : k \in yes \/ Dead(k),
         calls[c].op = "clear" => B \cap R = {}
  PROVE  \E call : Settle(c, call) /\ CallOk(call, R)
<1>1. CallOk(Broken(calls[c], B, took), R)
  BY BrokenGoes
<1>2. CallOk(Closed(calls[c], B, yes, took), R)
  BY FollowingMeans, ClosedOk DEF Asked
<1> QED BY <1>1, <1>2 DEF Answer

\* A write that arrives.
LEMMA WriteGoes ==
  ASSUME NEW c, NEW R, Following(c, R), NEW B, Asked(c, R, B, "sent"),
         calls[c].op = "set", WriteArrives(c, B)
  PROVE  Going(c, R)
<1>1. \E call : Settle(c, call) /\ CallOk(call, R)
  BY AnswerGoes DEF WriteArrives, Asked
<1> QED BY <1>1 DEF WriteArrives, Going, KvStep, Asked

\* A deletion that arrives: none of its rows is left.
LEMMA RemoveGoes ==
  ASSUME NEW c, NEW R, Following(c, R), NEW B, Asked(c, R, B, "sent"),
         calls[c].op \in {"delete", "clear"}, RemoveArrives(c, B)
  PROVE  Going(c, R)
<1>1. B \cap R = {}
  BY FollowingMeans DEF RemoveArrives, Without, Following, Present
<1>2. B \cap Present \in SUBSET Rows
  BY DEF Present
<1>3. \E call : Settle(c, call) /\ CallOk(call, R)
  BY <1>1, <1>2, AnswerGoes DEF RemoveArrives
<1> QED BY <1>3 DEF RemoveArrives, Going, KvStep, Asked

\* A read that arrives, or a deletion that finds nothing.
LEMMA FetchGoes ==
  ASSUME NEW c, NEW R, Following(c, R), NEW B, Asked(c, R, B, "sent"), FetchArrives(c, B),
         calls[c].op \in {"get", "iterate"} \/ (calls[c].op = "delete" /\ B \cap Present = {})
  PROVE  Going(c, R)
<1>1. B \cap Present \in SUBSET Rows /\ \A k \in B \cap R : k \in B \cap Present
  BY FollowingMeans DEF Present
<1>2. calls[c].op \in {"set", "delete"} => B \cap Present \subseteq {}
  OBVIOUS
<1>3. CallOk(Closed(calls[c], B, B \cap Present, {}), R)
  <2> PICK yes : yes = B \cap Present
    OBVIOUS
  <2>1. CallOk(Closed(calls[c], B, yes, {}), R)
    BY <1>1, <1>2, FollowingMeans, ClosedOk DEF Asked
  <2> QED BY <2>1
<1> QED BY <1>3 DEF FetchArrives, Going, KvStep

-----------------------------------------------------------------------------
(* How calls begin. *)

\* The fields of a call that has not begun.
LEMMA IdleMeans ==
  ASSUME clock \in Nat
  PROVE  /\ Idle \in CallType /\ Idle.op = "none" /\ Idle.e = Never /\ Idle.exp = Never
         /\ Idle.now = 0 /\ Idle.asks = FALSE /\ Idle.ahead = {}
         /\ Idle.ok = {} /\ Idle.took = {} /\ Idle.failed = FALSE
BY IdleFresh DEF Fresh, Idle

\* Rows one by one and rows together come to the same rows.
LEMMA PartsMeans ==
  ASSUME NEW K \in SUBSET Rows
  PROVE  /\ Singly(K) \in SUBSET SUBSET Rows /\ UNION Singly(K) = K /\ Singly(K) \subseteq SUBSET K
         /\ Whole(K) \in SUBSET SUBSET Rows /\ UNION Whole(K) = K /\ Whole(K) \subseteq SUBSET K
         /\ \A p, q \in Whole(K) : p = q
<1>1. UNION Singly(K) = K
  BY DEF Singly
<1>2. UNION Whole(K) = K
  <2>1. CASE K = {}
    BY <2>1 DEF Whole
  <2>2. CASE K # {}
    <3>1. Whole(K) = {K}
      BY <2>2 DEF Whole
    <3> QED BY <3>1
  <2> QED BY <2>1, <2>2
<1>3. Singly(K) \in SUBSET SUBSET Rows /\ Singly(K) \subseteq SUBSET K
  BY DEF Singly
<1>4. /\ Whole(K) \in SUBSET SUBSET Rows /\ Whole(K) \subseteq SUBSET K
      /\ \A p, q \in Whole(K) : p = q
  BY DEF Whole
<1> QED BY <1>1, <1>2, <1>3, <1>4

\* The keys and deadlines that calls are made with.
LEMMA InputTypes ==
  ASSUME store \in AllStores, clock \in Nat
  PROVE  /\ \A K \in Batches[store] : K \in SUBSET Keys /\ K \in SUBSET Rows
         /\ \A K \in Asks[store] : K \in SUBSET Keys /\ K \in SUBSET Rows
         /\ Deadlines \subseteq Moments
<1>1. Batches[store] \in SUBSET SUBSET Keys /\ Asks[store] \in SUBSET SUBSET Keys
      /\ Lives[store] \in SUBSET Int
  BY RemoteAssumption
<1> QED BY <1>1 DEF Deadlines, Moments, Rows

\* A call whose rows go off in parts, and one that has a listing to go through.
LEMMA BeginsSent ==
  ASSUME NEW c, NEW R, Following(c, R), NEW call, Fresh(call), NEW parts \in SUBSET SUBSET Rows,
         NEW place \in {"queued", "late", "sent"}, Allowed(call.op, place),
         store \notin Wide => parts \subseteq SUBSET Keys,
         store = "valkeySets" /\ call.op = "set" => \A p, q \in parts : p = q,
         call.op = "clear" => Keys \subseteq UNION parts,
         Begin(c, Posted(call, parts, place))
  PROVE  Starting(c)
<1>1. CallOk(Posted(call, parts, place), Present)
  BY FollowingMeans, StartedOk
<1> QED BY <1>1 DEF Starting

\* The call that has a listing to go through.
LEMMA BeginsListing ==
  ASSUME NEW c, NEW call, Fresh(call), call.op = "clear" => call.ahead = Rows, Begin(c, call)
  PROVE  Starting(c)
BY FreshOk DEF Starting

\* Calls that tell the server nothing of deadlines.
NewAsk(op, now, ahead) == [Idle EXCEPT !.op = op, !.now = now, !.ahead = ahead]

\* Such a call has sent nothing yet.
LEMMA AskFresh ==
  ASSUME clock \in Nat, NEW op \in Ops, NEW now \in {0, clock}, NEW ahead \in {{}, Rows},
         ahead # {} => Lists(op), op = "iterate" => ahead = Rows,
         NEW call, call = NewAsk(op, now, ahead)
  PROVE  Fresh(call) /\ call.op = op /\ call.ahead = ahead
<1>0. now \in Int /\ now <= clock /\ ahead \in SUBSET Rows
  OBVIOUS
<1>1. /\ call \in CallType /\ call.op = op /\ call.e = Never /\ call.exp = Never
      /\ call.at = Idle.at /\ call.batch = Idle.batch /\ call.ok = {} /\ call.took = {}
      /\ call.failed = FALSE /\ call.asks = FALSE /\ call.ahead = ahead /\ call.now = now
  BY <1>0, IdleMeans DEF CallType, NewAsk
<1> QED BY <1>0, <1>1 DEF Fresh, DeadlineOk

\* The ways in which the adapters write such a call.
LEMMA AskForms ==
  ASSUME clock \in Nat, NEW op
  PROVE  /\ [Idle EXCEPT !.op = op] = NewAsk(op, 0, {})
         /\ [Idle EXCEPT !.op = op, !.now = clock] = NewAsk(op, clock, {})
         /\ [Idle EXCEPT !.op = op, !.ahead = Rows] = NewAsk(op, 0, Rows)
         /\ [Idle EXCEPT !.op = op, !.now = clock, !.ahead = Rows] = NewAsk(op, clock, Rows)
BY IdleMeans DEF CallType, NewAsk

\* Reads and deletes, and clear() where it is one request.
AskCall(call, op) == \/ call = [Idle EXCEPT !.op = op]
                     \/ call = [Idle EXCEPT !.op = op, !.now = clock]

\* A read, a delete or a clear() before its rows go off.
LEMMA AskMeans ==
  ASSUME NEW op \in Ops \ {"iterate"}, NEW call, AskCall(call, op), clock \in Nat
  PROVE  Fresh(call) /\ call.op = op
<1>1. PICK now \in {0, clock} : call = NewAsk(op, now, {})
  BY AskForms DEF AskCall
<1>2. {} \in {{}, Rows} /\ op \in Ops
  OBVIOUS
<1> QED BY <1>1, <1>2, AskFresh

\* It begins with its rows on their way.
LEMMA AskStarts ==
  ASSUME NEW c, NEW R, Following(c, R), NEW op \in Ops \ {"set", "iterate"}, NEW call,
         AskCall(call, op), NEW parts \in SUBSET SUBSET Rows, NEW place \in {"queued", "sent"},
         store \notin Wide => parts \subseteq SUBSET Keys,
         op = "clear" => Keys \subseteq UNION parts,
         Begin(c, Posted(call, parts, place))
  PROVE  Starting(c)
<1>1. Fresh(call) /\ call.op = op
  BY FollowingMeans, AskMeans
<1> QED BY <1>1, BeginsSent DEF Allowed

\* A clear() or an iterator that begins with a listing.
LEMMA ListingStarts ==
  ASSUME NEW c, NEW R, Following(c, R), NEW op \in {"clear", "iterate"}, Lists(op), NEW call,
         \/ call = [Idle EXCEPT !.op = op, !.ahead = Rows]
         \/ call = [Idle EXCEPT !.op = op, !.now = clock, !.ahead = Rows],
         Begin(c, call)
  PROVE  Starting(c)
<1>0. clock \in Nat
  BY FollowingMeans
<1>1. PICK now \in {0, clock} : call = NewAsk(op, now, Rows)
  BY <1>0, AskForms
<1>2. Fresh(call) /\ call.ahead = Rows
  <2>1. Rows \in {{}, Rows} /\ op \in Ops
    BY DEF Ops
  <2> QED BY <1>0, <1>1, <2>1, AskFresh
<1> QED BY <1>2, BeginsListing

\* Writes, with what they tell the server of their deadline.
LEMMA WriteFresh ==
  ASSUME clock \in Nat, NEW e \in Moments, NEW exp \in Expiry \cup {Never}, NEW asks \in BOOLEAN,
         exp # Never =>
           e # Never /\ (IF exp.rel THEN clock + exp.n ELSE exp.n) + Slack >= e,
         NEW call,
         \/ call = [Idle EXCEPT !.op = "set", !.e = e, !.exp = exp]
         \/ call = [Idle EXCEPT !.op = "set", !.e = e] /\ exp = Never
         \/ call = [[Idle EXCEPT !.op = "set", !.e = e] EXCEPT !.exp = exp]
         \/ call = [[Idle EXCEPT !.op = "set", !.e = e] EXCEPT !.asks = asks] /\ exp = Never
  PROVE  Fresh(call) /\ call.op = "set"
<1>1. /\ call \in CallType /\ call.op = "set" /\ call.e = e /\ call.exp = exp
      /\ call.at = Idle.at /\ call.batch = Idle.batch /\ call.ok = {} /\ call.took = {}
      /\ call.failed = FALSE /\ call.ahead = {} /\ call.now = 0
  BY IdleMeans DEF CallType, Ops
<1> QED BY <1>1 DEF Fresh, DeadlineOk

\* A write that begins with its rows on their way.
LEMMA WriteStarts ==
  ASSUME NEW c, NEW R, Following(c, R), NEW call, Fresh(call), call.op = "set",
         NEW parts \in SUBSET SUBSET Rows, NEW place \in {"queued", "late", "sent"},
         store \notin Wide => parts \subseteq SUBSET Keys,
         store = "valkeySets" => \A p, q \in parts : p = q,
         Begin(c, Posted(call, parts, place))
  PROVE  Starting(c)
BY BeginsSent DEF Allowed

\* A listing that moves past the rows W and sends for those it finds.
LEMMA PageOk ==
  ASSUME KvOk, NEW call, NEW R \in SUBSET Present, CallOk(call, R),
         call.op \in {"clear", "iterate"}, NEW W, NEW parts \in SUBSET SUBSET Rows,
         NEW place \in {"queued", "sent", "held", "purge"},
         place = "held" => call.op = "iterate",
         place = "purge" => call.op = "clear" /\ store # "mongo",
         W \cap Present \cap Keys \subseteq UNION parts, UNION parts \subseteq Present,
         store \notin Wide => UNION parts \subseteq Keys
  PROVE  CallOk(Posted(Advanced(call, call.ahead \ W), parts, place), R)
<1> PICK A : A = call.ahead \ W
  OBVIOUS
<1>1. R \in SUBSET Rows
  BY DEF Present
<1>2. place \in Places \ {"unused", "done"} /\ Allowed(call.op, place)
  BY DEF Places, Allowed
<1>3. A \in SUBSET call.ahead
  OBVIOUS
<1>4. store \notin Wide => parts \subseteq SUBSET Keys
  OBVIOUS
<1>5. \A k \in R \cap Keys : k \in call.ahead \ A =>
        k \in UNION parts \/ (call.op = "clear" /\ (store = "dynamo" \/ Unlisted(k)))
  <2> SUFFICES ASSUME NEW k \in R \cap Keys, k \in call.ahead \ A PROVE k \in UNION parts
    OBVIOUS
  <2>1. k \in W \cap Present \cap Keys
    OBVIOUS
  <2> QED BY <2>1
<1>6. ~(store = "valkeySets" /\ call.op = "set")
  OBVIOUS
<1>7. call.op \in Cleaning /\ place = "purge" => \A k \in R \cap UNION parts : Dead(k)
  BY DEF Cleaning
<1>8. CallOk(Posted(Advanced(call, A), parts, place), R)
  BY <1>1, <1>2, <1>3, <1>4, <1>5, <1>6, <1>7, PagedOk
<1> QED BY <1>8

\* A page of a listing, as the adapters take it.
LEMMA PageGoes ==
  ASSUME NEW c, NEW R, Following(c, R), NEW W \in (SUBSET calls[c].ahead) \ {{}},
         NEW parts \in SUBSET SUBSET Rows,
         NEW place \in {"queued", "sent", "held", "purge"},
         place = "held" => calls[c].op = "iterate",
         place = "purge" => calls[c].op = "clear" /\ store # "mongo",
         W \cap Present \cap Keys \subseteq UNION parts, UNION parts \subseteq Present,
         store \notin Wide => UNION parts \subseteq Keys,
         NEW paged, paged = [calls[c] EXCEPT !.ahead = @ \ W],
         Settle(c, Posted(paged, parts, place)), kv' = kv
  PROVE  Going(c, R)
<1>1. KvOk /\ R \in SUBSET Present /\ CallOk(calls[c], R)
  BY FollowingMeans
<1>2. calls[c].op \in {"clear", "iterate"}
  BY <1>1 DEF CallOk, ShapeOk, Lists
<1>3. CallOk(Posted(Advanced(calls[c], calls[c].ahead \ W), parts, place), R)
  BY <1>1, <1>2, PageOk
<1>4. paged = Advanced(calls[c], calls[c].ahead \ W)
  BY DEF Advanced
<1> QED BY <1>3, <1>4 DEF Going, KvStep

-----------------------------------------------------------------------------
(* KeyvRedis. *)

\* The requests of a cluster, or the one request without, come to the same rows.
LEMMA SlotParts ==
  ASSUME NEW K \in SUBSET Rows
  PROVE  SlotMap(K) \in SUBSET SUBSET Rows /\ UNION SlotMap(K) = K /\ SlotMap(K) \subseteq SUBSET K
BY PartsMeans DEF SlotMap

\* PXAT names the deadline, PX the time until then, a millisecond at least.
LEMMA ExpiryOptionsMean ==
  ASSUME clock \in Nat, NEW e \in Moments, NEW supported, NEW exp, exp = ExpiryOptions(e, supported)
  PROVE  /\ exp \in Expiry \cup {Never}
         /\ exp # Never => e # Never /\ (IF exp.rel THEN clock + exp.n ELSE exp.n) + Slack >= e
<1>1. Slack \in Nat
  BY RemoteAssumption DEF Slack
<1>2. CASE e = Never
  BY <1>2 DEF ExpiryOptions
<1>3. CASE e # Never /\ supported = "yes"
  <2>1. exp = [rel |-> FALSE, n |-> e] /\ e \in Int
    BY <1>3 DEF ExpiryOptions, Moments
  <2>2. exp \in Expiry /\ ~exp.rel /\ exp.n = e
    BY <2>1 DEF Expiry
  <2>3. e + Slack >= e
    BY <1>1, <2>1
  <2> QED BY <1>3, <2>2, <2>3
<1>4. CASE e # Never /\ supported # "yes"
  <2>1. exp = [rel |-> TRUE, n |-> AtLeast(1, e - clock)] /\ e \in Int
    BY <1>4 DEF ExpiryOptions, Moments
  <2>2. AtLeast(1, e - clock) \in Int /\ clock + AtLeast(1, e - clock) >= e
    BY <2>1 DEF AtLeast
  <2>3. exp \in Expiry /\ exp.rel /\ exp.n = AtLeast(1, e - clock)
    BY <2>1, <2>2 DEF Expiry
  <2> HIDE DEF AtLeast
  <2>4. clock + AtLeast(1, e - clock) + Slack >= e
    BY <1>1, <2>1, <2>2
  <2> QED BY <1>4, <2>3, <2>4
<1> QED BY <1>2, <1>3, <1>4

\* KeyvRedis' set() begins, and asks for the server's version first if it must.
LEMMA RedisSetStarts ==
  ASSUME NEW c, NEW R, Following(c, R), store \in RedisStores,
         NEW K \in Batches[store], NEW e \in Deadlines, RedisSet(c, K, e)
  PROVE  Starting(c)
<1>1. K \in SUBSET Rows /\ K \in SUBSET Keys /\ e \in Moments /\ clock \in Nat /\ store # "valkeySets"
  BY InputTypes, FollowingMeans DEF Following, RemoteInv, RedisStores
<1> DEFINE asks == pxat = "unknown" /\ (Cardinality(K) = 1 => e # Never)
           new  == [Idle EXCEPT !.op = "set", !.e = e]
<1>2. CASE asks
  <2> PICK call : call = [new EXCEPT !.asks = TRUE]
    OBVIOUS
  <2>1. Fresh(call) /\ call.op = "set"
    <3>1. TRUE \in BOOLEAN /\ Never \in Expiry \cup {Never}
      OBVIOUS
    <3> QED BY <1>1, <3>1, WriteFresh
  <2>2. Begin(c, Posted(call, Singly(K), "queued"))
    BY <1>2 DEF RedisSet
  <2> HIDE DEF asks, new
  <2>3. Singly(K) \in SUBSET SUBSET Rows /\ Singly(K) \subseteq SUBSET Keys
    BY <1>1, PartsMeans
  <2> QED BY <1>1, <2>1, <2>2, <2>3, WriteStarts
<1>3. CASE ~asks
  <2> PICK exp : exp = ExpiryOptions(e, pxat)
    OBVIOUS
  <2> PICK call : call = [new EXCEPT !.exp = exp]
    OBVIOUS
  <2>1. Fresh(call) /\ call.op = "set"
    <3>1. /\ exp \in Expiry \cup {Never} /\ TRUE \in BOOLEAN
          /\ exp # Never => e # Never /\ (IF exp.rel THEN clock + exp.n ELSE exp.n) + Slack >= e
      BY <1>1, ExpiryOptionsMean
    <3> QED BY <1>1, <3>1, WriteFresh
  <2>2. Begin(c, Posted(call, SlotMap(K), "sent"))
    BY <1>3 DEF RedisSet
  <2> HIDE DEF asks, new
  <2>3. SlotMap(K) \in SUBSET SUBSET Rows /\ SlotMap(K) \subseteq SUBSET Keys
    BY <1>1, SlotParts
  <2> QED BY <1>1, <2>1, <2>2, <2>3, WriteStarts
<1> QED BY <1>2, <1>3

\* The version arrives: the rows of the write go off.
LEMMA RedisInfoGoes ==
  ASSUME NEW c, NEW R, Following(c, R), store \in RedisStores, RedisInfo(c)
  PROVE  Going(c, R)
<1> PICK call : call = calls[c]
  OBVIOUS
<1> PICK exp : exp = ExpiryOptions(call.e, pxat')
  OBVIOUS
<1> PICK told : told = [call EXCEPT !.asks = FALSE, !.exp = exp]
  OBVIOUS
<1>0. KvOk /\ R \in SUBSET Rows /\ CallOk(call, R) /\ clock \in Nat /\ store # "valkeySets"
  BY FollowingMeans DEF RedisStores
<1>1. call.op = "set"
  BY <1>0 DEF RedisInfo, CallOk, ShapeOk
<1>2. call.e \in Moments
  BY <1>0 DEF CallOk, CallType
<1>3. CallOk(told, R)
  <2>1. /\ exp \in Expiry \cup {Never} /\ FALSE \in BOOLEAN
        /\ exp # Never => call.e # Never /\ (IF exp.rel THEN clock + exp.n ELSE exp.n) + Slack >= call.e
    BY <1>0, <1>2, ExpiryOptionsMean
  <2> QED BY <1>0, <1>1, <2>1, ExpiryOk
<1>4. told.op = "set"
  BY <1>0, <1>1 DEF CallOk, CallType
<1>5. Pending(c) \in SUBSET Rows /\ (store \notin Wide => Pending(c) \subseteq Keys)
  BY <1>0 DEF Pending, CallOk, SpaceOk
<1>6. /\ SlotMap(Pending(c)) \in SUBSET SUBSET Rows
      /\ store \notin Wide => SlotMap(Pending(c)) \subseteq SUBSET Keys
  BY <1>5, SlotParts
<1>7. Settle(c, Posted(told, SlotMap(Pending(c)), "sent")) /\ kv' = kv
  BY DEF RedisInfo
<1>8. CallOk(Posted(told, SlotMap(Pending(c)), "sent"), R)
  <2>1. "sent" \in Places \ {"unused", "done"} /\ Allowed(told.op, "sent")
    BY DEF Places, Allowed
  <2>2. ~(told.op \in Cleaning)
    BY <1>4 DEF Cleaning
  <2> QED BY <1>0, <1>3, <1>6, <2>1, <2>2, PostedOk
<1> QED BY <1>7, <1>8 DEF Going, KvStep

\* Every step of KeyvRedis is one of a call that begins or goes on.
LEMMA RedisGoes ==
  ASSUME NEW c, NEW R, Following(c, R), store \in RedisStores, RedisNext(c)
  PROVE  Moves(c, R)
<1>0. /\ store \in AllStores /\ clock \in Nat /\ store # "valkeySets" /\ store # "mongo"
      /\ store \notin Wide => store # "redisAll"
  BY FollowingMeans DEF Following, RemoteInv, RedisStores, Wide
<1>1. CASE \E K \in Batches[store], e \in Deadlines : RedisSet(c, K, e)
  BY <1>1, RedisSetStarts DEF Moves
<1>2. CASE \E K \in Asks[store], op \in {"get", "delete"} : RedisAsk(c, op, K)
  <2> PICK K \in Asks[store], op \in {"get", "delete"} : RedisAsk(c, op, K)
    BY <1>2
  <2>1. K \in SUBSET Rows /\ K \in SUBSET Keys
    BY <1>0, InputTypes
  <2>2. SlotMap(K) \in SUBSET SUBSET Rows /\ SlotMap(K) \subseteq SUBSET Keys
    BY <2>1, SlotParts
  <2>3. op \in Ops \ {"set", "iterate"} /\ op # "clear"
    BY DEF Ops
  <2> PICK call : call = [Idle EXCEPT !.op = op]
    OBVIOUS
  <2>4. Begin(c, Posted(call, SlotMap(K), "sent")) /\ AskCall(call, op)
    BY DEF RedisAsk, AskCall
  <2> QED BY <2>2, <2>3, <2>4, AskStarts DEF Moves
<1>3. CASE RedisInfo(c)
  BY <1>3, RedisInfoGoes, BusyMeans DEF RedisInfo, Moves
<1>4. CASE \E B \in Requests(c, "sent") :
             RedisWrite(c, B) \/ RedisWriteFails(c, B) \/ RedisFetch(c, B) \/ RedisRemove(c, B)
  <2> PICK B \in Requests(c, "sent") :
             RedisWrite(c, B) \/ RedisWriteFails(c, B) \/ RedisFetch(c, B) \/ RedisRemove(c, B)
    BY <1>4
  <2>1. Asked(c, R, B, "sent")
    BY RequestMeans
  <2>2. Busy(c)
    BY BusyMeans DEF Places
  <2>3. CASE RedisWrite(c, B)
    BY <2>1, <2>2, <2>3, WriteGoes DEF RedisWrite, Moves
  <2>4. CASE RedisWriteFails(c, B)
    <3>1. CallOk(Broken(calls[c], B, {}), R)
      <4>1. {} \in SUBSET Rows
        OBVIOUS
      <4> QED BY <2>1, <4>1, BrokenGoes
    <3> QED BY <2>2, <2>4, <3>1 DEF RedisWriteFails, Moves, Going, KvStep
  <2>5. CASE RedisFetch(c, B)
    <3>1. CASE FetchArrives(c, B)
      BY <2>1, <2>2, <2>5, <3>1, FetchGoes DEF RedisFetch, Moves
    <3>2. CASE Refused(c, B)
      BY <2>1, <2>2, <3>2, RefusedGoes DEF Moves
    <3>3. CASE Fails(c, Abandoned(c, {}))
      BY <2>2, <3>3, AbandonedGoes DEF Moves
    <3> QED BY <2>5, <3>1, <3>2, <3>3 DEF RedisFetch, Refused
  <2>6. CASE RedisRemove(c, B)
    BY <2>1, <2>2, <2>6, RemoveGoes, RefusedGoes DEF RedisRemove, Moves
  <2> QED BY <2>3, <2>4, <2>5, <2>6
<1>5. CASE \E op \in {"clear", "iterate"} : RedisScans(c, op)
  <2> PICK op \in {"clear", "iterate"} : RedisScans(c, op)
    BY <1>5
  <2>1. CASE op = "clear" /\ store = "redisAll"
    <3> PICK call : call = [Idle EXCEPT !.op = "clear"]
      OBVIOUS
    <3>1. Begin(c, Posted(call, Whole(Rows), "sent")) /\ AskCall(call, "clear")
      BY <2>1 DEF RedisScans, AskCall
    <3>2. Whole(Rows) \in SUBSET SUBSET Rows /\ Keys \subseteq UNION Whole(Rows)
      BY PartsMeans DEF Rows
    <3>3. "clear" \in Ops \ {"set", "iterate"} /\ store \in Wide
      BY <2>1 DEF Ops, Wide
    <3> QED BY <3>1, <3>2, <3>3, AskStarts DEF Moves
  <2>2. CASE ~(op = "clear" /\ store = "redisAll")
    <3> PICK call : call = [Idle EXCEPT !.op = op, !.ahead = Rows]
      OBVIOUS
    <3>1. Begin(c, call)
      BY <2>2 DEF RedisScans
    <3>2. Lists(op)
      BY DEF Lists, RedisStores
    <3> QED BY <3>1, <3>2, ListingStarts DEF Moves
  <2> QED BY <2>1, <2>2
<1>6. CASE \E W \in Pages(c) : RedisPage(c, W) \/ RedisScanFails(c, W)
  <2> PICK W \in Pages(c) : RedisPage(c, W) \/ RedisScanFails(c, W)
    BY <1>6
  <2>1. W \in (SUBSET calls[c].ahead) \ {{}}
    BY DEF Pages
  <2>2. Busy(c)
    BY BusyMeans
  <2>3. CASE RedisPage(c, W)
    <3> PICK found : found = W \cap Present \cap Matches
      OBVIOUS
    <3> PICK paged : paged = [calls[c] EXCEPT !.ahead = @ \ W]
      OBVIOUS
    <3>1. Settle(c, Posted(paged, SlotMap(found), "sent")) /\ kv' = kv
      BY <2>3 DEF RedisPage
    <3>2. /\ found \in SUBSET Rows /\ found \subseteq Present /\ W \cap Present \cap Keys \subseteq found
          /\ store \notin Wide => found \subseteq Keys
      BY <1>0 DEF Matches, Rows, Present
    <3>3. SlotMap(found) \in SUBSET SUBSET Rows /\ UNION SlotMap(found) = found
      BY <3>2, SlotParts
    <3>4. Going(c, R)
      BY <2>1, <3>1, <3>2, <3>3, PageGoes
    <3> QED BY <2>2, <3>4 DEF Moves
  <2>4. CASE RedisScanFails(c, W)
    <3> PICK A : A = calls[c].ahead \ W
      OBVIOUS
    <3>1. A \in SUBSET calls[c].ahead
      OBVIOUS
    <3>2. CallOk([calls[c] EXCEPT !.ahead = A, !.failed = TRUE], R)
      BY <3>1, FollowingMeans, FailedOk
    <3>3. Settle(c, [calls[c] EXCEPT !.ahead = A, !.failed = TRUE]) /\ kv' = kv
      BY <2>4 DEF RedisScanFails, Fails
    <3> QED BY <2>2, <3>2, <3>3 DEF Moves, Going, KvStep
  <2> QED BY <2>3, <2>4
<1> QED BY <1>1, <1>2, <1>3, <1>4, <1>5, <1>6 DEF RedisNext

-----------------------------------------------------------------------------
(* KeyvValkey. *)

\* A deadline that is told as it is.
Date(e) == IF e = Never THEN Never ELSE [rel |-> FALSE, n |-> e]

\* A date tells the server the deadline itself.
LEMMA DateMeans ==
  ASSUME NEW e \in Moments, NEW exp, exp = Date(e)
  PROVE  /\ exp \in Expiry \cup {Never} /\ TRUE \in BOOLEAN
         /\ exp # Never => e # Never /\ (IF exp.rel THEN clock + exp.n ELSE exp.n) + Slack >= e
<1>1. Slack \in Nat
  BY RemoteAssumption DEF Slack
<1>2. CASE e = Never
  BY <1>2 DEF Date
<1>3. CASE e # Never
  <2>1. exp = [rel |-> FALSE, n |-> e] /\ e \in Int
    BY <1>3 DEF Moments, Date
  <2>2. exp \in Expiry /\ ~exp.rel /\ exp.n = e
    BY <2>1 DEF Expiry
  <2>3. e + Slack >= e
    BY <1>1, <2>1
  <2> QED BY <1>3, <2>2, <2>3
<1> QED BY <1>2, <1>3

\* The rows of a call that is made with keys of the namespace.
LEMMA KeyParts ==
  ASSUME NEW K \in SUBSET Keys, NEW parts, parts = Singly(K) \/ parts = Whole(K)
  PROVE  parts \in SUBSET SUBSET Rows /\ parts \subseteq SUBSET Keys /\ UNION parts = K
<1>1. K \in SUBSET Rows
  BY DEF Rows
<1> QED BY <1>1, PartsMeans

\* KeyvValkey's set() begins, all of its rows in one request.
LEMMA ValkeySetStarts ==
  ASSUME NEW c, NEW R, Following(c, R), store \in {"valkey", "valkeySets"},
         NEW K \in Batches[store], NEW e \in Deadlines, ValkeySet(c, K, e)
  PROVE  Starting(c)
<1> PICK exp : exp = Date(e)
  OBVIOUS
<1> PICK call : call = [Idle EXCEPT !.op = "set", !.e = e, !.exp = exp]
  OBVIOUS
<1>1. K \in SUBSET Rows /\ K \in SUBSET Keys /\ e \in Moments /\ clock \in Nat
  BY InputTypes, FollowingMeans DEF Following, RemoteInv
<1>2. Fresh(call) /\ call.op = "set"
  <2>1. /\ exp \in Expiry \cup {Never} /\ TRUE \in BOOLEAN
        /\ exp # Never => e # Never /\ (IF exp.rel THEN clock + exp.n ELSE exp.n) + Slack >= e
    BY <1>1, DateMeans
  <2> QED BY <1>1, <2>1, WriteFresh
<1>3. Begin(c, Posted(call, Whole(K), "sent"))
  BY DEF ValkeySet, Date
<1>4. Whole(K) \in SUBSET SUBSET Rows /\ Whole(K) \subseteq SUBSET Keys
      /\ \A p, q \in Whole(K) : p = q
  BY <1>1, PartsMeans
<1> QED BY <1>2, <1>3, <1>4, WriteStarts

\* Its clear() sends for the rows of the namespace's set, or of the server.
LEMMA ValkeyClearsGoes ==
  ASSUME NEW c, NEW R, Following(c, R), store \in {"valkey", "valkeySets"}, ValkeyClears(c)
  PROVE  Going(c, R)
<1> PICK call : call = calls[c]
  OBVIOUS
<1> PICK list : list = ClearList
  OBVIOUS
<1>0. KvOk /\ R \in SUBSET Rows /\ R \in SUBSET Present /\ CallOk(call, R) /\ call.op = "clear"
  BY FollowingMeans DEF ValkeyClears
<1>1. /\ list \in SUBSET Rows /\ (store \notin Wide => list \subseteq Keys)
      /\ \A k \in R \cap Keys : k \in list \/ Unlisted(k)
  BY <1>0 DEF ClearList, UseSets, Wide, Following, RemoteInv, IndexOk, Rows, Present, Unlisted
<1>2. /\ Whole(list) \in SUBSET SUBSET Rows /\ UNION Whole(list) = list
      /\ store \notin Wide => Whole(list) \subseteq SUBSET Keys
  BY <1>1, PartsMeans
<1>3. Settle(c, Posted(Advanced(call, {}), Whole(list), "sent")) /\ kv' = kv
  BY DEF ValkeyClears, Advanced
<1>4. CallOk(Posted(Advanced(call, {}), Whole(list), "sent"), R)
  <2>1. "sent" \in Places \ {"unused", "done"} /\ Allowed(call.op, "sent") /\ {} \in SUBSET call.ahead
    BY DEF Places, Allowed
  <2>2. \A k \in R \cap Keys : k \in call.ahead \ {} =>
          k \in UNION Whole(list) \/ (call.op = "clear" /\ (store = "dynamo" \/ Unlisted(k)))
    BY <1>0, <1>1, <1>2
  <2> QED BY <1>0, <1>2, <2>1, <2>2, PagedOk
<1> QED BY <1>3, <1>4 DEF Going, KvStep

\* Rows leave the namespace's set after they are deleted, or the call fails.
LEMMA ValkeyUnindexGoes ==
  ASSUME NEW c, NEW R, Following(c, R), ValkeyUnindex(c)
  PROVE  Going(c, R)
<1> PICK call : call = calls[c]
  OBVIOUS
<1>0. CallOk(call, R) /\ call \in CallType /\ R \in SUBSET Rows
  BY FollowingMeans
<1>1. kv' = kv
  BY DEF ValkeyUnindex
<1>2. CASE index' \cap unindex[c] = {}
  <2>1. [call EXCEPT !.failed = call.failed \/ (index' \cap unindex[c] # {})] = call
    BY <1>0, <1>2 DEF CallType
  <2> QED BY <1>0, <1>1, <2>1 DEF ValkeyUnindex, Going, KvStep
<1>3. CASE index' \cap unindex[c] # {}
  <2>1. [call EXCEPT !.failed = call.failed \/ (index' \cap unindex[c] # {})]
          = [call EXCEPT !.ahead = call.ahead, !.failed = TRUE]
    BY <1>0, <1>3 DEF CallType
  <2>2. call.ahead \in SUBSET call.ahead
    OBVIOUS
  <2>3. CallOk([call EXCEPT !.ahead = call.ahead, !.failed = TRUE], R)
    BY <1>0, <2>2, FailedOk
  <2> QED BY <1>1, <2>1, <2>3 DEF ValkeyUnindex, Going, KvStep
<1> QED BY <1>2, <1>3

\* Every step of KeyvValkey is one of a call that begins or goes on.
LEMMA ValkeyGoes ==
  ASSUME NEW c, NEW R, Following(c, R), store \in {"valkey", "valkeySets"}, ValkeyNext(c)
  PROVE  Moves(c, R)
<1>0. store \in AllStores /\ clock \in Nat /\ store # "mongo"
  BY FollowingMeans DEF Following, RemoteInv
<1>1. CASE \E K \in Batches[store], e \in Deadlines : ValkeySet(c, K, e)
  BY <1>1, ValkeySetStarts DEF Moves
<1>2. CASE \E K \in Asks[store], op \in {"get", "delete"} : ValkeyAsk(c, op, K)
  <2> PICK K \in Asks[store], op \in {"get", "delete"} : ValkeyAsk(c, op, K)
    BY <1>2
  <2>1. K \in SUBSET Keys
    BY <1>0, InputTypes
  <2>2. op \in Ops \ {"set", "iterate"} /\ op # "clear"
    BY DEF Ops
  <2>3. \E call : AskCall(call, op) /\ \E parts \in {Singly(K), Whole(K)} :
                                           Begin(c, Posted(call, parts, "sent"))
    BY DEF ValkeyAsk, AskCall
  <2>4. PICK call : AskCall(call, op) /\ \E parts \in {Singly(K), Whole(K)} :
                                            Begin(c, Posted(call, parts, "sent"))
    BY <2>3
  <2>5. PICK parts \in {Singly(K), Whole(K)} : Begin(c, Posted(call, parts, "sent"))
    BY <2>4
  <2>6. parts \in SUBSET SUBSET Rows /\ parts \subseteq SUBSET Keys
    BY <2>1, KeyParts
  <2> QED BY <2>2, <2>4, <2>5, <2>6, AskStarts DEF Moves
<1>3. CASE \E B \in Requests(c, "sent") :
             ValkeyWrite(c, B) \/ ValkeyFetch(c, B) \/ ValkeyRemove(c, B)
  <2> PICK B \in Requests(c, "sent") :
             ValkeyWrite(c, B) \/ ValkeyFetch(c, B) \/ ValkeyRemove(c, B)
    BY <1>3
  <2>1. Asked(c, R, B, "sent")
    BY RequestMeans
  <2>2. Busy(c)
    BY BusyMeans DEF Places
  <2>3. CASE ValkeyWrite(c, B)
    BY <2>1, <2>2, <2>3, WriteGoes, RefusedGoes DEF ValkeyWrite, Moves
  <2>4. CASE ValkeyFetch(c, B)
    BY <2>1, <2>2, <2>4, FetchGoes, AbandonedGoes DEF ValkeyFetch, Moves
  <2>5. CASE ValkeyRemove(c, B)
    BY <2>1, <2>2, <2>5, RemoveGoes, RefusedGoes DEF ValkeyRemove, Moves
  <2> QED BY <2>3, <2>4, <2>5
<1>4. CASE \E op \in {"clear", "iterate"} : ValkeyScans(c, op)
  <2> PICK op \in {"clear", "iterate"} : ValkeyScans(c, op)
    BY <1>4
  <2> PICK call : call = [Idle EXCEPT !.op = op, !.ahead = Rows]
    OBVIOUS
  <2>1. Begin(c, call)
    BY DEF ValkeyScans
  <2> QED BY <2>1, ListingStarts DEF Moves, Lists
<1>5. CASE ValkeyClears(c)
  BY <1>5, ValkeyClearsGoes, BusyMeans DEF ValkeyClears, Moves
<1>6. CASE ValkeyUnindex(c)
  BY <1>6, ValkeyUnindexGoes DEF ValkeyUnindex, Busy, Moves
<1>7. CASE ValkeyListFails(c)
  BY <1>7, AbandonedGoes, BusyMeans DEF ValkeyListFails, Moves
<1>8. CASE \E W \in Pages(c) : ValkeyPage(c, W)
  <2> PICK W \in Pages(c) : ValkeyPage(c, W)
    BY <1>8
  <2>1. W \in (SUBSET calls[c].ahead) \ {{}} /\ Busy(c)
    BY BusyMeans DEF Pages
  <2> PICK found : found = W \cap Present \cap Keys
    OBVIOUS
  <2> PICK paged : paged = [calls[c] EXCEPT !.ahead = @ \ W]
    OBVIOUS
  <2>2. Settle(c, Posted(paged, Whole(found), "sent")) /\ kv' = kv
    BY DEF ValkeyPage
  <2>3. found \in SUBSET Keys /\ found \subseteq Present
    OBVIOUS
  <2>4. Whole(found) \in SUBSET SUBSET Rows /\ UNION Whole(found) = found
    BY <2>3, KeyParts
  <2>5. Going(c, R)
    BY <2>1, <2>2, <2>3, <2>4, PageGoes
  <2> QED BY <2>1, <2>5 DEF Moves
<1> QED BY <1>1, <1>2, <1>3, <1>4, <1>5, <1>6, <1>7, <1>8 DEF ValkeyNext

\* What a call has when its step is over.
LEMMA SettleMeans ==
  ASSUME RemoteInv, NEW c \in Callers, NEW call, Settle(c, call)
  PROVE  /\ calls'[c] = IF Settled(call) THEN Outcome(call) ELSE call
         /\ \A d \in Callers \ {c} : calls'[d] = calls[d]
         /\ DOMAIN calls' = Callers
         /\ \A d \in Callers \ {c} : d \in DOMAIN calls
<1>1. calls \in [Callers -> CallType]
  BY DEF RemoteInv
<1> PICK new : new = IF Settled(call) THEN Outcome(call) ELSE call
  OBVIOUS
<1>2. calls' = [calls EXCEPT ![c] = new]
  BY DEF Settle
<1> QED BY <1>1, <1>2

\* A write that has settled has not forgotten what it wrote.
LEMMA TookKept ==
  ASSUME store \in {"valkey", "valkeySets"}, NEW call \in CallType, call.op = "set", clock \in Nat
  PROVE  Outcome(call).took = call.took
<1>1. ~AllOrNothing(call.op)
  BY DEF AllOrNothing, Bridges
<1>2. {k \in call.took : call.op \in {"set", "delete"}} = call.took
  OBVIOUS
<1>3. Idle \in CallType
  BY IdleMeans
<1> QED BY <1>1, <1>2, <1>3 DEF Outcome, CallType

\* The set of the namespace learns of a row by a write of it only.
LEMMA IndexMoves ==
  ASSUME NEW c, NEW R, Following(c, R), store \in {"valkey", "valkeySets"}, ValkeyNext(c)
  PROVE  /\ IndexOk' /\ store' = store /\ clock' = clock
         /\ \A k \in Rows : store = "valkeySets" /\ k \in index' \ index => Rewritten(k)
         /\ Busy(c) \/ index' = index
<1>0. IndexOk /\ RemoteInv /\ c \in Callers /\ clock \in Nat /\ calls[c] \in CallType /\ KvOk
  BY FollowingMeans DEF Following, RemoteInv
<1>6. Requests(c, "sent") # {} => Busy(c)
  BY BusyMeans DEF Places
<1>1. CASE UNCHANGED valkeyVars /\ store' = store /\ clock' = clock
  BY <1>0, <1>1 DEF valkeyVars, IndexOk
<1>2. CASE \E B \in Requests(c, "sent") : ValkeyWrite(c, B)
  <2> PICK B \in Requests(c, "sent") : ValkeyWrite(c, B)
    BY <1>2
  <2>1. Asked(c, R, B, "sent") /\ calls[c].op = "set"
    BY RequestMeans DEF ValkeyWrite
  <2>2. CASE Refused(c, B) /\ UNCHANGED index
    BY <1>0, <2>2 DEF ValkeyWrite, IndexOk, Refused, Fails
  <2>3. CASE WriteArrives(c, B) /\ index' = IF UseSets THEN index \cup B ELSE index
    <3>1. store' = store /\ clock' = clock /\ unindex' = unindex
      BY <2>3 DEF ValkeyWrite, WriteArrives
    <3>2. CASE store = "valkey"
      BY <1>0, <2>3, <3>1, <3>2 DEF UseSets, IndexOk
    <3>3. CASE store = "valkeySets"
      <4>1. B \in SUBSET Rows /\ B \subseteq Keys /\ calls[c].took = {}
        BY <2>1, <3>3 DEF Asked, Wide
      <4>2. index' = index \cup B
        BY <2>3, <3>3 DEF UseSets
      <4>3. IndexOk'
        BY <1>0, <3>1, <4>1, <4>2 DEF IndexOk
      <4>4. PICK call \in {Closed(calls[c], B, B, B), Broken(calls[c], B, B)} : Settle(c, call)
        BY <2>3 DEF WriteArrives, Answer
      <4>5. call \in CallType /\ call.op = "set" /\ call.took = B
        <5> PICK mid : mid = Closed(calls[c], B, B, B)
          OBVIOUS
        <5> PICK none : none = Closed(calls[c], B, {}, B)
          OBVIOUS
        <5>1. IsClosed(mid, calls[c], B, B, B)
          BY <1>0, <4>1, ClosedMeans
        <5>2. IsClosed(none, calls[c], B, {}, B)
          <6>1. {} \in SUBSET Rows
            OBVIOUS
          <6> QED BY <1>0, <4>1, <6>1, ClosedMeans
        <5>3. mid \in CallType /\ mid.op = "set" /\ mid.took = B
          BY <2>1, <4>1, <5>1 DEF IsClosed, Same
        <5>4. none \in CallType /\ none.op = "set" /\ none.took = B
          BY <2>1, <4>1, <5>2 DEF IsClosed, Same
        <5> PICK broken : broken = [none EXCEPT !.failed = TRUE]
          OBVIOUS
        <5>5. broken \in CallType /\ broken.op = "set" /\ broken.took = B
          BY <5>4 DEF CallType
        <5>6. call = mid \/ call = broken
          BY DEF Broken
        <5> QED BY <5>3, <5>5, <5>6
      <4>6. calls'[c].took = B
        BY <1>0, <4>4, <4>5, SettleMeans, TookKept
      <4>7. \A k \in B : Rewritten(k)
        BY <1>0, <4>1, <4>6 DEF Rewritten
      <4> QED BY <1>6, <3>1, <4>2, <4>3, <4>7
    <3> QED BY <3>2, <3>3
  <2> QED BY <1>6, <2>2, <2>3 DEF ValkeyWrite
<1>3. CASE \E B \in Requests(c, "sent") : ValkeyRemove(c, B)
  <2>1. index' \subseteq index /\ unindex' = unindex /\ store' = store /\ clock' = clock
    BY <1>3 DEF ValkeyRemove, RemoveArrives, Refused, Fails
  <2> QED BY <1>0, <1>3, <1>6, <2>1 DEF IndexOk
<1>4. CASE ValkeyClears(c)
  <2> PICK list : list = IF UseSets THEN ClearList ELSE {}
    OBVIOUS
  <2>1. list \in SUBSET Keys /\ (store # "valkeySets" => list = {})
    BY <1>0 DEF UseSets, ClearList, IndexOk
  <2>2. index' = index /\ unindex' = [unindex EXCEPT ![c] = list] /\ store' = store /\ clock' = clock
    BY <1>4 DEF ValkeyClears
  <2> QED BY <1>0, <2>1, <2>2 DEF IndexOk
<1>5. CASE ValkeyUnindex(c)
  <2>1. /\ index' \subseteq index /\ unindex' = [unindex EXCEPT ![c] = {}]
        /\ store' = store /\ clock' = clock
    BY <1>5 DEF ValkeyUnindex
  <2>2. Busy(c)
    BY <1>5 DEF ValkeyUnindex, Busy
  <2> QED BY <1>0, <2>1, <2>2 DEF IndexOk
<1> QED BY <1>1, <1>2, <1>3, <1>4, <1>5
    DEF ValkeyNext, ValkeySet, ValkeyAsk, ValkeyFetch, ValkeyScans, ValkeyListFails, ValkeyPage,
        Begin, FetchArrives, Fails, valkeyVars

-----------------------------------------------------------------------------
(* KeyvMemcache. *)

\* A read or a delete that begins with rows it was asked for.
LEMMA KeysStart ==
  ASSUME NEW c, NEW R, Following(c, R), NEW op \in {"get", "delete"}, NEW K \in Asks[store],
         NEW place \in {"queued", "sent"},
         \E call : AskCall(call, op) /\ \E parts \in {Singly(K), Whole(K)} :
                                           Begin(c, Posted(call, parts, place))
  PROVE  Starting(c)
<1>1. K \in SUBSET Keys
  BY InputTypes DEF Following, RemoteInv
<1>2. op \in Ops \ {"set", "iterate"} /\ op # "clear"
  BY DEF Ops
<1>3. PICK call : AskCall(call, op) /\ \E parts \in {Singly(K), Whole(K)} :
                                          Begin(c, Posted(call, parts, place))
  OBVIOUS
<1>4. PICK parts \in {Singly(K), Whole(K)} : Begin(c, Posted(call, parts, place))
  BY <1>3
<1>5. parts \in SUBSET SUBSET Rows /\ parts \subseteq SUBSET Keys
  BY <1>1, KeyParts
<1> QED BY <1>2, <1>3, <1>4, <1>5, AskStarts

\* clear() in one request, for a namespace or for all there is.
LEMMA ClearStarts ==
  ASSUME NEW c, NEW R, Following(c, R), NEW K \in {Keys, Rows}, store \notin Wide => K = Keys,
         NEW op \in {"clear", "clearExpired", "clearUnusedFor"},
         \E call : AskCall(call, op) /\ Begin(c, Posted(call, Whole(K), "sent"))
  PROVE  Starting(c)
<1>1. PICK call : AskCall(call, op) /\ Begin(c, Posted(call, Whole(K), "sent"))
  OBVIOUS
<1>2. K \in SUBSET Rows /\ Keys \subseteq K
  BY DEF Rows
<1>3. /\ Whole(K) \in SUBSET SUBSET Rows /\ Keys \subseteq UNION Whole(K)
      /\ store \notin Wide => Whole(K) \subseteq SUBSET Keys
  BY <1>2, PartsMeans
<1>4. op \in Ops \ {"set", "iterate"}
  BY DEF Ops
<1> QED BY <1>1, <1>3, <1>4, AskStarts

\* Whole seconds, rounded down.
LEMMA DivMeans ==
  ASSUME NEW a \in Int, NEW q, q = a \div Second
  PROVE  q \in Int /\ q * Second <= a /\ a < q * Second + Second
<1>1. Second \in Int /\ Second > 0
  BY RemoteAssumption
<1> QED BY <1>1

\* Rounded up.
LEMMA SecondsMeans ==
  ASSUME NEW t \in Int, NEW n, n = Seconds(t)
  PROVE  /\ n \in Int /\ n * Second \in Int /\ n * Second >= t
         /\ t <= Month * Second => n <= Month
<1> PICK q : q = (-t) \div Second
  OBVIOUS
<1>1. q \in Int /\ q * Second <= -t /\ -t < q * Second + Second
  BY DivMeans
<1>2. n = -q
  BY DEF Seconds
<1>3. Second \in Int /\ Month \in Int /\ Second > 0
  BY RemoteAssumption, MonthAssumption
<1>4. (-q) * Second = -(q * Second) /\ q * Second \in Int
  BY <1>1, <1>3
<1>5. ASSUME t <= Month * Second, n > Month PROVE FALSE
  <2>1. q + 1 + Month <= 0
    BY <1>1, <1>2, <1>3, <1>5
  <2>2. (q + 1 + Month) * Second <= 0
    BY <1>1, <1>3, <2>1
  <2>3. (q + 1 + Month) * Second = q * Second + Second + Month * Second
    BY <1>1, <1>3
  <2>4. q * Second \in Int /\ Month * Second \in Int
    BY <1>1, <1>3
  <2> QED BY <1>1, <1>3, <1>5, <2>2, <2>3, <2>4
<1>6. n \in Int /\ n * Second \in Int /\ n * Second >= t
  BY <1>1, <1>2, <1>4
<1> QED BY <1>3, <1>5, <1>6

\* What is told is no earlier than the deadline, as a lifetime or as a date.
LEMMA ExptimeMeans ==
  ASSUME clock \in Nat, NEW e \in Moments \ {Never}, NEW exp, exp = Exptime(e)
  PROVE  exp \in Expiry /\ (IF exp.rel THEN clock + exp.n ELSE exp.n) + Slack >= e
<1>0. e \in Int /\ Slack \in Nat /\ Second \in Int /\ Second > 0 /\ Month \in Int /\ Month > 0
      /\ Month * Second \in Int
  BY RemoteAssumption, MonthAssumption DEF Moments, Slack
<1> PICK n : n = IF e - clock > Month * Second THEN Seconds(e)
                 ELSE IF e - clock < 1 THEN 1 ELSE Seconds(e - clock)
  OBVIOUS
<1>1. exp = [rel |-> n <= Month, n |-> n * Second]
  BY DEF Exptime
<1>2. n \in Int /\ n * Second \in Int
      /\ IF n <= Month THEN clock + n * Second >= e ELSE n * Second >= e
  <2>1. CASE e - clock > Month * Second
    <3>1. n \in Int /\ n * Second \in Int /\ n * Second >= e
      BY <1>0, <2>1, SecondsMeans
    <3> QED BY <1>0, <3>1
  <2>2. CASE ~(e - clock > Month * Second) /\ e - clock < 1
    <3>1. n = 1 /\ n * Second = Second
      BY <1>0, <2>2
    <3> QED BY <1>0, <2>2, <3>1
  <2>3. CASE ~(e - clock > Month * Second) /\ ~(e - clock < 1)
    <3> PICK t \in Int : t = e - clock
      BY <1>0
    <3>1. t <= Month * Second
      BY <1>0, <2>3
    <3>2. n = Seconds(t)
      BY <2>3
    <3>3. n \in Int /\ n * Second \in Int /\ n * Second >= t /\ n <= Month
      BY <3>1, <3>2, SecondsMeans
    <3> QED BY <1>0, <3>3
  <2> QED BY <2>1, <2>2, <2>3
<1> PICK m : m = n * Second
  OBVIOUS
<1>3. CASE n <= Month
  <2>1. exp = [rel |-> TRUE, n |-> m]
    <3>1. (n <= Month) = TRUE
      BY <1>3
    <3> QED BY <1>1, <3>1
  <2>2. m \in Int /\ clock + m + Slack >= e
    BY <1>0, <1>2, <1>3
  <2> QED BY <2>1, <2>2 DEF Expiry
<1>4. CASE ~(n <= Month)
  <2>1. exp = [rel |-> FALSE, n |-> m]
    <3>1. (n <= Month) = FALSE
      BY <1>4
    <3> QED BY <1>1, <3>1
  <2>2. m \in Int /\ m + Slack >= e
    BY <1>0, <1>2, <1>4
  <2> QED BY <2>1, <2>2 DEF Expiry
<1> QED BY <1>3, <1>4

\* Every step of KeyvMemcache is one of a call that begins or goes on.
LEMMA MemcacheGoes ==
  ASSUME NEW c, NEW R, Following(c, R), store = "memcache", MemcacheNext(c)
  PROVE  Moves(c, R)
<1>0. store \in AllStores /\ clock \in Nat /\ store # "mongo" /\ store # "valkeySets" /\ store \in Wide
  BY FollowingMeans DEF Following, RemoteInv, Wide
<1>1. CASE \E K \in Batches[store], e \in Deadlines : MemcacheSet(c, K, e)
  <2> PICK K \in Batches[store], e \in Deadlines : MemcacheSet(c, K, e)
    BY <1>1
  <2> PICK exp : exp = IF e = Never THEN Never ELSE Exptime(e)
    OBVIOUS
  <2> PICK call : call = [Idle EXCEPT !.op = "set", !.e = e, !.exp = exp]
    OBVIOUS
  <2>1. K \in SUBSET Keys /\ e \in Moments
    BY <1>0, InputTypes
  <2>2. Fresh(call) /\ call.op = "set"
    <3>1. /\ exp \in Expiry \cup {Never} /\ TRUE \in BOOLEAN
          /\ exp # Never => e # Never /\ (IF exp.rel THEN clock + exp.n ELSE exp.n) + Slack >= e
      <4>1. CASE e = Never
        BY <4>1
      <4>2. CASE e # Never
        <5>1. e \in Moments \ {Never} /\ exp = Exptime(e)
          BY <2>1, <4>2
        <5> QED BY <1>0, <5>1, ExptimeMeans
      <4> QED BY <4>1, <4>2
    <3> QED BY <1>0, <2>1, <3>1, WriteFresh
  <2>3. Begin(c, Posted(call, Singly(K), "sent"))
    BY DEF MemcacheSet
  <2>4. Singly(K) \in SUBSET SUBSET Rows /\ Singly(K) \subseteq SUBSET Keys
    BY <2>1, KeyParts
  <2> QED BY <1>0, <2>2, <2>3, <2>4, WriteStarts DEF Moves
<1>2. CASE \E K \in Asks[store], op \in {"get", "delete"} : MemcacheAsk(c, op, K)
  <2> PICK K \in Asks[store], op \in {"get", "delete"} : MemcacheAsk(c, op, K)
    BY <1>2
  <2>1. \E call : AskCall(call, op) /\ \E parts \in {Singly(K), Whole(K)} :
                                           Begin(c, Posted(call, parts, "sent"))
    BY DEF MemcacheAsk, AskCall
  <2> QED BY <2>1, KeysStart DEF Moves
<1>3. CASE MemcacheFlush(c)
  <2>1. \E call : AskCall(call, "clear") /\ Begin(c, Posted(call, Whole(Rows), "sent"))
    BY <1>3 DEF MemcacheFlush, AskCall
  <2> QED BY <1>0, <2>1, ClearStarts DEF Moves
<1>4. CASE \E B \in Requests(c, "sent") :
             MemcacheWrite(c, B) \/ MemcacheFetch(c, B) \/ MemcacheRemove(c, B)
  <2> PICK B \in Requests(c, "sent") :
             MemcacheWrite(c, B) \/ MemcacheFetch(c, B) \/ MemcacheRemove(c, B)
    BY <1>4
  <2>1. Asked(c, R, B, "sent")
    BY RequestMeans
  <2>2. Busy(c)
    BY BusyMeans DEF Places
  <2>3. CASE Refused(c, B)
    BY <2>1, <2>2, <2>3, RefusedGoes DEF Moves
  <2>4. CASE ~Refused(c, B)
    BY <2>1, <2>2, <2>4, WriteGoes, FetchGoes, RemoveGoes
       DEF MemcacheWrite, MemcacheFetch, MemcacheRemove, Moves
  <2> QED BY <2>3, <2>4
<1> QED BY <1>1, <1>2, <1>3, <1>4 DEF MemcacheNext

-----------------------------------------------------------------------------
(* Rows that a call takes one by one. *)

\* A row under way is one of the namespace.
LEMMA RowMeans ==
  ASSUME NEW c, NEW R, Following(c, R), NEW k \in Rows, calls[c].at[k] # "unused"
  PROVE  store \notin Wide => {k} \subseteq Keys
BY FollowingMeans DEF CallOk, SpaceOk

\* A row that a step has deleted was none of those it leaves alone.
LEMMA GoneMeans ==
  ASSUME NEW c, NEW R, Following(c, R), NEW B \in SUBSET Rows, kv' = Without(B)
  PROVE  B \cap R = {}
BY FollowingMeans DEF Without, Following, Present

\* A row of a call may be asked for on its own.
LEMMA OneAsked ==
  ASSUME NEW c, NEW R, Following(c, R), store # "valkeySets", NEW k \in Rows,
         NEW place, calls[c].at[k] = place, place # "unused"
  PROVE  Asked(c, R, {k}, place)
<1>1. {k} \in SUBSET Rows /\ (store \notin Wide => {k} \subseteq Keys)
  BY RowMeans
<1>2. calls[c].op \in Cleaning /\ place = "purge" => \A j \in {k} \cap R : Dead(j)
  BY FollowingMeans DEF CallOk, ReadOk, Cleaning
<1>3. store = "mongo" /\ place = "purge" => calls[c].op \in {"get", "iterate"}
  BY FollowingMeans DEF CallOk, ShapeOk, Allowed
<1> QED BY <1>1, <1>2, <1>3 DEF Asked

\* One row moves on.
LEMMA MoveGoes ==
  ASSUME NEW c, NEW R, Following(c, R), store # "valkeySets", NEW k \in Rows,
         calls[c].at[k] # "unused",
         NEW place \in Places \ {"unused", "done"}, Allowed(calls[c].op, place),
         place = "held" => k \in Present,
         calls[c].op \in Cleaning /\ place = "purge" => (k \in R => Dead(k)),
         Move(c, k, place)
  PROVE  Going(c, R)
<1>1. {{k}} \in SUBSET SUBSET Rows /\ UNION {{k}} = {k}
  OBVIOUS
<1>2. store \notin Wide => {{k}} \subseteq SUBSET Keys
  BY RowMeans
<1>3. KvOk /\ R \in SUBSET Rows /\ CallOk(calls[c], R)
  BY FollowingMeans
<1>4. /\ place = "held" => UNION {{k}} \subseteq Present
      /\ calls[c].op \in Cleaning /\ place = "purge" => \A j \in R \cap UNION {{k}} : Dead(j)
  BY <1>1
<1>5. CallOk(Posted(calls[c], {{k}}, place), R)
  BY <1>1, <1>2, <1>3, <1>4, PostedOk
<1> QED BY <1>5 DEF Move, Going, KvStep

\* The rows B are answered.
LEMMA ClosedGoes ==
  ASSUME NEW c, NEW R, Following(c, R), store # "valkeySets", NEW B \in SUBSET Rows,
         store \notin Wide => B \subseteq Keys,
         NEW yes \in SUBSET Rows, NEW took \in SUBSET Rows,
         calls[c].op \in {"set", "delete"} =>
           yes \subseteq took \/ (calls[c].op = "delete" /\ store \in {"kvBind", "kvRest"}),
         calls[c].op \in {"get", "iterate"} => \A k \in B \cap R : k \in yes \/ Dead(k),
         calls[c].op = "clear" => store = "dynamo" \/ B \cap R = {},
         Settle(c, Closed(calls[c], B, yes, took))
  PROVE  \E call : Settle(c, call) /\ CallOk(call, R)
<1>1. CallOk(Closed(calls[c], B, yes, took), R)
  BY FollowingMeans, ClosedOk
<1> QED BY <1>1

\* A row that had expired when it was read.
LEMMA SeenDeadMeans ==
  ASSUME NEW c, NEW R, Following(c, R)
  PROVE  \A k \in SeenDead(c) \cap R : Dead(k)
BY FollowingMeans DEF SeenDead, Held, CallOk, ReadOk, Dead

\* A step of a caller may leave the rows be, or delete one of those it is about.
LEMMA OneGone ==
  ASSUME NEW c, NEW R, Following(c, R), NEW k \in Rows, calls[c].at[k] # "unused",
         kv' = Without({k}) \/ kv' = kv
  PROVE  KvStep(c)
<1>1. {k} \in SUBSET Rows /\ (store \notin Wide => {k} \subseteq Keys)
  BY RowMeans
<1> QED BY <1>1 DEF KvStep

-----------------------------------------------------------------------------
(* KeyvCloudflareKV. *)

\* Rounded down, by less than a second.
LEMMA ExpirationTtlMeans ==
  ASSUME store \in {"kvBind", "kvRest"}, clock \in Nat, NEW e \in Moments \ {Never},
         NEW exp, exp = ExpirationTtl(e), exp # Never
  PROVE  exp \in Expiry /\ (IF exp.rel THEN clock + exp.n ELSE exp.n) + Slack >= e
<1>0. e \in Int /\ Slack = Second - 1 /\ Second \in Int /\ Second > 0
  BY RemoteAssumption DEF Moments, Slack
<1> PICK t \in Int : t = e - clock
  BY <1>0
<1> PICK q : q = t \div Second
  OBVIOUS
<1>1. q \in Int /\ t < q * Second + Second
  BY DivMeans
<1> PICK m : m = q * Second
  OBVIOUS
<1>2. m \in Int /\ clock + m + Slack >= e
  BY <1>0, <1>1
<1>3. exp = [rel |-> TRUE, n |-> m]
  BY DEF ExpirationTtl
<1> QED BY <1>2, <1>3 DEF Expiry

\* KeyvCloudflare's set() begins.
LEMMA CloudflareSetStarts ==
  ASSUME NEW c, NEW R, Following(c, R), store \in {"kvBind", "kvRest"},
         NEW K \in Batches[store], NEW e \in Deadlines, CloudflareSet(c, K, e)
  PROVE  Starting(c)
<1> PICK exp : exp = IF e = Never THEN Never ELSE ExpirationTtl(e)
  OBVIOUS
<1> PICK call : call = [Idle EXCEPT !.op = "set", !.e = e, !.exp = exp]
  OBVIOUS
<1>1. K \in SUBSET Keys /\ e \in Moments /\ clock \in Nat
  BY InputTypes, FollowingMeans DEF Following, RemoteInv
<1>2. Fresh(call) /\ call.op = "set"
  <2>1. /\ exp \in Expiry \cup {Never} /\ TRUE \in BOOLEAN
        /\ exp # Never => e # Never /\ (IF exp.rel THEN clock + exp.n ELSE exp.n) + Slack >= e
    <3>1. CASE exp = Never
      BY <3>1
    <3>2. CASE exp # Never
      <4>1. e \in Moments \ {Never} /\ exp = ExpirationTtl(e)
        BY <1>1, <3>2
      <4> QED BY <1>1, <3>2, <4>1, ExpirationTtlMeans
    <3> QED BY <3>1, <3>2
  <2> QED BY <1>1, <2>1, WriteFresh
<1>3. Begin(c, Posted(call, Singly(K), "sent"))
  BY DEF CloudflareSet
<1>4. Singly(K) \in SUBSET SUBSET Rows /\ Singly(K) \subseteq SUBSET Keys
  BY <1>1, KeyParts
<1> QED BY <1>2, <1>3, <1>4, WriteStarts

\* It deletes a row: for delete(), for clear(), or as a clean-up.
LEMMA CloudflarePurgeGoes ==
  ASSUME NEW c, NEW R, Following(c, R), store \in {"kvBind", "kvRest"},
         NEW k \in Rows, calls[c].at[k] = "purge", CloudflarePurge(c, k)
  PROVE  Going(c, R)
<1> PICK yes : yes = {j \in {k} : calls[c].op = "delete"}
  OBVIOUS
<1> PICK took : took = {j \in {k} \cap Present : calls[c].op \in {"delete", "clear"}}
  OBVIOUS
<1>1. yes \in SUBSET Rows /\ took \in SUBSET Rows /\ {} \in SUBSET Rows /\ {k} \in SUBSET Rows
      /\ (calls[c].op # "delete" => yes = {})
  OBVIOUS
<1>2. KvStep(c)
  <2>1. kv' = Without({k}) \/ kv' = kv
    BY DEF CloudflarePurge
  <2> QED BY <2>1, OneGone
<1>3. Asked(c, R, {k}, "purge")
  BY OneAsked
<1>4. ASSUME NEW some \in SUBSET Rows
      PROVE  CallOk(Threw(c, k, some), R)
  <2>1. CallOk(Broken(calls[c], {k}, some), R) /\ Broken(calls[c], {k}, some).failed
    BY <1>3, FollowingMeans, BrokenOk DEF Asked
  <2>2. CallOk(Abandoned(c, some), R)
    BY FollowingMeans, AbandonedOk
  <2>3. CallOk([Broken(calls[c], {k}, some) EXCEPT !.ahead = {}], R)
    BY <2>1, FollowingMeans, LeftOk
  <2> QED BY <2>1, <2>2, <2>3 DEF Threw
<1>5. CASE kv' = Without({k}) /\ Settle(c, Closed(calls[c], {k}, yes, took))
  <2>1. {k} \cap R = {}
    BY <1>1, <1>5, GoneMeans
  <2>2. \E call : Settle(c, call) /\ CallOk(call, R)
    BY <1>1, <1>3, <1>5, <2>1, ClosedGoes DEF Asked
  <2> QED BY <1>2, <2>2 DEF Going
<1>6. CASE Settle(c, Threw(c, k, took)) \/ Settle(c, Threw(c, k, {}))
  BY <1>1, <1>2, <1>4, <1>6 DEF Going
<1> QED BY <1>5, <1>6 DEF CloudflarePurge

\* It reads a row, or looks before it deletes one.
LEMMA CloudflareSentGoes ==
  ASSUME NEW c, NEW R, Following(c, R), store \in {"kvBind", "kvRest"}, NEW k \in Rows,
         calls[c].at[k] = "sent",
         CloudflareFetch(c, k) \/ CloudflareDelete(c, k) \/ CloudflareNextValue(c, k)
  PROVE  Going(c, R)
<1>0. store # "valkeySets" /\ store # "mongo" /\ calls[c].at[k] # "unused"
  OBVIOUS
<1>1. Asked(c, R, {k}, "sent")
  BY OneAsked
<1>2. CASE Refused(c, {k})
  BY <1>0, <1>1, <1>2, RefusedGoes
<1>3. CASE CloudflareFetch(c, k) /\ ~Refused(c, {k})
  <2>1. CASE FetchArrives(c, {k})
    BY <1>1, <1>3, <2>1, FetchGoes DEF CloudflareFetch
  <2>2. CASE k \in Present /\ Move(c, k, "meta")
    <3>1. "meta" \in Places \ {"unused", "done"} /\ Allowed(calls[c].op, "meta")
      BY <1>3 DEF Places, Allowed, CloudflareFetch
    <3> QED BY <1>0, <2>2, <3>1, MoveGoes
  <2>3. CASE k \in Present /\ Move(c, k, "held")
    <3>1. "held" \in Places \ {"unused", "done"} /\ Allowed(calls[c].op, "held")
      BY <1>3 DEF Places, Allowed, CloudflareFetch
    <3> QED BY <1>0, <2>3, <3>1, MoveGoes
  <2> QED BY <1>3, <2>1, <2>2, <2>3 DEF CloudflareFetch
<1>4. CASE CloudflareDelete(c, k) /\ ~Refused(c, {k})
  <2>1. CASE k \notin Present /\ FetchArrives(c, {k})
    <3>1. calls[c].op = "delete" /\ {k} \cap Present = {}
      BY <1>4, <2>1 DEF CloudflareDelete
    <3> QED BY <1>1, <2>1, <3>1, FetchGoes
  <2>2. CASE k \in Present /\ Move(c, k, "purge")
    <3>1. "purge" \in Places \ {"unused", "done"} /\ Allowed(calls[c].op, "purge")
          /\ calls[c].op \notin Cleaning
      BY <1>4 DEF Places, Allowed, CloudflareDelete, Cleaning
    <3> QED BY <1>0, <2>2, <3>1, MoveGoes
  <2> QED BY <1>4, <2>1, <2>2 DEF CloudflareDelete
<1>5. CASE CloudflareNextValue(c, k)
  BY <1>1, <1>5, FetchGoes, AbandonedGoes DEF CloudflareNextValue
<1> QED BY <1>2, <1>3, <1>4, <1>5

\* It asks for the row's deadline after its value.
LEMMA CloudflareMetaGoes ==
  ASSUME NEW c, NEW R, Following(c, R), store \in {"kvBind", "kvRest"}, NEW k \in Rows,
         calls[c].at[k] = "meta", CloudflareMeta(c, k)
  PROVE  Going(c, R)
<1>0. /\ store # "valkeySets" /\ store # "mongo" /\ calls[c].at[k] # "unused"
      /\ {} \in SUBSET Rows /\ {k} \in SUBSET Rows
  OBVIOUS
<1>1. calls[c].op \in {"get", "iterate"}
  BY FollowingMeans DEF CallOk, ShapeOk, Allowed
<1>2. Asked(c, R, {k}, "meta")
  BY OneAsked
<1>3. CASE Refused(c, {k})
  BY <1>0, <1>1, <1>2, <1>3, RefusedGoes
<1>4. CASE k \in Present /\ Move(c, k, "held")
  <2>1. "held" \in Places \ {"unused", "done"} /\ Allowed(calls[c].op, "held")
    BY <1>1 DEF Places, Allowed
  <2> QED BY <1>0, <1>4, <2>1, MoveGoes
<1>5. CASE Settle(c, Closed(calls[c], {k}, {k}, {})) /\ UNCHANGED <<store, clock, kv>>
  <2>1. \E call : Settle(c, call) /\ CallOk(call, R)
    BY <1>0, <1>1, <1>2, <1>5, ClosedGoes DEF Asked
  <2> QED BY <1>5, <2>1 DEF Going, KvStep
<1> QED BY <1>3, <1>4, <1>5 DEF CloudflareMeta

\* It compares the deadline with the time.
LEMMA CloudflareJudgeGoes ==
  ASSUME NEW c, NEW R, Following(c, R), store \in {"kvBind", "kvRest"}, NEW k \in Rows,
         calls[c].at[k] = "held", CloudflareJudge(c, k)
  PROVE  Going(c, R)
<1>0. /\ store # "valkeySets" /\ store # "mongo" /\ calls[c].at[k] # "unused"
      /\ {} \in SUBSET Rows /\ {k} \in SUBSET Rows
  OBVIOUS
<1>1. Asked(c, R, {k}, "held")
  BY OneAsked
<1>2. CASE k \in SeenDead(c) /\ Move(c, k, "purge")
  <2>1. "purge" \in Places \ {"unused", "done"} /\ Allowed(calls[c].op, "purge") /\ (k \in R => Dead(k))
    BY <1>0, <1>2, SeenDeadMeans DEF Places, Allowed
  <2> QED BY <1>0, <1>2, <2>1, MoveGoes
<1>3. CASE Move(c, k, "sent")
  <2>1. "sent" \in Places \ {"unused", "done"} /\ Allowed(calls[c].op, "sent")
    BY DEF Places, Allowed
  <2> QED BY <1>0, <1>3, <2>1, MoveGoes
<1>4. CASE calls[c].op = "get" /\ Settle(c, Closed(calls[c], {k}, {k}, {})) /\ UNCHANGED <<store, clock, kv>>
  <2>1. \E call : Settle(c, call) /\ CallOk(call, R)
    BY <1>0, <1>1, <1>4, ClosedGoes DEF Asked
  <2> QED BY <1>4, <2>1 DEF Going, KvStep
<1> QED BY <1>2, <1>3, <1>4 DEF CloudflareJudge

\* A page whose rows are taken one by one.
LEMMA SinglesPage ==
  ASSUME NEW c, NEW R, Following(c, R), NEW W \in Pages(c),
         NEW place \in {"queued", "sent", "held", "purge"},
         place = "held" => calls[c].op = "iterate",
         place = "purge" => calls[c].op = "clear" /\ store # "mongo",
         Settle(c, Posted([calls[c] EXCEPT !.ahead = @ \ W], Singly(W \cap Present \cap Keys), place)),
         kv' = kv
  PROVE  Moves(c, R)
<1>1. W \in (SUBSET calls[c].ahead) \ {{}} /\ Busy(c)
  BY BusyMeans DEF Pages
<1> PICK found : found = W \cap Present \cap Keys
  OBVIOUS
<1> PICK paged : paged = [calls[c] EXCEPT !.ahead = @ \ W]
  OBVIOUS
<1>2. Settle(c, Posted(paged, Singly(found), place))
  OBVIOUS
<1>3. found \in SUBSET Keys /\ found \subseteq Present
  OBVIOUS
<1>4. Singly(found) \in SUBSET SUBSET Rows /\ UNION Singly(found) = found
  BY <1>3, KeyParts
<1>5. Going(c, R)
  BY <1>1, <1>2, <1>3, <1>4, PageGoes
<1> QED BY <1>1, <1>5 DEF Moves

\* Every step of KeyvCloudflare is one of a call that begins or goes on.
LEMMA CloudflareGoes ==
  ASSUME NEW c, NEW R, Following(c, R), store \in {"kvBind", "kvRest"}, CloudflareNext(c)
  PROVE  Moves(c, R)
<1>0. store # "mongo" /\ store # "valkeySets" /\ CallOk(calls[c], R)
  BY FollowingMeans
<1>1. CASE \E K \in Batches[store], e \in Deadlines : CloudflareSet(c, K, e)
  BY <1>1, CloudflareSetStarts DEF Moves
<1>2. CASE \E K \in Asks[store], op \in {"get", "delete"} : CloudflareAsk(c, op, K)
  <2> PICK K \in Asks[store], op \in {"get", "delete"} : CloudflareAsk(c, op, K)
    BY <1>2
  <2>1. \E call : AskCall(call, op) /\ \E parts \in {Singly(K), Whole(K)} :
                                           Begin(c, Posted(call, parts, "sent"))
    BY DEF CloudflareAsk, AskCall
  <2> QED BY <2>1, KeysStart DEF Moves
<1>3. CASE \E B \in Requests(c, "sent") : CloudflareWrite(c, B)
  <2> PICK B \in Requests(c, "sent") : CloudflareWrite(c, B)
    BY <1>3
  <2>1. Asked(c, R, B, "sent") /\ Busy(c)
    BY RequestMeans, BusyMeans DEF Places
  <2> QED BY <2>1, WriteGoes, RefusedGoes DEF CloudflareWrite, Moves
<1>4. CASE \E k \in Pending(c) :
             \/ /\ calls[c].at[k] = "sent"
                /\ CloudflareFetch(c, k) \/ CloudflareDelete(c, k) \/ CloudflareNextValue(c, k)
             \/ calls[c].at[k] = "meta" /\ CloudflareMeta(c, k)
             \/ calls[c].at[k] = "held" /\ CloudflareJudge(c, k)
             \/ calls[c].at[k] = "purge" /\ CloudflarePurge(c, k)
  <2>1. Busy(c)
    BY <1>4, BusyMeans
  <2>2. Going(c, R)
    BY <1>4, CloudflareSentGoes, CloudflareMetaGoes, CloudflareJudgeGoes, CloudflarePurgeGoes DEF Pending
  <2> QED BY <2>1, <2>2 DEF Moves
<1>5. CASE \E op \in {"clear", "iterate"} : CloudflareScans(c, op)
  <2> PICK op \in {"clear", "iterate"} : CloudflareScans(c, op)
    BY <1>5
  <2> PICK call : call = [Idle EXCEPT !.op = op, !.ahead = Rows]
    OBVIOUS
  <2>1. Begin(c, call)
    BY DEF CloudflareScans
  <2> QED BY <2>1, ListingStarts DEF Moves, Lists
<1>6. CASE \E W \in Pages(c) : CloudflarePage(c, W)
  <2> PICK W \in Pages(c) : CloudflarePage(c, W)
    BY <1>6
  <2> PICK place : place = IF calls[c].op = "clear" THEN "purge" ELSE "held"
    OBVIOUS
  <2>1. calls[c].op \in {"clear", "iterate"}
    BY <1>0 DEF Pages, CallOk, ShapeOk, Lists
  <2>2. /\ place \in {"queued", "sent", "held", "purge"}
        /\ place = "held" => calls[c].op = "iterate"
        /\ place = "purge" => calls[c].op = "clear"
    BY <2>1
  <2>3. /\ Settle(c, Posted([calls[c] EXCEPT !.ahead = @ \ W], Singly(W \cap Present \cap Keys), place))
        /\ kv' = kv
    BY DEF CloudflarePage
  <2> QED BY <1>0, <2>2, <2>3, SinglesPage
<1>7. CASE CloudflareListFails(c)
  BY <1>7, AbandonedGoes, BusyMeans DEF CloudflareListFails, Moves
<1> QED BY <1>1, <1>2, <1>3, <1>4, <1>5, <1>6, <1>7 DEF CloudflareNext

-----------------------------------------------------------------------------
(* Calls whose rows part ways. *)

\* Only reads and iterators have rows at hand, and those are rows they may name.
LEMMA HeldMeans ==
  ASSUME NEW c, NEW R, Following(c, R)
  PROVE  /\ Held(c) \in SUBSET Rows /\ SeenDead(c) \in SUBSET Held(c)
         /\ store \notin Wide => Held(c) \subseteq Keys
         /\ Held(c) # {} => calls[c].op \in {"get", "iterate"}
<1>1. CallOk(calls[c], R)
  BY FollowingMeans
<1>2. ASSUME NEW k \in Held(c)
      PROVE  k \in Rows /\ calls[c].op \in {"get", "iterate"} /\ (store \notin Wide => k \in Keys)
  BY <1>1, <1>2 DEF Held, CallOk, SpaceOk, ShapeOk, Allowed
<1> QED BY <1>2 DEF SeenDead

\* The operation of a call stays as its rows move.
LEMMA PostedOp ==
  ASSUME KvOk, NEW call, NEW R, CallOk(call, R), NEW parts \in SUBSET SUBSET Rows,
         NEW place \in Places, place # "held"
  PROVE  Posted(call, parts, place).op = call.op
<1> PICK new : new = Posted(call, parts, place)
  OBVIOUS
<1>1. IsPosted(new, call, parts, place)
  BY PostedMeans DEF CallOk
<1> QED BY <1>1 DEF IsPosted, Same

\* Some rows are done with, some go on.
LEMMA PartedOk ==
  ASSUME NEW c, NEW R, Following(c, R), store # "valkeySets", NEW B \in SUBSET Rows,
         store \notin Wide => B \subseteq Keys,
         NEW yes \in SUBSET Rows, NEW took \in SUBSET Rows,
         calls[c].op \in {"set", "delete"} => yes \subseteq took,
         calls[c].op \in {"get", "iterate"} => \A k \in B \cap R : k \in yes \/ Dead(k),
         calls[c].op = "clear" => store = "dynamo" \/ B \cap R = {},
         NEW parts \in SUBSET SUBSET Rows,
         NEW place \in Places \ {"unused", "done"}, Allowed(calls[c].op, place),
         store \notin Wide => parts \subseteq SUBSET Keys,
         place = "held" => UNION parts \subseteq Present,
         calls[c].op \in Cleaning /\ place = "purge" => \A k \in R \cap UNION parts : Dead(k)
  PROVE  CallOk(Posted(Closed(calls[c], B, yes, took), parts, place), R)
<1>1. KvOk /\ R \in SUBSET Rows /\ CallOk(calls[c], R) /\ calls[c] \in CallType
  BY FollowingMeans
<1> PICK mid : mid = Closed(calls[c], B, yes, took)
  OBVIOUS
<1>2. CallOk(mid, R)
  BY <1>1, ClosedOk
<1>3. mid.op = calls[c].op
  <2>1. IsClosed(mid, calls[c], B, yes, took)
    BY <1>1, ClosedMeans
  <2> QED BY <2>1 DEF IsClosed, Same
<1>4. CallOk(Posted(mid, parts, place), R)
  BY <1>1, <1>2, <1>3, PostedOk
<1> QED BY <1>4

\* A call begins with rows in two places.
LEMMA StartsTwice ==
  ASSUME NEW c, NEW R, Following(c, R), NEW call, Fresh(call), call.op # "clear",
         store # "valkeySets",
         NEW parts \in SUBSET SUBSET Rows, NEW place \in {"queued", "late", "sent"},
         Allowed(call.op, place), store \notin Wide => parts \subseteq SUBSET Keys,
         NEW more \in SUBSET SUBSET Rows, NEW next \in {"queued", "late", "sent"},
         Allowed(call.op, next), store \notin Wide => more \subseteq SUBSET Keys,
         Begin(c, Posted(Posted(call, parts, place), more, next))
  PROVE  Starting(c)
<1> PICK mid : mid = Posted(call, parts, place)
  OBVIOUS
<1>1. KvOk /\ clock \in Nat /\ Present \in SUBSET Rows
  BY FollowingMeans DEF Present
<1>2. CallOk(mid, Present)
  BY <1>1, StartedOk
<1>3. mid.op = call.op
  <2>1. place \in Places /\ place # "held" /\ call \in CallType
    BY DEF Places, Fresh
  <2>2. IsPosted(mid, call, parts, place)
    BY <1>1, <2>1, PostedMeans
  <2> QED BY <2>2 DEF IsPosted, Same
<1>4. next \in Places \ {"unused", "done"} /\ next # "held" /\ next # "purge" /\ Allowed(mid.op, next)
  BY <1>3 DEF Places
<1>5. CallOk(Posted(mid, more, next), Present)
  BY <1>1, <1>2, <1>4, PostedOk
<1> QED BY <1>5 DEF Starting

-----------------------------------------------------------------------------
(* KeyvDynamo. *)

\* A chunk of rows is made of rows.
LEMMA ChunkMeans ==
  ASSUME NEW K \in SUBSET Rows, store \notin Wide => K \subseteq Keys
  PROVE  /\ Whole(Chunk(K)) \in SUBSET SUBSET Rows
         /\ store \notin Wide => Whole(Chunk(K)) \subseteq SUBSET Keys
<1>1. Chunk(K) \in SUBSET K
  BY DEF Chunk
<1> QED BY <1>1, PartsMeans

\* Every write has a deadline, and what is told is no earlier.
DynamoCall(ms) == [Idle EXCEPT !.op = "set", !.e = ms, !.exp = [rel |-> FALSE, n |-> ExpiresAt(ms)]]

\* The second a row is to be dropped at is not before its deadline.
LEMMA ExpiresAtMeans ==
  ASSUME NEW ms \in Int
  PROVE  ExpiresAt(ms) \in Int /\ ExpiresAt(ms) + Slack >= ms
<1>1. Second \in Int /\ ExpiresAt(ms) = Second * Seconds(ms)
  BY RemoteAssumption DEF ExpiresAt, Seconds
<1>2. Seconds(ms) \in Int /\ Seconds(ms) * Second \in Int /\ Seconds(ms) * Second >= ms
  BY SecondsMeans
<1>3. Second * Seconds(ms) = Seconds(ms) * Second
  BY <1>1, <1>2
<1>4. Slack \in Nat
  BY RemoteAssumption DEF Slack
<1> QED BY <1>1, <1>2, <1>3, <1>4

\* A write of KeyvDynamo before its rows go off.
LEMMA DynamoFresh ==
  ASSUME clock \in Nat, NEW ms \in Int
  PROVE  Fresh(DynamoCall(ms)) /\ DynamoCall(ms).op = "set"
<1> PICK at : at = ExpiresAt(ms)
  OBVIOUS
<1> PICK exp : exp = [rel |-> FALSE, n |-> at]
  OBVIOUS
<1> PICK call : call = [Idle EXCEPT !.op = "set", !.e = ms, !.exp = exp]
  OBVIOUS
<1>1. at \in Int /\ at + Slack >= ms
  BY ExpiresAtMeans
<1>2. exp \in Expiry \cup {Never} /\ ~exp.rel /\ exp.n = at
  BY <1>1 DEF Expiry
<1>3. ms \in Moments /\ ms # Never
  BY RemoteAssumption DEF Moments
<1>4. /\ call \in CallType /\ call.op = "set" /\ call.e = ms /\ call.exp = exp
      /\ call.at = Idle.at /\ call.batch = Idle.batch /\ call.ok = {} /\ call.took = {}
      /\ call.failed = FALSE /\ call.asks = FALSE /\ call.ahead = {} /\ call.now = 0
  BY <1>2, <1>3, IdleMeans DEF CallType, Ops
<1>5. Fresh(call) /\ call.op = "set"
  BY <1>1, <1>2, <1>3, <1>4 DEF Fresh, DeadlineOk
<1> QED BY <1>5 DEF DynamoCall

\* KeyvDynamo's set() begins with its first chunk.
LEMMA DynamoSetStarts ==
  ASSUME NEW c, NEW R, Following(c, R), store = "dynamo",
         NEW K \in Batches[store], NEW e \in Deadlines, DynamoSet(c, K, e)
  PROVE  Starting(c)
<1>1. K \in SUBSET Keys /\ K \in SUBSET Rows /\ e \in Moments /\ clock \in Nat
  BY InputTypes, FollowingMeans DEF Following, RemoteInv
<1>2. \E ms \in Int : Begin(c, Posted(Posted(DynamoCall(ms), Singly(K), "queued"), Whole(Chunk(K)), "sent"))
  <2> PICK ms : ms = IF e = Never THEN clock + SixHours ELSE e
    OBVIOUS
  <2>1. ms \in Int
    BY <1>1, DynamoAssumption DEF Moments
  <2>2. Begin(c, Posted(Posted(DynamoCall(ms), Singly(K), "queued"), Whole(Chunk(K)), "sent"))
    BY DEF DynamoSet, NextChunk, DynamoCall
  <2> QED BY <2>1, <2>2
<1>3. PICK ms \in Int : Begin(c, Posted(Posted(DynamoCall(ms), Singly(K), "queued"), Whole(Chunk(K)), "sent"))
  BY <1>2
<1>4. Fresh(DynamoCall(ms)) /\ DynamoCall(ms).op = "set"
  BY <1>1, DynamoFresh
<1>5. Singly(K) \in SUBSET SUBSET Rows /\ Singly(K) \subseteq SUBSET Keys
  BY <1>1, KeyParts
<1>6. Whole(Chunk(K)) \in SUBSET SUBSET Rows /\ (store \notin Wide => Whole(Chunk(K)) \subseteq SUBSET Keys)
  BY <1>1, ChunkMeans
<1>7. Allowed(DynamoCall(ms).op, "queued") /\ Allowed(DynamoCall(ms).op, "sent")
  BY DEF Allowed
<1> QED BY <1>3, <1>4, <1>5, <1>6, <1>7, StartsTwice

\* A chunk is written, in part or in full, and the next goes off; or the loop ends.
LEMMA DynamoWriteGoes ==
  ASSUME NEW c, NEW R, Following(c, R), store = "dynamo", NEW B, Asked(c, R, B, "sent"),
         DynamoWrite(c, B) \/ DynamoWriteFails(c, B)
  PROVE  Going(c, R)
<1>0. /\ calls[c].op = "set" /\ B \in SUBSET Rows /\ (store \notin Wide => B \subseteq Keys)
      /\ CallOk(calls[c], R) /\ c \in Callers /\ R \in SUBSET Rows
  BY FollowingMeans DEF DynamoWrite, DynamoWriteFails, Asked
<1>1. CASE DynamoWrite(c, B)
  <2>1. PICK stored \in SUBSET B :
          /\ kv' = Written(stored, calls[c].e, calls[c].exp)
          /\ Settle(c, Posted(Closed(calls[c], B, stored, stored), Whole(Chunk(Queued(c))), "sent"))
    <3>1. PICK unprocessed \in SUBSET B :
            /\ kv' = Written(B \ unprocessed, calls[c].e, calls[c].exp)
            /\ Settle(c, NextChunk(Closed(calls[c], B, B \ unprocessed, B \ unprocessed), Queued(c)))
      BY <1>1 DEF DynamoWrite
    <3> QED BY <3>1 DEF NextChunk
  <2>2. Queued(c) \in SUBSET Rows /\ (store \notin Wide => Queued(c) \subseteq Keys)
    BY <1>0 DEF Queued, CallOk, SpaceOk
  <2>3. /\ Whole(Chunk(Queued(c))) \in SUBSET SUBSET Rows
        /\ store \notin Wide => Whole(Chunk(Queued(c))) \subseteq SUBSET Keys
    BY <2>2, ChunkMeans
  <2>4. "sent" \in Places \ {"unused", "done"} /\ Allowed(calls[c].op, "sent") /\ stored \in SUBSET Rows
    BY <1>0 DEF Places, Allowed
  <2>5. CallOk(Posted(Closed(calls[c], B, stored, stored), Whole(Chunk(Queued(c))), "sent"), R)
    <3> PICK parts : parts = Whole(Chunk(Queued(c)))
      OBVIOUS
    <3>1. parts \in SUBSET SUBSET Rows /\ (store \notin Wide => parts \subseteq SUBSET Keys)
      BY <2>3
    <3>2. /\ calls[c].op \notin {"get", "iterate"} /\ calls[c].op # "clear" /\ calls[c].op \notin Cleaning
          /\ store # "valkeySets"
      BY <1>0 DEF Cleaning
    <3>3. CallOk(Posted(Closed(calls[c], B, stored, stored), parts, "sent"), R)
      BY <1>0, <2>4, <3>1, <3>2, PartedOk
    <3> QED BY <3>3
  <2>6. KvStep(c)
    BY <1>0, <2>1 DEF KvStep
  <2> QED BY <2>1, <2>5, <2>6 DEF Going
<1>2. CASE DynamoWriteFails(c, B)
  <2>1. PICK stored \in SUBSET B :
          kv' = Written(stored, calls[c].e, calls[c].exp) /\ Settle(c, Abandoned(c, stored))
    BY <1>2 DEF DynamoWriteFails
  <2>2. CallOk(Abandoned(c, stored), R)
    BY <1>0, AbandonedOk
  <2> QED BY <1>0, <2>1, <2>2 DEF Going, KvStep
<1> QED BY <1>1, <1>2

\* Rows are read; those the server did not get to are asked for again.
LEMMA DynamoFetchGoes ==
  ASSUME NEW c, NEW R, Following(c, R), store = "dynamo", NEW B, Asked(c, R, B, "sent"),
         DynamoFetch(c, B)
  PROVE  Going(c, R)
<1>0. /\ calls[c].op = "get" /\ B \in SUBSET Rows /\ B \subseteq Keys
      /\ CallOk(calls[c], R) /\ R \in SUBSET Present /\ R \in SUBSET Rows /\ KvOk
  BY FollowingMeans DEF DynamoFetch, Asked, Wide
<1>1. PICK processed \in SUBSET B :
        Settle(c, Posted(Posted(Closed(calls[c], processed \ (processed \cap Present), {}, {}),
                                Whole(B \ processed), "sent"),
                         Singly(processed \cap Present), "held"))
  BY DEF DynamoFetch
<1> PICK found : found = processed \cap Present
  OBVIOUS
<1> PICK gone : gone = processed \ found
  OBVIOUS
<1> PICK rest : rest = Posted(Closed(calls[c], gone, {}, {}), Whole(B \ processed), "sent")
  OBVIOUS
<1>2. /\ gone \in SUBSET Rows /\ gone \subseteq Keys /\ gone \cap R = {} /\ {} \in SUBSET Rows
      /\ B \ processed \in SUBSET Keys
  BY <1>0
<1>3. Whole(B \ processed) \in SUBSET SUBSET Rows /\ Whole(B \ processed) \subseteq SUBSET Keys
  BY <1>2, KeyParts
<1>4. "sent" \in Places \ {"unused", "done"} /\ Allowed(calls[c].op, "sent")
  BY DEF Places, Allowed
<1>5. CallOk(rest, R)
  BY <1>0, <1>2, <1>3, <1>4, PartedOk
<1>6. rest.op = "get"
  <2> PICK mid : mid = Closed(calls[c], gone, {}, {})
    OBVIOUS
  <2>1. IsClosed(mid, calls[c], gone, {}, {}) /\ CallOk(mid, R)
    BY <1>0, <1>2, ClosedMeans, ClosedOk DEF CallOk
  <2>2. rest.op = mid.op
    BY <1>0, <1>3, <1>4, <2>1, PostedOp
  <2> QED BY <1>0, <2>1, <2>2 DEF IsClosed, Same
<1>7. Singly(found) \in SUBSET SUBSET Rows /\ Singly(found) \subseteq SUBSET Keys /\ UNION Singly(found) = found
  <2>1. found \in SUBSET Keys
    BY <1>0
  <2> QED BY <2>1, KeyParts
<1>8. "held" \in Places \ {"unused", "done"} /\ Allowed(rest.op, "held") /\ found \subseteq Present
  BY <1>6 DEF Places, Allowed
<1>9. CallOk(Posted(rest, Singly(found), "held"), R)
  BY <1>0, <1>5, <1>7, <1>8, PostedOk
<1>10. kv' = kv
  BY DEF DynamoFetch
<1> QED BY <1>1, <1>9, <1>10 DEF Going, KvStep

\* The rows at hand are answered, or found expired.
LEMMA JudgedOk ==
  ASSUME NEW c, NEW R, Following(c, R), store # "valkeySets", Held(c) # {},
         NEW dead \in SUBSET Held(c), \A k \in dead \cap R : Dead(k),
         NEW parts, parts = Singly(dead) \/ parts = Whole(dead)
  PROVE  CallOk(Posted(Closed(calls[c], Held(c) \ dead, Held(c) \ dead, {}), parts, "purge"), R)
<1> PICK live : live = Held(c) \ dead
  OBVIOUS
<1>1. /\ calls[c].op \in {"get", "iterate"}
      /\ live \in SUBSET Rows /\ {} \in SUBSET Rows /\ dead \in SUBSET Rows
      /\ store \notin Wide => live \subseteq Keys /\ dead \subseteq Keys
  BY HeldMeans
<1>2. parts \in SUBSET SUBSET Rows /\ UNION parts = dead /\ (store \notin Wide => parts \subseteq SUBSET Keys)
  BY <1>1, PartsMeans
<1>3. "purge" \in Places \ {"unused", "done"} /\ Allowed(calls[c].op, "purge")
  BY <1>1 DEF Places, Allowed
<1> QED BY <1>1, <1>2, <1>3, PartedOk

\* Expired rows go to where they are deleted; the others are answered.
LEMMA DynamoJudgeGoes ==
  ASSUME NEW c, NEW R, Following(c, R), store = "dynamo", DynamoJudge(c)
  PROVE  Going(c, R)
<1> PICK dead : dead = SeenDead(c)
  OBVIOUS
<1>1. dead \in SUBSET Held(c) /\ \A k \in dead \cap R : Dead(k)
  BY HeldMeans, SeenDeadMeans
<1>2. CallOk(Posted(Closed(calls[c], Held(c) \ dead, Held(c) \ dead, {}), Singly(dead), "purge"), R)
  BY <1>1, JudgedOk DEF DynamoJudge
<1> QED BY <1>2 DEF DynamoJudge, Going, KvStep

\* Expired rows are deleted, and whether that works nobody asks.
LEMMA DynamoPurgeGoes ==
  ASSUME NEW c, NEW R, Following(c, R), store = "dynamo", NEW B, Asked(c, R, B, "purge"),
         DynamoPurge(c, B)
  PROVE  Going(c, R)
<1>1. /\ B \in SUBSET Rows /\ {} \in SUBSET Rows /\ (store \notin Wide => B \subseteq Keys)
      /\ calls[c].op \in {"get", "iterate"} => \A k \in B \cap R : Dead(k)
  BY DEF Asked, Cleaning
<1>2. \E call : Settle(c, call) /\ CallOk(call, R)
  BY <1>1, ClosedGoes DEF DynamoPurge
<1>3. KvStep(c)
  BY <1>1 DEF DynamoPurge, KvStep
<1> QED BY <1>2, <1>3 DEF Going

\* clear() sends for the first page, and for no other.
LEMMA DynamoClearsGoes ==
  ASSUME NEW c, NEW R, Following(c, R), store = "dynamo", NEW W, DynamoClears(c, W)
  PROVE  Going(c, R)
<1> PICK call : call = calls[c]
  OBVIOUS
<1> PICK found : found = W \cap Present \cap Keys
  OBVIOUS
<1>0. KvOk /\ R \in SUBSET Rows /\ CallOk(call, R) /\ call.op = "clear"
  BY FollowingMeans DEF DynamoClears
<1> PICK parts : parts = Singly(found)
  OBVIOUS
<1>1. parts \in SUBSET SUBSET Rows /\ parts \subseteq SUBSET Keys
  <2>1. found \in SUBSET Keys
    OBVIOUS
  <2> QED BY <2>1, KeyParts
<1>2. Settle(c, Posted(Advanced(call, {}), parts, "sent")) /\ kv' = kv
  BY DEF DynamoClears, Advanced
<1>3. CallOk(Posted(Advanced(call, {}), parts, "sent"), R)
  <2>1. /\ "sent" \in Places \ {"unused", "done"} /\ "sent" # "held" /\ "sent" # "purge"
        /\ Allowed(call.op, "sent") /\ {} \in SUBSET call.ahead
    BY DEF Places, Allowed
  <2>2. \A k \in R \cap Keys : k \in call.ahead \ {} =>
          k \in UNION parts \/ (call.op = "clear" /\ (store = "dynamo" \/ Unlisted(k)))
    BY <1>0
  <2>3. ~(store = "valkeySets" /\ call.op = "set") /\ (store \notin Wide => parts \subseteq SUBSET Keys)
    BY <1>1
  <2> QED BY <1>0, <1>1, <2>1, <2>2, <2>3, PagedOk
<1> QED BY <1>2, <1>3 DEF Going, KvStep

\* Every step of KeyvDynamo is one of a call that begins or goes on.
LEMMA DynamoGoes ==
  ASSUME NEW c, NEW R, Following(c, R), store = "dynamo", DynamoNext(c)
  PROVE  Moves(c, R)
<1>1. CASE \E K \in Batches[store], e \in Deadlines : DynamoSet(c, K, e)
  BY <1>1, DynamoSetStarts DEF Moves
<1>2. CASE \E K \in Asks[store], op \in {"get", "delete"} : DynamoAsk(c, op, K)
  <2> PICK K \in Asks[store], op \in {"get", "delete"} : DynamoAsk(c, op, K)
    BY <1>2
  <2>1. \E call : AskCall(call, op) /\ \E parts \in {Singly(K), Whole(K)} :
                                           Begin(c, Posted(call, parts, "sent"))
    BY DEF DynamoAsk, AskCall
  <2> QED BY <2>1, KeysStart DEF Moves
<1>3. CASE \E op \in {"clear", "iterate"} : DynamoScans(c, op)
  <2> PICK op \in {"clear", "iterate"} : DynamoScans(c, op)
    BY <1>3
  <2> PICK call : call = [Idle EXCEPT !.op = op, !.ahead = Rows]
    OBVIOUS
  <2>1. Begin(c, call)
    BY DEF DynamoScans
  <2> QED BY <2>1, ListingStarts DEF Moves, Lists
<1>4. CASE \E B \in Requests(c, "sent") :
             DynamoWrite(c, B) \/ DynamoWriteFails(c, B) \/ DynamoFetch(c, B) \/ DynamoRemove(c, B)
  <2> PICK B \in Requests(c, "sent") :
             DynamoWrite(c, B) \/ DynamoWriteFails(c, B) \/ DynamoFetch(c, B) \/ DynamoRemove(c, B)
    BY <1>4
  <2>1. Asked(c, R, B, "sent") /\ Busy(c)
    BY RequestMeans, BusyMeans DEF Places
  <2>2. CASE DynamoRemove(c, B)
    BY <2>1, <2>2, RemoveGoes, RefusedGoes DEF DynamoRemove, Moves
  <2> QED BY <2>1, <2>2, DynamoWriteGoes, DynamoFetchGoes DEF Moves
<1>5. CASE \E B \in Requests(c, "purge") : DynamoPurge(c, B)
  <2> PICK B \in Requests(c, "purge") : DynamoPurge(c, B)
    BY <1>5
  <2>1. Asked(c, R, B, "purge") /\ Busy(c)
    BY RequestMeans, BusyMeans DEF Places
  <2> QED BY <2>1, DynamoPurgeGoes DEF Moves
<1>6. CASE \E W \in Pages(c) : DynamoClears(c, W) \/ DynamoPage(c, W)
  <2> PICK W \in Pages(c) : DynamoClears(c, W) \/ DynamoPage(c, W)
    BY <1>6
  <2>1. CASE DynamoClears(c, W)
    BY <2>1, DynamoClearsGoes, BusyMeans DEF Moves
  <2>2. CASE DynamoPage(c, W)
    BY <2>2, SinglesPage DEF DynamoPage
  <2> QED BY <2>1, <2>2
<1>7. CASE DynamoJudge(c)
  BY <1>7, DynamoJudgeGoes, BusyMeans DEF DynamoJudge, Moves
<1>8. CASE DynamoReadFails(c)
  <2>1. Busy(c)
    BY <1>8, BusyMeans DEF DynamoReadFails, Places
  <2> QED BY <1>8, <2>1, AbandonedGoes DEF DynamoReadFails, Moves
<1>9. CASE DynamoClearFails(c)
  BY <1>9, AbandonedGoes, BusyMeans DEF DynamoClearFails, Moves
<1> QED BY <1>1, <1>2, <1>3, <1>4, <1>5, <1>6, <1>7, <1>8, <1>9 DEF DynamoNext

-----------------------------------------------------------------------------
(* KeyvMongo, without GridFS. *)

\* Rows that a query leaves out because they have expired.
LEMMA LiveMeans ==
  ASSUME NEW c, NEW R, Following(c, R), NEW B,
         NEW live, live = {k \in B \cap Present : kv[k].e = Never \/ kv[k].e > calls[c].now}
  PROVE  \A k \in B \cap R : k \in live \/ Dead(k)
<1> SUFFICES ASSUME NEW k \in B \cap R, k \notin live PROVE Dead(k)
  OBVIOUS
<1>1. k \in Present /\ KvOk /\ clock \in Nat /\ CallOk(calls[c], R)
  BY FollowingMeans
<1>2. kv[k] \in Row
  BY <1>1 DEF KvOk, Present
<1>3. kv[k].e # Never /\ ~(kv[k].e > calls[c].now)
  BY <1>1
<1>4. kv[k].e \in Int /\ calls[c].now \in Int /\ calls[c].now <= clock
  BY <1>1, <1>2, <1>3 DEF Row, Moments, CallOk, CallType, ShapeOk
<1> QED BY <1>1, <1>3, <1>4 DEF Dead

\* A row found expired by an earlier time has expired.
LEMMA SeenMeans ==
  ASSUME NEW c, NEW R, Following(c, R), NEW time \in {clock, calls[c].now},
         NEW k \in Held(c) \cap R, calls[c].seen[k] # Never, calls[c].seen[k] <= time
  PROVE  Dead(k)
<1>1. KvOk /\ clock \in Nat /\ CallOk(calls[c], R) /\ k \in Present
  BY FollowingMeans
<1>2. kv[k] \in Row
  BY <1>1 DEF KvOk, Present
<1>3. calls[c].seen[k] = kv[k].e
  BY <1>1 DEF CallOk, ReadOk, Held
<1>4. kv[k].e \in Int
  BY <1>2, <1>3 DEF Row, Moments
<1>5. calls[c].now \in Int /\ calls[c].now <= clock
  BY <1>1 DEF CallOk, CallType, ShapeOk
<1> QED BY <1>1, <1>3, <1>4, <1>5 DEF Dead

\* The server counts what has not expired.
LEMMA CountGoes ==
  ASSUME NEW c, NEW R, Following(c, R), store # "valkeySets", NEW B, Asked(c, R, B, "sent"),
         calls[c].op = "get",
         NEW live, live = {k \in B \cap Present : kv[k].e = Never \/ kv[k].e > calls[c].now},
         kv' = kv, Settle(c, Closed(calls[c], B, live, {}))
  PROVE  Going(c, R)
<1>1. \A k \in B \cap R : k \in live \/ Dead(k)
  BY LiveMeans
<1>2. /\ B \in SUBSET Rows /\ live \in SUBSET Rows /\ {} \in SUBSET Rows
      /\ store \notin Wide => B \subseteq Keys
  BY DEF Asked
<1>3. \E call : Settle(c, call) /\ CallOk(call, R)
  BY <1>1, <1>2, ClosedGoes
<1> QED BY <1>3 DEF Going, KvStep

\* KeyvMongo's set() begins.
LEMMA MongoSetStarts ==
  ASSUME NEW c, NEW R, Following(c, R), store = "mongo",
         NEW K \in Batches[store], NEW e \in Deadlines, MongoSet(c, K, e)
  PROVE  Starting(c)
<1> PICK exp : exp = Date(e)
  OBVIOUS
<1> PICK call : call = [Idle EXCEPT !.op = "set", !.e = e, !.exp = exp]
  OBVIOUS
<1>1. K \in SUBSET Keys /\ e \in Moments /\ clock \in Nat
  BY InputTypes, FollowingMeans DEF Following, RemoteInv
<1>2. Fresh(call) /\ call.op = "set"
  <2>1. /\ exp \in Expiry \cup {Never} /\ TRUE \in BOOLEAN
        /\ exp # Never => e # Never /\ (IF exp.rel THEN clock + exp.n ELSE exp.n) + Slack >= e
    BY <1>1, DateMeans
  <2> QED BY <1>1, <2>1, WriteFresh
<1>3. Begin(c, Posted(call, Whole(K), "sent"))
  BY DEF MongoSet, Date
<1>4. Whole(K) \in SUBSET SUBSET Rows /\ Whole(K) \subseteq SUBSET Keys
  BY <1>1, KeyParts
<1> QED BY <1>2, <1>3, <1>4, WriteStarts

\* A bulk write, which may stop half way.
LEMMA MongoWriteGoes ==
  ASSUME NEW c, NEW R, Following(c, R), store = "mongo", NEW B, Asked(c, R, B, "sent"),
         MongoWrite(c, B)
  PROVE  Going(c, R)
<1>0. /\ calls[c].op = "set" /\ B \in SUBSET Rows /\ (store \notin Wide => B \subseteq Keys)
      /\ CallOk(calls[c], R) /\ c \in Callers /\ R \in SUBSET Rows
  BY FollowingMeans DEF MongoWrite, Asked
<1>1. PICK stored \in SUBSET B :
        /\ kv' = Written(stored, calls[c].e, calls[c].exp)
        /\ \/ Settle(c, Closed(calls[c], B, stored, stored))
           \/ Settle(c, Abandoned(c, stored))
  BY DEF MongoWrite
<1>2. stored \in SUBSET Rows /\ (store \notin Wide => stored \subseteq Keys)
  BY <1>0
<1>3. KvStep(c)
  BY <1>0, <1>1, <1>2 DEF KvStep
<1>4. CallOk(Abandoned(c, stored), R)
  BY <1>0, <1>2, AbandonedOk
<1>5. CASE Settle(c, Closed(calls[c], B, stored, stored))
  <2>1. \E call : Settle(c, call) /\ CallOk(call, R)
    BY <1>0, <1>2, <1>5, ClosedGoes
  <2> QED BY <1>3, <2>1 DEF Going
<1> QED BY <1>1, <1>3, <1>4, <1>5 DEF Going

\* The rows that were found are at hand, the others are not there.
LEMMA FoundOk ==
  ASSUME NEW c, NEW R, Following(c, R), store # "valkeySets", calls[c].op = "get",
         NEW B, Asked(c, R, B, "sent")
  PROVE  CallOk(Posted(Closed(calls[c], B \ Present, {}, {}), Singly(B \cap Present), "held"), R)
<1> PICK gone : gone = B \ Present
  OBVIOUS
<1> PICK found : found = B \cap Present
  OBVIOUS
<1>1. /\ gone \in SUBSET Rows /\ found \in SUBSET Rows /\ gone \cap R = {} /\ {} \in SUBSET Rows
      /\ store \notin Wide => gone \subseteq Keys /\ found \subseteq Keys
  BY FollowingMeans DEF Asked
<1>2. /\ Singly(found) \in SUBSET SUBSET Rows /\ UNION Singly(found) = found
      /\ store \notin Wide => Singly(found) \subseteq SUBSET Keys
  BY <1>1, PartsMeans
<1>3. "held" \in Places \ {"unused", "done"} /\ Allowed(calls[c].op, "held") /\ UNION Singly(found) \subseteq Present
  BY <1>2 DEF Places, Allowed
<1> QED BY <1>1, <1>2, <1>3, PartedOk

\* Expired documents go to where they are deleted; the others are answered.
LEMMA MongoJudgeGoes ==
  ASSUME NEW c, NEW R, Following(c, R), store = "mongo", MongoJudge(c)
  PROVE  Going(c, R)
<1> PICK dead : dead = {k \in Held(c) : calls[c].seen[k] # Never /\ calls[c].seen[k] <= SinceThen(c)}
  OBVIOUS
<1>1. SinceThen(c) \in {clock, calls[c].now}
  BY DEF SinceThen
<1>2. dead \in SUBSET Held(c)
  OBVIOUS
<1>3. ASSUME NEW k \in dead \cap R PROVE Dead(k)
  <2>1. k \in Held(c) \cap R /\ calls[c].seen[k] # Never /\ calls[c].seen[k] <= SinceThen(c)
    OBVIOUS
  <2> QED BY <1>1, <2>1, SeenMeans
<1>4. CallOk(Posted(Closed(calls[c], Held(c) \ dead, Held(c) \ dead, {}), Singly(dead), "purge"), R)
  BY <1>2, <1>3, JudgedOk DEF MongoJudge
<1>5. CallOk(Posted(Closed(calls[c], Held(c) \ dead, Held(c) \ dead, {}), Whole(dead), "purge"), R)
  BY <1>2, <1>3, JudgedOk DEF MongoJudge
<1>6. /\ kv' = kv
      /\ Settle(c, Posted(Closed(calls[c], Held(c) \ dead, Held(c) \ dead, {}),
                          IF calls[c].op = "iterate" THEN Singly(dead) ELSE Whole(dead), "purge"))
  BY DEF MongoJudge
<1> QED BY <1>4, <1>5, <1>6 DEF Going, KvStep

\* Documents are deleted by their _id: one written anew stays.
LEMMA MongoPurgeGoes ==
  ASSUME NEW c, NEW R, Following(c, R), store = "mongo", NEW B, Asked(c, R, B, "purge"),
         MongoPurge(c, B)
  PROVE  Going(c, R)
<1>1. /\ B \in SUBSET Rows /\ {} \in SUBSET Rows /\ (store \notin Wide => B \subseteq Keys)
      /\ calls[c].op \in {"get", "iterate"} /\ \A k \in B \cap R : Dead(k)
  BY DEF Asked, Cleaning
<1>2. KvStep(c)
  <2> PICK same : same = {k \in B : id[k] = read[c][k]}
    OBVIOUS
  <2>1. same \in SUBSET Rows /\ (store \notin Wide => same \subseteq Keys)
    BY <1>1
  <2> QED BY <2>1 DEF MongoPurge, KvStep
<1>3. CallOk(Abandoned(c, {}), R)
  BY <1>1, FollowingMeans, AbandonedOk
<1>4. CASE Settle(c, Closed(calls[c], B, {}, {}))
  <2>1. \E call : Settle(c, call) /\ CallOk(call, R)
    BY <1>1, <1>4, ClosedGoes
  <2> QED BY <1>2, <2>1 DEF Going
<1> QED BY <1>2, <1>3, <1>4 DEF MongoPurge, Going

\* Every step of KeyvMongo is one of a call that begins or goes on.
LEMMA MongoGoes ==
  ASSUME NEW c, NEW R, Following(c, R), store = "mongo", MongoNext(c)
  PROVE  Moves(c, R)
<1>1. CASE \E K \in Batches[store], e \in Deadlines : MongoSet(c, K, e)
  BY <1>1, MongoSetStarts DEF Moves
<1>2. CASE \E K \in Asks[store], op \in {"get", "delete"} : MongoAsk(c, op, K)
  <2> PICK K \in Asks[store], op \in {"get", "delete"} : MongoAsk(c, op, K)
    BY <1>2
  <2>1. \E call : AskCall(call, op) /\ \E parts \in {Singly(K), Whole(K)} :
                                           Begin(c, Posted(call, parts, "sent"))
    BY DEF MongoAsk, AskCall
  <2> QED BY <2>1, KeysStart DEF Moves
<1>3. CASE MongoClear(c)
  <2>1. \E call : AskCall(call, "clear") /\ Begin(c, Posted(call, Whole(Keys), "sent"))
    BY <1>3 DEF MongoClear, AskCall
  <2> QED BY <2>1, ClearStarts DEF Moves
<1>4. CASE MongoIterate(c)
  <2> PICK call : call = [Idle EXCEPT !.op = "iterate", !.now = clock, !.ahead = Rows]
    OBVIOUS
  <2>1. Begin(c, call)
    BY <1>4 DEF MongoIterate
  <2> QED BY <2>1, ListingStarts DEF Moves, Lists
<1>5. CASE \E B \in Requests(c, "sent") :
             MongoWrite(c, B) \/ MongoFetch(c, B) \/ MongoCount(c, B) \/ MongoRemove(c, B)
  <2> PICK B \in Requests(c, "sent") :
             MongoWrite(c, B) \/ MongoFetch(c, B) \/ MongoCount(c, B) \/ MongoRemove(c, B)
    BY <1>5
  <2>1. Asked(c, R, B, "sent") /\ Busy(c)
    BY RequestMeans, BusyMeans DEF Places
  <2>2. CASE MongoRemove(c, B)
    BY <2>1, <2>2, RemoveGoes, RefusedGoes DEF MongoRemove, Moves
  <2>3. CASE MongoFetch(c, B)
    BY <2>1, <2>3, FoundOk DEF MongoFetch, Moves, Going, KvStep
  <2>4. CASE MongoCount(c, B)
    <3> PICK live : live = {k \in B \cap Present : kv[k].e = Never \/ kv[k].e > calls[c].now}
      OBVIOUS
    <3>1. calls[c].op = "get" /\ kv' = kv /\ Settle(c, Closed(calls[c], B, live, {}))
      BY <2>4 DEF MongoCount
    <3> QED BY <2>1, <3>1, CountGoes DEF Moves
  <2> QED BY <2>1, <2>2, <2>3, <2>4, MongoWriteGoes DEF Moves
<1>6. CASE \E B \in Requests(c, "purge") : MongoPurge(c, B)
  <2> PICK B \in Requests(c, "purge") : MongoPurge(c, B)
    BY <1>6
  <2>1. Asked(c, R, B, "purge") /\ Busy(c)
    BY RequestMeans, BusyMeans DEF Places
  <2> QED BY <2>1, MongoPurgeGoes DEF Moves
<1>7. CASE \E W \in Pages(c) : MongoPage(c, W)
  <2> PICK W \in Pages(c) : MongoPage(c, W)
    BY <1>7
  <2>1. calls[c].op = "iterate"
    BY FollowingMeans DEF Pages, CallOk, ShapeOk, Lists
  <2> QED BY <2>1, SinglesPage DEF MongoPage
<1>8. CASE MongoJudge(c)
  BY <1>8, MongoJudgeGoes, BusyMeans DEF MongoJudge, Moves
<1>9. CASE MongoReadFails(c)
  <2>1. Busy(c)
    BY <1>9, BusyMeans DEF MongoReadFails, Places
  <2> QED BY <1>9, <2>1, AbandonedGoes DEF MongoReadFails, Moves
<1> QED BY <1>1, <1>2, <1>3, <1>4, <1>5, <1>6, <1>7, <1>8, <1>9 DEF MongoNext

-----------------------------------------------------------------------------
(* KeyvMongo on GridFS. *)

\* An upload to GridFS begins.
LEMMA GridSetStarts ==
  ASSUME NEW c, NEW R, Following(c, R), store = "gridfs",
         NEW K \in Batches[store], NEW e \in Deadlines, GridSet(c, K, e)
  PROVE  Starting(c)
<1> PICK call : call = [Idle EXCEPT !.op = "set", !.e = e]
  OBVIOUS
<1>1. K \in SUBSET Keys /\ e \in Moments /\ clock \in Nat
  BY InputTypes, FollowingMeans DEF Following, RemoteInv
<1>2. Fresh(call) /\ call.op = "set"
  <2>1. Never \in Expiry \cup {Never} /\ TRUE \in BOOLEAN
    OBVIOUS
  <2> QED BY <1>1, <2>1, WriteFresh
<1>3. PICK k \in K : Begin(c, Posted(call, {{k}}, "sent"))
  BY DEF GridSet
<1>4. {{k}} \in SUBSET SUBSET Rows /\ {{k}} \subseteq SUBSET Keys
  BY <1>1 DEF Rows
<1> QED BY <1>2, <1>3, <1>4, WriteStarts

\* The call when a file was found under the name: the others are left alone.
Passed(call, B) ==
  [call EXCEPT !.at = [j \in Rows |-> IF j \in B THEN "unused" ELSE @[j]],
               !.batch = [j \in Rows |-> IF j \in B THEN {} ELSE @[j]]]

\* Rows that the call no longer asks for, as if it never had.
LEMMA PassedOk ==
  ASSUME NEW call, NEW R \in SUBSET Rows, CallOk(call, R), call.op \in {"get", "delete"},
         NEW B \in SUBSET Rows
  PROVE  CallOk(Passed(call, B), R) /\ Passed(call, B).op = call.op
<1> DEFINE at0    == [j \in Rows |-> IF j \in B THEN "unused" ELSE call.at[j]]
           batch0 == [j \in Rows |-> IF j \in B THEN {} ELSE call.batch[j]]
<1> PICK new : new = [call EXCEPT !.at = at0, !.batch = batch0]
  OBVIOUS
<1>1. new = Passed(call, B)
  BY DEF Passed
<1>2. at0 \in [Rows -> Places] /\ batch0 \in [Rows -> SUBSET Rows]
  BY DEF CallOk, CallType, Places
<1>3. \A k \in Rows : /\ at0[k] = (IF k \in B THEN "unused" ELSE call.at[k])
                      /\ batch0[k] = (IF k \in B THEN {} ELSE call.batch[k])
  OBVIOUS
<1> HIDE DEF at0, batch0
<1>4. /\ new \in CallType /\ new.at = at0 /\ new.batch = batch0 /\ new.seen = call.seen
      /\ new.op = call.op /\ new.e = call.e /\ new.exp = call.exp /\ new.now = call.now
      /\ new.asks = call.asks /\ new.ahead = call.ahead /\ new.failed = call.failed
      /\ new.ok = call.ok /\ new.took = call.took
  BY <1>2 DEF CallOk, CallType
<1>5. \A k \in Rows :
        /\ k \in B => new.at[k] = "unused" /\ new.batch[k] = {}
        /\ k \notin B => new.at[k] = call.at[k] /\ new.batch[k] = call.batch[k]
  BY <1>3, <1>4
<1>6. DeadlineOk(new) /\ AnswerOk(new) /\ OneWrite(new)
  BY <1>4 DEF CallOk, DeadlineOk, AnswerOk, OneWrite
<1>7. SpaceOk(new) /\ ShapeOk(new)
  BY <1>4, <1>5 DEF CallOk, SpaceOk, ShapeOk, Allowed
<1>8. ReadOk(new, R) /\ ClearOk(new, R)
  BY <1>4, <1>5 DEF CallOk, ReadOk, ClearOk
<1> QED BY <1>1, <1>4, <1>6, <1>7, <1>8 DEF CallOk

\* findOne() of the files of a name: one of them, or none.
LEMMA GridFindGoes ==
  ASSUME NEW c, NEW R, Following(c, R), store = "gridfs", NEW B, Asked(c, R, B, "sent"),
         GridFind(c, B)
  PROVE  Going(c, R)
<1>0. /\ calls[c].op \in {"get", "delete"} /\ B \in SUBSET Rows /\ (store \notin Wide => B \subseteq Keys)
      /\ {} \in SUBSET Rows /\ KvOk /\ CallOk(calls[c], R) /\ R \in SUBSET Present /\ R \in SUBSET Rows
      /\ kv' = kv /\ B \subseteq Keys
  BY FollowingMeans DEF GridFind, Asked, Wide
<1>1. CASE B \cap Present = {} /\ Settle(c, Closed(calls[c], B, {}, {}))
  <2>1. \A k \in B \cap R : FALSE
    BY <1>0, <1>1
  <2>2. \E call : Settle(c, call) /\ CallOk(call, R)
    BY <1>0, <1>1, <2>1, ClosedGoes
  <2> QED BY <1>0, <2>2 DEF Going, KvStep
<1>2. CASE \E k \in B \cap Present :
             LET one == Passed(calls[c], B)
             IN  Settle(c, Posted(one, {{k}}, IF one.op = "get" THEN "held" ELSE "purge"))
  <2> PICK one : one = Passed(calls[c], B)
    OBVIOUS
  <2>1. PICK k \in B \cap Present :
          Settle(c, Posted(one, {{k}}, IF one.op = "get" THEN "held" ELSE "purge"))
    BY <1>2
  <2>2. CallOk(one, R) /\ one.op \in {"get", "delete"}
    BY <1>0, PassedOk
  <2> PICK parts : parts = {{k}}
    OBVIOUS
  <2>3. parts \in SUBSET SUBSET Rows /\ parts \subseteq SUBSET Keys /\ UNION parts \subseteq Present
    BY <1>0
  <2>4. CASE one.op = "get"
    <3>1. "held" \in Places \ {"unused", "done"} /\ Allowed(one.op, "held")
      BY <2>4 DEF Places, Allowed
    <3>2. CallOk(Posted(one, parts, "held"), R)
      BY <1>0, <2>2, <2>3, <3>1, PostedOk
    <3>3. Settle(c, Posted(one, parts, "held"))
      BY <2>1, <2>4
    <3> QED BY <1>0, <3>2, <3>3 DEF Going, KvStep
  <2>5. CASE one.op = "delete"
    <3>1. "purge" \in Places \ {"unused", "done"} /\ Allowed(one.op, "purge") /\ one.op \notin Cleaning
      BY <2>5 DEF Places, Allowed, Cleaning
    <3>2. CallOk(Posted(one, parts, "purge"), R)
      BY <1>0, <2>2, <2>3, <3>1, PostedOk
    <3>3. Settle(c, Posted(one, parts, "purge"))
      BY <2>1, <2>5
    <3> QED BY <1>0, <3>2, <3>3 DEF Going, KvStep
  <2> QED BY <2>2, <2>4, <2>5
<1> QED BY <1>1, <1>2 DEF GridFind, Passed

\* A sweep finds the files it will delete.
LEMMA GridListGoes ==
  ASSUME NEW c, NEW R, Following(c, R), store = "gridfs", NEW B, Asked(c, R, B, "sent"),
         GridList(c, B)
  PROVE  Going(c, R)
<1> PICK found : found = Swept(calls[c].op, calls[c].now, B)
  OBVIOUS
<1> PICK rest : rest = B \ found
  OBVIOUS
<1>0. /\ calls[c].op \in Sweeps /\ B \in SUBSET Rows /\ B \subseteq Keys
      /\ {} \in SUBSET Rows /\ KvOk /\ CallOk(calls[c], R) /\ R \in SUBSET Present /\ clock \in Nat
      /\ kv' = kv /\ Settle(c, Posted(Closed(calls[c], rest, {}, {}), Singly(found), "purge"))
  BY FollowingMeans DEF GridList, Asked, Wide
<1>1. found \in SUBSET B /\ found \in SUBSET Keys
  BY <1>0 DEF Swept
<1>2. calls[c].op = "clear" => rest \cap R = {}
  BY <1>0 DEF Swept
<1>3. calls[c].op \in Cleaning => \A k \in R \cap found : Dead(k)
  <2> SUFFICES ASSUME calls[c].op = "clearExpired", NEW k \in R \cap found PROVE Dead(k)
    BY <1>0 DEF Cleaning, Sweeps
  <2>1. kv[k].e # Never /\ kv[k].e <= calls[c].now
    BY DEF Swept
  <2>2. kv[k] \in Row
    BY <1>0 DEF KvOk, Present
  <2>3. kv[k].e \in Int /\ calls[c].now \in Int /\ calls[c].now <= clock
    BY <1>0, <2>1, <2>2 DEF Row, Moments, CallOk, CallType, ShapeOk
  <2> QED BY <1>0, <2>1, <2>3 DEF Dead
<1> PICK parts : parts = Singly(found)
  OBVIOUS
<1>4. parts \in SUBSET SUBSET Rows /\ parts \subseteq SUBSET Keys /\ UNION parts = found
  BY <1>1, KeyParts
<1>5. /\ "purge" \in Places \ {"unused", "done"} /\ Allowed(calls[c].op, "purge")
      /\ calls[c].op \notin {"set", "delete", "get", "iterate"}
      /\ rest \in SUBSET Rows /\ rest \subseteq Keys
  BY <1>0 DEF Places, Allowed, Sweeps
<1>6. CallOk(Posted(Closed(calls[c], rest, {}, {}), parts, "purge"), R)
  <2>1. /\ calls[c].op \in Cleaning /\ "purge" = "purge" => \A k \in R \cap UNION parts : Dead(k)
        /\ calls[c].op = "clear" => store = "dynamo" \/ rest \cap R = {}
        /\ store \notin Wide => parts \subseteq SUBSET Keys
        /\ store \notin Wide => rest \subseteq Keys
    BY <1>2, <1>3, <1>4, <1>5
  <2>2. calls[c].op \notin {"set", "delete"} /\ calls[c].op \notin {"get", "iterate"} /\ store # "valkeySets"
    BY <1>5
  <2>3. {} \in SUBSET Rows /\ parts \in SUBSET SUBSET Rows /\ "purge" # "held"
    BY <1>4
  <2> QED BY <1>5, <2>1, <2>2, <2>3, PartedOk
<1> QED BY <1>0, <1>6 DEF Going, KvStep

\* A file's deadline is compared with the time.
LEMMA GridJudgeGoes ==
  ASSUME NEW c, NEW R, Following(c, R), store = "gridfs", NEW k \in Rows,
         calls[c].at[k] = "held", GridJudge(c, k)
  PROVE  Going(c, R)
<1>0. calls[c].at[k] # "unused" /\ k \in Held(c) /\ store # "valkeySets" /\ store # "mongo"
  BY DEF Held
<1>1. calls[c].op \in {"get", "iterate"}
  BY <1>0, HeldMeans
<1>2. CASE Ended(c, k) /\ Move(c, k, "purge")
  <2>1. k \in R => Dead(k)
    <3> PICK time \in {clock, calls[c].now} : calls[c].seen[k] # Never /\ calls[c].seen[k] <= time
      BY <1>2 DEF Ended
    <3> QED BY <1>0, SeenMeans
  <2>2. "purge" \in Places \ {"unused", "done"} /\ Allowed(calls[c].op, "purge")
    BY <1>0 DEF Places, Allowed
  <2> QED BY <1>0, <1>2, <2>1, <2>2, MoveGoes
<1>3. CASE Move(c, k, "meta")
  <2>1. "meta" \in Places \ {"unused", "done"} /\ Allowed(calls[c].op, "meta")
    BY <1>1 DEF Places, Allowed
  <2> QED BY <1>0, <1>3, <2>1, MoveGoes
<1>4. CASE Move(c, k, "load")
  <2>1. "load" \in Places \ {"unused", "done"} /\ Allowed(calls[c].op, "load")
    BY <1>1 DEF Places, Allowed
  <2> QED BY <1>0, <1>4, <2>1, MoveGoes
<1> QED BY <1>2, <1>3, <1>4 DEF GridJudge

\* The time of the access is noted.
LEMMA GridTouchGoes ==
  ASSUME NEW c, NEW R, Following(c, R), store = "gridfs", NEW k \in Rows,
         calls[c].at[k] = "meta", GridTouch(c, k)
  PROVE  Going(c, R)
<1>0. calls[c].at[k] # "unused" /\ store # "valkeySets" /\ store # "mongo"
  OBVIOUS
<1>1. calls[c].op \in {"get", "iterate"}
  BY FollowingMeans DEF CallOk, ShapeOk, Allowed
<1>2. CASE Move(c, k, "load")
  <2>1. "load" \in Places \ {"unused", "done"} /\ Allowed(calls[c].op, "load")
    BY <1>1 DEF Places, Allowed
  <2> QED BY <1>0, <1>2, <2>1, MoveGoes
<1>3. CASE Refused(c, {k})
  BY <1>0, <1>3, OneAsked, RefusedGoes
<1> QED BY <1>2, <1>3 DEF GridTouch, Move, Refused, Fails

\* The file is read.
LEMMA GridLoadGoes ==
  ASSUME NEW c, NEW R, Following(c, R), store = "gridfs", NEW k \in Rows,
         calls[c].at[k] = "load", GridLoad(c, k)
  PROVE  Going(c, R)
<1>0. calls[c].at[k] # "unused" /\ store # "valkeySets" /\ store # "mongo"
  OBVIOUS
<1>1. calls[c].op \in {"get", "iterate"}
  BY FollowingMeans DEF CallOk, ShapeOk, Allowed
<1>2. Asked(c, R, {k}, "load")
  BY <1>0, OneAsked
<1>3. Asked(c, R, {k}, "sent")
  BY <1>2 DEF Asked
<1> QED BY <1>0, <1>1, <1>3, FetchGoes, RefusedGoes DEF GridLoad

\* The file is deleted; an error ends an iterator.
LEMMA GridPurgeGoes ==
  ASSUME NEW c, NEW R, Following(c, R), store = "gridfs", NEW k \in Rows,
         calls[c].at[k] = "purge", GridPurge(c, k)
  PROVE  Going(c, R)
<1> PICK yes : yes = {j \in {k} : calls[c].op = "delete"}
  OBVIOUS
<1> PICK took : took = {j \in {k} \cap Present : calls[c].op \notin {"get", "iterate"}}
  OBVIOUS
<1>1. yes \in SUBSET Rows /\ took \in SUBSET Rows /\ {} \in SUBSET Rows /\ {k} \in SUBSET Rows
      /\ (calls[c].op # "delete" => yes = {})
  OBVIOUS
<1>2. KvStep(c)
  <2>1. kv' = Without({k}) \/ kv' = kv
    BY DEF GridPurge
  <2> QED BY <2>1, OneGone
<1>3. Asked(c, R, {k}, "purge")
  BY OneAsked
<1>4. ASSUME NEW some \in SUBSET Rows
      PROVE  CallOk(GridThrew(c, k, some), R)
  <2>1. CallOk(Broken(calls[c], {k}, some), R)
    BY <1>3, FollowingMeans, BrokenOk DEF Asked
  <2>2. CallOk(Abandoned(c, some), R)
    BY FollowingMeans, AbandonedOk
  <2> QED BY <2>1, <2>2 DEF GridThrew
<1>5. CASE k \in Present /\ kv' = Without({k}) /\ Settle(c, Closed(calls[c], {k}, yes, took))
  <2>1. {k} \cap R = {} /\ (calls[c].op = "delete" => yes \subseteq took)
    BY <1>1, <1>5, GoneMeans
  <2>2. \E call : Settle(c, call) /\ CallOk(call, R)
    BY <1>1, <1>3, <1>5, <2>1, ClosedGoes DEF Asked
  <2> QED BY <1>2, <2>2 DEF Going
<1>6. CASE Settle(c, GridThrew(c, k, took)) \/ Settle(c, GridThrew(c, k, {}))
  BY <1>1, <1>2, <1>4, <1>6 DEF Going
<1> QED BY <1>5, <1>6 DEF GridPurge

\* Every step over GridFS is one of a call that begins or goes on.
LEMMA GridGoes ==
  ASSUME NEW c, NEW R, Following(c, R), store = "gridfs", GridNext(c)
  PROVE  Moves(c, R)
<1>1. CASE \E K \in Batches[store], e \in Deadlines : GridSet(c, K, e)
  BY <1>1, GridSetStarts DEF Moves
<1>2. CASE \E K \in Asks[store], op \in {"get", "delete"} : GridAsk(c, op, K)
  <2> PICK K \in Asks[store], op \in {"get", "delete"} : GridAsk(c, op, K)
    BY <1>2
  <2>1. \E call : AskCall(call, op) /\ \E parts \in {Singly(K), Whole(K)} :
                                           Begin(c, Posted(call, parts, "sent"))
    BY DEF GridAsk, AskCall
  <2> QED BY <2>1, KeysStart DEF Moves
<1>3. CASE \E op \in Sweeps : GridSweep(c, op)
  <2> PICK op \in Sweeps : GridSweep(c, op)
    BY <1>3
  <2>1. \E call : AskCall(call, op) /\ Begin(c, Posted(call, Whole(Keys), "sent"))
    BY DEF GridSweep, AskCall
  <2> QED BY <2>1, ClearStarts DEF Moves, Sweeps
<1>4. CASE \E B \in Requests(c, "sent") :
             GridWrite(c, B) \/ GridFind(c, B) \/ GridCount(c, B) \/ GridList(c, B)
  <2> PICK B \in Requests(c, "sent") :
             GridWrite(c, B) \/ GridFind(c, B) \/ GridCount(c, B) \/ GridList(c, B)
    BY <1>4
  <2>1. Asked(c, R, B, "sent") /\ Busy(c)
    BY RequestMeans, BusyMeans DEF Places
  <2>2. CASE GridWrite(c, B)
    BY <2>1, <2>2, WriteGoes, RefusedGoes DEF GridWrite, Moves
  <2>3. CASE GridCount(c, B)
    <3> PICK live : live = {k \in B \cap Present : kv[k].e = Never \/ kv[k].e > calls[c].now}
      OBVIOUS
    <3>1. calls[c].op = "get" /\ kv' = kv /\ Settle(c, Closed(calls[c], B, live, {}))
      BY <2>3 DEF GridCount
    <3> QED BY <2>1, <3>1, CountGoes DEF Moves
  <2> QED BY <2>1, <2>2, <2>3, GridFindGoes, GridListGoes DEF Moves
<1>5. CASE \E k \in Pending(c) :
             \/ calls[c].at[k] = "held" /\ GridJudge(c, k)
             \/ calls[c].at[k] = "meta" /\ GridTouch(c, k)
             \/ calls[c].at[k] = "load" /\ GridLoad(c, k)
             \/ calls[c].at[k] = "purge" /\ GridPurge(c, k)
  <2>1. Busy(c)
    BY <1>5, BusyMeans
  <2>2. Going(c, R)
    BY <1>5, GridJudgeGoes, GridTouchGoes, GridLoadGoes, GridPurgeGoes DEF Pending
  <2> QED BY <2>1, <2>2 DEF Moves
<1>6. CASE GridIterate(c)
  <2> PICK call : call = [Idle EXCEPT !.op = "iterate", !.now = clock, !.ahead = Rows]
    OBVIOUS
  <2>1. Begin(c, call)
    BY <1>6 DEF GridIterate
  <2> QED BY <2>1, ListingStarts DEF Moves, Lists
<1>7. CASE GridQueryFails(c)
  <2>1. Busy(c)
    BY <1>7, BusyMeans DEF GridQueryFails, Places
  <2> QED BY <1>7, <2>1, AbandonedGoes DEF GridQueryFails, Moves
<1>8. CASE \E W \in Pages(c) : GridPage(c, W)
  <2> PICK W \in Pages(c) : GridPage(c, W)
    BY <1>8
  <2>1. calls[c].op = "iterate"
    BY FollowingMeans DEF Pages, CallOk, ShapeOk, Lists
  <2> QED BY <2>1, SinglesPage DEF GridPage
<1> QED BY <1>1, <1>2, <1>3, <1>4, <1>5, <1>6, <1>7, <1>8 DEF GridNext

-----------------------------------------------------------------------------
(* KeyvBridgeAdapter. *)

\* A bridge that can name a foreign row is one over a store without an iterator.
LEMMA BridgeKinds ==
  ASSUME store \in Bridges, ~HandlesNamespace, ~Exists("iterator")
  PROVE  store \in Wide
<1>1. ASSUME store = "bridgeFull" PROVE FALSE
  <2>1. \A m \in Methods : Legacy[store][m] = "async"
    BY <1>1 DEF Legacy
  <2>2. Detected(Legacy[store]) = "keyvStorage"
    BY <2>1 DEF Detected
  <2> QED BY <2>2 DEF HandlesNamespace
<1>2. ASSUME store = "bridgeMap" PROVE FALSE
  <2>1. Legacy[store] = [m \in Methods |-> IF m \in {"get", "set", "delete", "clear", "iterator"}
                                           THEN "async" ELSE "none"]
    BY <1>2 DEF Legacy
  <2>2. "iterator" \in Methods
    BY DEF Methods
  <2> QED BY <2>1, <2>2 DEF Exists
<1> QED BY <1>1, <1>2 DEF Bridges, Wide

\* The lifetime that is left, if any.
LEMMA TtlsMean ==
  ASSUME clock \in Nat, NEW e \in Moments, NEW exp \in Ttls(e)
  PROVE  /\ exp \in Expiry \cup {Never} /\ TRUE \in BOOLEAN
         /\ exp # Never => e # Never /\ (IF exp.rel THEN clock + exp.n ELSE exp.n) + Slack >= e
<1>1. Slack \in Nat
  BY RemoteAssumption DEF Slack
<1>2. CASE exp = Never
  BY <1>2
<1>3. CASE exp # Never
  <2>1. e # Never /\ e \in Int
    BY <1>3 DEF Ttls, Moments
  <2>2. exp = [rel |-> TRUE, n |-> e - clock]
    BY <1>3, <2>1 DEF Ttls
  <2>3. exp \in Expiry /\ exp.rel /\ exp.n = e - clock
    BY <2>1, <2>2 DEF Expiry
  <2>4. clock + (e - clock) + Slack >= e
    BY <1>1, <2>1
  <2> QED BY <2>1, <2>3, <2>4
<1> QED BY <1>2, <1>3

\* KeyvBridgeAdapter's set() or setMany() begins.
LEMMA BridgeSetStarts ==
  ASSUME NEW c, NEW R, Following(c, R), store \in Bridges,
         NEW K \in Batches[store], NEW e \in Deadlines, BridgeSet(c, K, e)
  PROVE  Starting(c)
<1> DEFINE new == [Idle EXCEPT !.op = "set", !.e = e]
<1>1. K \in SUBSET Keys /\ e \in Moments /\ clock \in Nat /\ store # "valkeySets"
  BY InputTypes, FollowingMeans DEF Following, RemoteInv, Bridges
<1>2. CASE Begin(c, Posted(new, Singly(K), "queued"))
  <2> PICK call : call = new
    OBVIOUS
  <2>1. Fresh(call) /\ call.op = "set"
    <3>1. Never \in Expiry \cup {Never} /\ TRUE \in BOOLEAN
      OBVIOUS
    <3> QED BY <1>1, <3>1, WriteFresh
  <2>2. Begin(c, Posted(call, Singly(K), "queued"))
    BY <1>2
  <2>3. Singly(K) \in SUBSET SUBSET Rows /\ Singly(K) \subseteq SUBSET Keys
    BY <1>1, KeyParts
  <2> HIDE DEF new
  <2> QED BY <1>1, <2>1, <2>2, <2>3, WriteStarts
<1>3. CASE \E D \in SUBSET K, exp \in Ttls(e) :
             Begin(c, Posted(Posted([new EXCEPT !.exp = exp], Whole(K \ D), "sent"), Singly(D), "late"))
  <2> PICK D \in SUBSET K, exp \in Ttls(e) :
             Begin(c, Posted(Posted([new EXCEPT !.exp = exp], Whole(K \ D), "sent"), Singly(D), "late"))
    BY <1>3
  <2> PICK call : call = [new EXCEPT !.exp = exp]
    OBVIOUS
  <2>1. Fresh(call) /\ call.op = "set"
    <3>1. /\ exp \in Expiry \cup {Never} /\ TRUE \in BOOLEAN
          /\ exp # Never => e # Never /\ (IF exp.rel THEN clock + exp.n ELSE exp.n) + Slack >= e
      BY <1>1, TtlsMean
    <3> QED BY <1>1, <3>1, WriteFresh
  <2>2. Begin(c, Posted(Posted(call, Whole(K \ D), "sent"), Singly(D), "late"))
    OBVIOUS
  <2>3. /\ Whole(K \ D) \in SUBSET SUBSET Rows /\ Whole(K \ D) \subseteq SUBSET Keys
        /\ Singly(D) \in SUBSET SUBSET Rows /\ Singly(D) \subseteq SUBSET Keys
    <3>1. K \ D \in SUBSET Keys /\ D \in SUBSET Keys
      BY <1>1
    <3> QED BY <3>1, KeyParts
  <2>4. Allowed(call.op, "sent") /\ Allowed(call.op, "late")
    BY <2>1 DEF Allowed
  <2> HIDE DEF new
  <2> QED BY <1>1, <2>1, <2>2, <2>3, <2>4, StartsTwice
<1> QED BY <1>2, <1>3 DEF BridgeSet

\* The lifetime that is left is told again before the write goes off.
LEMMA ToldOk ==
  ASSUME NEW c, NEW R, Following(c, R), calls[c].op = "set", NEW exp \in Ttls(calls[c].e),
         NEW told, told = [calls[c] EXCEPT !.exp = exp]
  PROVE  CallOk(told, R) /\ told.op = "set"
<1>1. /\ CallOk(calls[c], R) /\ calls[c] \in CallType /\ R \in SUBSET Rows /\ clock \in Nat
      /\ calls[c].asks \in BOOLEAN /\ calls[c].e \in Moments
  BY FollowingMeans DEF CallType
<1>2. /\ exp \in Expiry \cup {Never}
      /\ exp # Never => calls[c].e # Never
                        /\ (IF exp.rel THEN clock + exp.n ELSE exp.n) + Slack >= calls[c].e
  BY <1>1, TtlsMean
<1>3. PICK call, asks : call = calls[c] /\ asks = call.asks
  OBVIOUS
<1>4. told = [call EXCEPT !.asks = asks, !.exp = exp]
  BY <1>1, <1>3 DEF CallType
<1>5. told.op = "set"
  BY <1>1 DEF CallType
<1>6. CallOk([call EXCEPT !.asks = asks, !.exp = exp], R)
  BY <1>1, <1>2, <1>3, ExpiryOk
<1> QED BY <1>4, <1>5, <1>6

\* The next row of a loop has its turn; an entry that is late is deleted instead.
LEMMA BridgeTurnGoes ==
  ASSUME NEW c, NEW R, Following(c, R), store \in Bridges, NEW k \in Rows, BridgeTurn(c, k)
  PROVE  Going(c, R)
<1>0. calls[c].at[k] \in {"queued", "late"} /\ store # "valkeySets" /\ store # "mongo"
  BY DEF BridgeTurn, Loop, Bridges
<1>1. calls[c].at[k] = "late" => calls[c].op = "set"
  BY FollowingMeans DEF CallOk, ShapeOk, Allowed
<1>2. /\ "purge" \in Places \ {"unused", "done"} /\ Allowed(calls[c].op, "purge")
      /\ "sent" \in Places \ {"unused", "done"} /\ Allowed(calls[c].op, "sent")
      /\ calls[c].at[k] # "unused"
  BY <1>0 DEF Places, Allowed
<1>3. CASE calls[c].op \in {"set", "delete", "clear"} /\ Move(c, k, "purge")
  <2>1. calls[c].op \notin Cleaning
    BY <1>3 DEF Cleaning
  <2> QED BY <1>0, <1>2, <1>3, <2>1, MoveGoes
<1>4. CASE Move(c, k, "sent")
  BY <1>0, <1>2, <1>4, MoveGoes
<1>5. CASE /\ calls[c].op = "set" /\ kv' = kv
           /\ \E exp \in Ttls(calls[c].e) : Settle(c, Posted([calls[c] EXCEPT !.exp = exp], {{k}}, "sent"))
  <2>1. PICK exp \in Ttls(calls[c].e) : Settle(c, Posted([calls[c] EXCEPT !.exp = exp], {{k}}, "sent"))
    BY <1>5
  <2> PICK told : told = [calls[c] EXCEPT !.exp = exp]
    OBVIOUS
  <2>2. KvOk /\ R \in SUBSET Rows
    BY FollowingMeans
  <2>4. CallOk(told, R) /\ told.op = "set"
    BY <1>5, ToldOk
  <2>5. {{k}} \in SUBSET SUBSET Rows /\ (store \notin Wide => {{k}} \subseteq SUBSET Keys)
    BY <1>2, RowMeans
  <2>6. told.op \notin Cleaning /\ Allowed(told.op, "sent")
    BY <2>4 DEF Cleaning, Allowed
  <2>7. CallOk(Posted(told, {{k}}, "sent"), R)
    BY <1>0, <1>2, <2>2, <2>4, <2>5, <2>6, PostedOk
  <2> QED BY <1>5, <2>1, <2>7 DEF Going, KvStep
<1> QED BY <1>1, <1>3, <1>4, <1>5 DEF BridgeTurn, Loop

\* The entry's deadline is compared with the time.
LEMMA BridgeJudgeGoes ==
  ASSUME NEW c, NEW R, Following(c, R), store \in Bridges, NEW k \in Rows, BridgeJudge(c, k)
  PROVE  Going(c, R)
<1>0. /\ calls[c].at[k] = "held" /\ k \in Held(c) /\ store # "valkeySets" /\ store # "mongo"
      /\ {} \in SUBSET Rows /\ {k} \in SUBSET Rows
  BY DEF BridgeJudge, Loop, Held, Bridges
<1>1. calls[c].op \in {"get", "iterate"}
  BY <1>0, HeldMeans
<1>2. CASE calls[c].seen[k] # Never /\ calls[c].seen[k] < clock /\ Move(c, k, "purge")
  <2>1. k \in R => Dead(k)
    <3>1. calls[c].seen[k] <= clock
      <4>1. calls[c].seen[k] \in Int /\ clock \in Nat
        BY <1>2, FollowingMeans DEF CallType, Moments
      <4> QED BY <1>2, <4>1
    <3> QED BY <1>0, <1>2, <3>1, SeenMeans
  <2>2. "purge" \in Places \ {"unused", "done"} /\ Allowed(calls[c].op, "purge")
    BY <1>0 DEF Places, Allowed
  <2> QED BY <1>0, <1>2, <2>1, <2>2, MoveGoes
<1>3. CASE Settle(c, Closed(calls[c], {k}, {k}, {})) /\ UNCHANGED <<store, clock, kv>>
  <2>1. Asked(c, R, {k}, "held")
    BY <1>0, OneAsked
  <2>2. \E call : Settle(c, call) /\ CallOk(call, R)
    BY <1>0, <1>1, <1>3, <2>1, ClosedGoes DEF Asked
  <2> QED BY <1>3, <2>2 DEF Going, KvStep
<1> QED BY <1>2, <1>3 DEF BridgeJudge

\* A row is deleted: for delete(), for clear(), instead of a late write, or as a clean-up.
LEMMA BridgePurgeGoes ==
  ASSUME NEW c, NEW R, Following(c, R), store \in Bridges, NEW k \in Rows,
         calls[c].at[k] = "purge", BridgePurge(c, k)
  PROVE  Going(c, R)
<1>0. store # "valkeySets" /\ store # "mongo" /\ {} \in SUBSET Rows /\ {k} \in SUBSET Rows
  BY DEF Bridges
<1>1. Asked(c, R, {k}, "purge")
  BY <1>0, OneAsked
<1>2. CASE calls[c].op = "delete"
  <2>1. Asked(c, R, {k}, "sent")
    BY <1>0, <1>1 DEF Asked
  <2> QED BY <1>0, <1>2, <2>1, RemoveGoes, RefusedGoes DEF BridgePurge
<1>3. CASE calls[c].op # "delete" /\ Fails(c, Abandoned(c, {}))
  BY <1>3, AbandonedGoes
<1>4. CASE calls[c].op # "delete" /\ ~Fails(c, Abandoned(c, {}))
  <2> PICK yes : yes = {k} \cap {j \in Rows : calls[c].op = "set"}
    OBVIOUS
  <2>1. PICK took \in SUBSET {k} :
          /\ calls[c].op = "set" => took = {k}
          /\ kv' = Without({k}) /\ Ends(c, {k}, yes, took)
    <3>1. CASE calls[c].op = "set"
      BY <1>4, <3>1 DEF BridgePurge
    <3>2. CASE calls[c].op = "clear"
      BY <1>4, <3>2 DEF BridgePurge
    <3>3. CASE calls[c].op \notin {"set", "clear"}
      BY <1>4, <3>3 DEF BridgePurge
    <3> QED BY <3>1, <3>2, <3>3
  <2>2. yes \in SUBSET Rows /\ took \in SUBSET Rows /\ (calls[c].op = "set" => yes \subseteq took)
    BY <2>1
  <2>3. {k} \cap R = {}
    BY <1>0, <2>1, GoneMeans
  <2>4. KvStep(c)
    BY <2>1, OneGone
  <2>5. CallOk(Abandoned(c, took), R)
    BY <2>2, FollowingMeans, AbandonedOk
  <2>6. CASE Settle(c, Closed(calls[c], {k}, yes, took))
    <3>1. \E call : Settle(c, call) /\ CallOk(call, R)
      BY <1>0, <1>1, <1>4, <2>2, <2>3, <2>6, ClosedGoes DEF Asked
    <3> QED BY <2>4, <3>1 DEF Going
  <2> QED BY <2>1, <2>4, <2>5, <2>6 DEF Ends, Going
<1> QED BY <1>2, <1>3, <1>4

\* Every step of the bridge is one of a call that begins or goes on.
LEMMA BridgeGoes ==
  ASSUME NEW c, NEW R, Following(c, R), store \in Bridges, BridgeNext(c)
  PROVE  Moves(c, R)
<1>0. store # "valkeySets" /\ store # "mongo" /\ store # "gridfs" /\ CallOk(calls[c], R)
  BY FollowingMeans DEF Bridges
<1>1. CASE \E K \in Batches[store], e \in Deadlines : BridgeSet(c, K, e)
  BY <1>1, BridgeSetStarts DEF Moves
<1>2. CASE \E K \in Asks[store], op \in {"get", "delete"} : BridgeAsk(c, op, K)
  <2> PICK K \in Asks[store], op \in {"get", "delete"} : BridgeAsk(c, op, K)
    BY <1>2
  <2>1. \E call : AskCall(call, op) /\ \E parts \in {Singly(K), Whole(K)}, place \in {"queued", "sent"} :
                                           Begin(c, Posted(call, parts, place))
    BY DEF BridgeAsk, AskCall
  <2>2. PICK place \in {"queued", "sent"} :
          \E call : AskCall(call, op) /\ \E parts \in {Singly(K), Whole(K)} :
                                           Begin(c, Posted(call, parts, place))
    BY <2>1
  <2> QED BY <2>2, KeysStart DEF Moves
<1>3. CASE BridgeClear(c)
  <2> PICK call : call = [Idle EXCEPT !.op = "clear"]
    OBVIOUS
  <2>1. CASE HandlesNamespace
    <3>1. AskCall(call, "clear") /\ Begin(c, Posted(call, Whole(Keys), "sent"))
      BY <1>3, <2>1 DEF BridgeClear, AskCall
    <3> QED BY <3>1, ClearStarts DEF Moves
  <2>2. CASE ~HandlesNamespace /\ Exists("iterator")
    <3> PICK listing : listing = [Idle EXCEPT !.op = "clear", !.ahead = Rows]
      OBVIOUS
    <3>1. Begin(c, listing)
      BY <1>3, <2>2 DEF BridgeClear
    <3>2. Lists("clear")
      BY <1>0 DEF Lists
    <3> QED BY <3>1, <3>2, ListingStarts DEF Moves
  <2>3. CASE ~HandlesNamespace /\ ~Exists("iterator")
    <3>1. AskCall(call, "clear") /\ Begin(c, Posted(call, Whole(Rows), "sent"))
      BY <1>3, <2>3 DEF BridgeClear, AskCall
    <3>2. store \in Wide
      BY <2>3, BridgeKinds
    <3> QED BY <3>1, <3>2, ClearStarts DEF Moves
  <2> QED BY <2>1, <2>2, <2>3
<1>4. CASE BridgeIterate(c)
  <2> PICK call : call = [Idle EXCEPT !.op = "iterate", !.ahead = Rows]
    OBVIOUS
  <2>1. Begin(c, call)
    BY <1>4 DEF BridgeIterate
  <2> QED BY <2>1, ListingStarts DEF Moves, Lists
<1>5. CASE \E W \in Pages(c) : BridgePage(c, W)
  <2> PICK W \in Pages(c) : BridgePage(c, W)
    BY <1>5
  <2> PICK place : place = IF calls[c].op = "clear" THEN "queued" ELSE "held"
    OBVIOUS
  <2>1. calls[c].op \in {"clear", "iterate"}
    BY <1>0 DEF Pages, CallOk, ShapeOk, Lists
  <2>2. /\ place \in {"queued", "sent", "held", "purge"} /\ place # "purge"
        /\ place = "held" => calls[c].op = "iterate"
    BY <2>1
  <2>3. /\ Settle(c, Posted([calls[c] EXCEPT !.ahead = @ \ W], Singly(W \cap Present \cap Keys), place))
        /\ kv' = kv
    BY DEF BridgePage
  <2> QED BY <2>2, <2>3, SinglesPage
<1>6. CASE \E B \in Requests(c, "sent") :
             BridgeWrite(c, B) \/ BridgeFetch(c, B) \/ BridgeRemove(c, B)
  <2> PICK B \in Requests(c, "sent") :
             BridgeWrite(c, B) \/ BridgeFetch(c, B) \/ BridgeRemove(c, B)
    BY <1>6
  <2>1. /\ Asked(c, R, B, "sent") /\ Busy(c) /\ B \in SUBSET Rows /\ {} \in SUBSET Rows
        /\ store \notin Wide => B \subseteq Keys
    BY RequestMeans, BusyMeans DEF Places, Asked
  <2>2. CASE Fails(c, Abandoned(c, {}))
    BY <2>1, <2>2, AbandonedGoes DEF Moves
  <2>3. CASE BridgeWrite(c, B) /\ ~Fails(c, Abandoned(c, {}))
    <3>1. calls[c].op = "set" /\ kv' = Written(B, calls[c].e, calls[c].exp) /\ Ends(c, B, B, B)
      BY <2>3 DEF BridgeWrite
    <3>2. KvStep(c)
      BY <2>1, <3>1 DEF KvStep
    <3>3. CallOk(Abandoned(c, B), R)
      BY <2>1, FollowingMeans, AbandonedOk
    <3>4. CASE Settle(c, Closed(calls[c], B, B, B))
      <4>1. \E call : Settle(c, call) /\ CallOk(call, R)
        BY <1>0, <2>1, <3>1, <3>4, ClosedGoes
      <4> QED BY <2>1, <3>2, <4>1 DEF Moves, Going
    <3> QED BY <2>1, <3>1, <3>2, <3>3, <3>4 DEF Ends, Moves, Going
  <2>4. CASE BridgeFetch(c, B) /\ ~Fails(c, Abandoned(c, {}))
    <3>1. CASE FetchArrives(c, B)
      BY <2>1, <2>4, <3>1, FetchGoes DEF BridgeFetch, Moves
    <3> QED BY <1>0, <2>1, <2>4, <3>1, FoundOk DEF BridgeFetch, Moves, Going, KvStep
  <2>5. CASE BridgeRemove(c, B)
    BY <1>0, <2>1, <2>5, RemoveGoes, RefusedGoes DEF BridgeRemove, Moves
  <2> QED BY <2>2, <2>3, <2>4, <2>5
<1>7. CASE \E k \in Pending(c) : \/ BridgeTurn(c, k) \/ BridgeJudge(c, k)
                                 \/ calls[c].at[k] = "purge" /\ BridgePurge(c, k)
  <2>1. Busy(c)
    BY <1>7, BusyMeans
  <2>2. Going(c, R)
    BY <1>7, BridgeTurnGoes, BridgeJudgeGoes, BridgePurgeGoes DEF Pending
  <2> QED BY <2>1, <2>2 DEF Moves
<1>8. CASE BridgeListFails(c)
  BY <1>8, AbandonedGoes, BusyMeans DEF BridgeListFails, Moves
<1> QED BY <1>1, <1>2, <1>3, <1>4, <1>5, <1>6, <1>7, <1>8 DEF BridgeNext

-----------------------------------------------------------------------------
(* A step of a caller. *)

\* No adapter changes the clock.
Quiet == store' = store /\ clock' = clock

\* Nor does KeyvRedis, nor the kind of the server.
LEMMA RedisQuiet == ASSUME NEW c, RedisNext(c) PROVE Quiet
BY DEF RedisNext, RedisSet, RedisAsk, RedisInfo, RedisWrite, RedisWriteFails, RedisFetch,
       RedisRemove, RedisScans, RedisPage, RedisScanFails, Begin, WriteArrives, RemoveArrives,
       FetchArrives, Refused, Fails, Quiet

\* Nor does KeyvMemcache, nor the kind of the server.
LEMMA MemcacheQuiet == ASSUME NEW c, MemcacheNext(c) PROVE Quiet
BY DEF MemcacheNext, MemcacheSet, MemcacheAsk, MemcacheFlush, MemcacheWrite, MemcacheFetch,
       MemcacheRemove, Begin, WriteArrives, RemoveArrives, FetchArrives, Refused, Fails, Quiet

\* Nor does KeyvDynamo, nor the kind of the server.
LEMMA DynamoQuiet == ASSUME NEW c, DynamoNext(c) PROVE Quiet
BY DEF DynamoNext, DynamoSet, DynamoAsk, DynamoScans, DynamoWrite, DynamoWriteFails, DynamoFetch,
       DynamoRemove, DynamoPurge, DynamoClears, DynamoPage, DynamoJudge, DynamoReadFails,
       DynamoClearFails, Begin, RemoveArrives, Refused, Fails, Quiet

\* Nor does KeyvCloudflare, nor the kind of the server.
LEMMA CloudflareQuiet == ASSUME NEW c, CloudflareNext(c) PROVE Quiet
BY DEF CloudflareNext, CloudflareSet, CloudflareAsk, CloudflareWrite, CloudflareFetch,
       CloudflareDelete, CloudflareNextValue, CloudflareMeta, CloudflareJudge, CloudflarePurge,
       CloudflareScans, CloudflarePage, CloudflareListFails,
       Begin, Move, WriteArrives, FetchArrives, Refused, Fails, Quiet

\* Nor does KeyvMongo, nor the kind of the server.
LEMMA MongoQuiet == ASSUME NEW c, MongoNext(c) PROVE Quiet
BY DEF MongoNext, MongoSet, MongoAsk, MongoClear, MongoIterate, MongoWrite, MongoFetch, MongoCount,
       MongoRemove, MongoPurge, MongoPage, MongoJudge, MongoReadFails,
       Begin, RemoveArrives, Refused, Fails, Quiet

\* Nor does KeyvMongo over GridFS, nor the kind of the server.
LEMMA GridQuiet == ASSUME NEW c, GridNext(c) PROVE Quiet
BY DEF GridNext, GridSet, GridAsk, GridSweep, GridWrite, GridFind, GridCount, GridList, GridJudge,
       GridTouch, GridLoad, GridPurge, GridIterate, GridQueryFails, GridPage,
       Begin, Move, WriteArrives, FetchArrives, Refused, Fails, Quiet

\* Nor does KeyvBridgeAdapter, nor the kind of the server.
LEMMA BridgeQuiet == ASSUME NEW c, BridgeNext(c) PROVE Quiet
BY DEF BridgeNext, BridgeSet, BridgeAsk, BridgeClear, BridgeIterate, BridgePage, BridgeWrite,
       BridgeFetch, BridgeRemove, BridgeTurn, BridgeJudge, BridgePurge, BridgeListFails, Ends,
       Begin, Move, RemoveArrives, FetchArrives, Refused, Fails, Quiet

\* Whatever the adapter, the step is one of a call that goes on or begins, and
\* a namespace's set learns of no row but those the step writes.
LEMMA StepMoves ==
  ASSUME NEW c, NEW R, Following(c, R), Adapter(c)
  PROVE  /\ Moves(c, R) /\ Quiet /\ IndexOk'
         /\ \A k \in Rows : store = "valkeySets" /\ k \in index' \ index => Rewritten(k)
         /\ Busy(c) \/ index' = index
<1>0. IndexOk /\ store \in AllStores
  BY DEF Following, RemoteInv
<1>1. CASE store \in {"valkey", "valkeySets"} /\ ValkeyNext(c)
  BY <1>1, ValkeyGoes, IndexMoves DEF Quiet
<1>2. CASE Moves(c, R) /\ Quiet /\ UNCHANGED valkeyVars
  <2>1. index' = index /\ unindex' = unindex /\ store' = store
    BY <1>2 DEF valkeyVars, Quiet
  <2> QED BY <1>0, <1>2, <2>1 DEF IndexOk
<1>3. CASE store \in RedisStores /\ RedisNext(c) /\ UNCHANGED valkeyVars
  BY <1>2, <1>3, RedisGoes, RedisQuiet
<1>4. CASE store = "mongo" /\ MongoNext(c) /\ UNCHANGED valkeyVars
  BY <1>2, <1>4, MongoGoes, MongoQuiet
<1>5. CASE store = "gridfs" /\ GridNext(c) /\ UNCHANGED valkeyVars
  BY <1>2, <1>5, GridGoes, GridQuiet
<1>6. CASE store = "memcache" /\ MemcacheNext(c) /\ UNCHANGED valkeyVars
  BY <1>2, <1>6, MemcacheGoes, MemcacheQuiet
<1>7. CASE store = "dynamo" /\ DynamoNext(c) /\ UNCHANGED valkeyVars
  BY <1>2, <1>7, DynamoGoes, DynamoQuiet
<1>8. CASE store \in {"kvBind", "kvRest"} /\ CloudflareNext(c) /\ UNCHANGED valkeyVars
  BY <1>2, <1>8, CloudflareGoes, CloudflareQuiet
<1>9. CASE store \in Bridges /\ BridgeNext(c) /\ UNCHANGED valkeyVars
  BY <1>2, <1>9, BridgeGoes, BridgeQuiet
<1> QED BY <1>1, <1>3, <1>4, <1>5, <1>6, <1>7, <1>8, <1>9 DEF Adapter

\* Rows that are written have a deadline that the server respects.
LEMMA KvKept ==
  ASSUME NEW c, NEW R, Following(c, R), KvStep(c), Quiet
  PROVE  KvOk'
<1>0. /\ KvOk /\ clock \in Nat /\ calls[c] \in CallType /\ CallOk(calls[c], R) /\ store' = store
      /\ kv \in [Rows -> Row \cup {Absent}]
  BY FollowingMeans DEF Quiet, KvOk
<1>1. CASE kv' = kv
  BY <1>0, <1>1 DEF KvOk, DeadlinesKept
<1>2. ASSUME NEW B \in SUBSET Rows, store \notin Wide => B \subseteq Keys, kv' = Without(B)
      PROVE  KvOk'
  <2>1. \A k \in Rows : kv'[k] = IF k \in B THEN Absent ELSE kv[k]
    BY <1>2 DEF Without
  <2>2. kv' \in [Rows -> Row \cup {Absent}]
    BY <1>0, <1>2 DEF Without
  <2>3. DeadlinesKept'
    BY <1>0, <2>1 DEF KvOk, DeadlinesKept
  <2>4. store \notin Wide => \A k \in Foreign : k \in Rows /\ k \notin B
    BY <1>2, RemoteAssumption DEF Rows
  <2> QED BY <1>0, <2>1, <2>2, <2>3, <2>4 DEF KvOk
<1>3. ASSUME NEW B \in SUBSET Rows, store \notin Wide => B \subseteq Keys, calls[c].op = "set",
             kv' = Written(B, calls[c].e, calls[c].exp)
      PROVE  KvOk'
  <2> PICK e, exp : e = calls[c].e /\ exp = calls[c].exp
    OBVIOUS
  <2> PICK dies : dies = Dies(exp)
    OBVIOUS
  <2> PICK row : row = [e |-> e, dies |-> dies]
    OBVIOUS
  <2>1. e \in Moments /\ exp \in Expiry \cup {Never} /\ Slack \in Nat
    BY <1>0, RemoteAssumption DEF CallType, Slack
  <2>2. /\ exp # Never => e # Never /\ (IF exp.rel THEN clock + exp.n ELSE exp.n) + Slack >= e
    BY <1>0, <1>3 DEF CallOk, DeadlineOk
  <2>3. /\ dies \in Moments
        /\ dies # Never => e # Never /\ dies + Slack >= e
    <3>1. CASE exp = Never
      BY <3>1 DEF Dies, Moments
    <3>2. CASE exp # Never
      <4>1. exp.n \in Int /\ exp.rel \in BOOLEAN
        BY <2>1, <3>2 DEF Expiry
      <4>2. dies = IF exp.rel THEN clock + exp.n ELSE exp.n
        BY <3>2 DEF Dies
      <4> QED BY <1>0, <2>2, <3>2, <4>1, <4>2 DEF Moments
    <3> QED BY <3>1, <3>2
  <2>4. row \in Row /\ row.e = e /\ row.dies = dies
    BY <2>1, <2>3 DEF Row
  <2>5. Kept(row) \in {row, Absent}
    BY DEF Kept
  <2>6. kv' = [k \in Rows |-> IF k \in B THEN Kept(row) ELSE kv[k]]
    BY <1>3 DEF Written
  <2>7. kv' \in [Rows -> Row \cup {Absent}]
    BY <1>0, <2>4, <2>5, <2>6
  <2>8. \A k \in Rows : kv'[k] \in {row, Absent} \/ (k \notin B /\ kv'[k] = kv[k])
    BY <2>5, <2>6
  <2>9. DeadlinesKept'
    <3> SUFFICES ASSUME NEW k \in Rows, kv'[k] # Absent, kv'[k].dies # Never
                 PROVE  kv'[k].e # Never /\ kv'[k].dies + Slack >= kv'[k].e
      BY <1>0 DEF DeadlinesKept, Slack
    <3>1. CASE kv'[k] = row
      BY <2>3, <2>4, <3>1
    <3>2. CASE kv'[k] = kv[k]
      BY <1>0, <3>2 DEF KvOk, DeadlinesKept, Slack
    <3> QED BY <2>8, <3>1, <3>2
  <2>10. store \notin Wide => \A k \in Foreign : kv'[k] = kv[k]
    <3>1. store \notin Wide => \A k \in Foreign : k \in Rows /\ k \notin B
      BY <1>3, RemoteAssumption DEF Rows
    <3> QED BY <2>6, <3>1
  <2> QED BY <1>0, <2>7, <2>9, <2>10 DEF KvOk
<1> QED BY <1>1, <1>2, <1>3 DEF KvStep

\* What the invariant says of a call holds of what is left of it.
LEMMA SettledOk ==
  ASSUME RemoteInv, NEW c \in Callers, NEW call, NEW R \in SUBSET Present, Settle(c, call),
         CallOk(call, R)
  PROVE  /\ CallOk(calls'[c], R) /\ calls' \in [Callers -> CallType]
         /\ \A d \in Callers \ {c} : calls'[d] = calls[d]
<1>0. clock \in Nat /\ calls \in [Callers -> CallType]
  BY DEF RemoteInv
<1> PICK new : new = IF Settled(call) THEN Outcome(call) ELSE call
  OBVIOUS
<1>1. CallOk(new, R)
  BY <1>0, OutcomeOk
<1>2. new \in CallType
  BY <1>1 DEF CallOk
<1>3. calls' = [calls EXCEPT ![c] = new]
  BY DEF Settle
<1> QED BY <1>0, <1>1, <1>2, <1>3

\* The rows that a call watches after a step.
Watching(c) == IF Begins(c) THEN {k \in Present : calls'[c].op \in Watched}
               ELSE {k \in steady[c] : kv'[k] = kv[k] /\ ~Rewritten(k)}

\* The invariant holds of the call that takes the step.
LEMMA OwnKept ==
  ASSUME RemoteInv, NEW c \in Callers, Adapter(c), NEW R1, R1 = Watching(c)
  PROVE  /\ KvOk' /\ IndexOk' /\ Quiet /\ calls' \in [Callers -> CallType]
         /\ \A d \in Callers \ {c} : calls'[d] = calls[d]
         /\ R1 \in SUBSET Present' /\ CallOk(calls[c], R1)'
         /\ \A k \in Rows : store = "valkeySets" /\ k \in index' \ index => Rewritten(k)
<1> PICK R : R = {k \in steady[c] : kv'[k] = kv[k] /\ ~Rewritten(k)}
  OBVIOUS
<1>1. Following(c, R)
  BY DEF Following
<1>2. /\ Moves(c, R) /\ Quiet /\ IndexOk' /\ (Busy(c) \/ index' = index)
      /\ \A k \in Rows : store = "valkeySets" /\ k \in index' \ index => Rewritten(k)
  BY <1>1, StepMoves
<1>3. /\ KvOk /\ clock \in Nat /\ R \in SUBSET Present /\ store' = store /\ clock' = clock
  BY <1>1, <1>2, FollowingMeans DEF Quiet
<1>4. CASE Busy(c) /\ Going(c, R)
  <2>1. R1 = R
    BY <1>4 DEF Watching, Busy, Begins
  <2>2. PICK call : Settle(c, call) /\ CallOk(call, R)
    BY <1>4 DEF Going
  <2>3. KvOk'
    BY <1>1, <1>2, <1>4, KvKept DEF Going
  <2>4. /\ CallOk(calls'[c], R) /\ calls' \in [Callers -> CallType]
        /\ \A d \in Callers \ {c} : calls'[d] = calls[d]
    BY <1>3, <2>2, SettledOk
  <2>5. \A k \in R : kv'[k] = kv[k] /\ (store = "valkeySets" /\ k \in index' => k \in index)
    BY <1>2, <1>3 DEF Present
  <2> PICK new : new = calls'[c]
    OBVIOUS
  <2>6. CallOk(new, R)'
    <3>1. CallOk(new, R) /\ clock' \in Nat /\ clock' >= clock
      BY <1>3, <2>4
    <3> QED BY <1>3, <2>5, <3>1, FrameOk
  <2>7. R \in SUBSET Present'
    BY <1>3, <2>5 DEF Present
  <2> QED BY <1>2, <2>1, <2>3, <2>4, <2>6, <2>7
<1>5. CASE Starting(c)
  <2>1. PICK call : Begin(c, call) /\ CallOk(call, Present)
    BY <1>5 DEF Starting
  <2>2. Settle(c, call) /\ kv' = kv /\ Free(c)
    BY <2>1 DEF Begin
  <2>3. KvOk'
    BY <1>1, <1>2, <2>2, KvKept DEF KvStep
  <2>4. /\ CallOk(calls'[c], Present) /\ calls' \in [Callers -> CallType]
        /\ \A d \in Callers \ {c} : calls'[d] = calls[d]
    BY <2>1, <2>2, SettledOk
  <2>5. R1 \in SUBSET Present /\ Present' = Present
    BY <1>3, <2>2 DEF Watching, Present
  <2>6. \A k \in R1 : store = "valkeySets" /\ k \in index' => k \in index
    <3>1. CASE Begins(c)
      BY <1>2, <3>1 DEF Begins, Busy
    <3>2. CASE ~Begins(c)
      BY <1>2, <2>5, <3>2 DEF Watching, Present
    <3> QED BY <3>1, <3>2
  <2> PICK new, P : new = calls'[c] /\ P = Present
    OBVIOUS
  <2>7. CallOk(new, R1)'
    <3>1. CallOk(new, P) /\ clock' \in Nat /\ clock' >= clock /\ P \in SUBSET Present /\ R1 \in SUBSET P
      BY <1>3, <2>4, <2>5
    <3>2. \A k \in R1 : kv'[k] = kv[k] /\ (store = "valkeySets" /\ k \in index' => k \in index)
      BY <2>2, <2>6
    <3> QED BY <1>3, <3>1, <3>2, FrameOk
  <2> QED BY <1>2, <2>3, <2>4, <2>5, <2>7
<1> QED BY <1>2, <1>4, <1>5 DEF Moves

-----------------------------------------------------------------------------
(* The invariant. *)

\* The invariant holds at the start.
LEMMA InitOk == ASSUME Init PROVE RemoteInv
<1>1. store \in AllStores /\ clock \in Nat
  BY RemoteAssumption DEF Init
<1>2. \A k \in Rows : kv[k] = IF k \in Foreign THEN [e |-> Never, dies |-> Never] ELSE Absent
  BY DEF Init
<1>3. KvOk
  <2> PICK row : row = [e |-> Never, dies |-> Never]
    OBVIOUS
  <2>1. row \in Row /\ row.e = Never /\ row.dies = Never
    BY DEF Row, Moments
  <2>2. kv = [k \in Rows |-> IF k \in Foreign THEN row ELSE Absent]
    BY DEF Init
  <2>3. DeadlinesKept
    BY <2>1, <2>2 DEF DeadlinesKept
  <2>4. \A k \in Foreign : kv[k] = row
    BY <2>2 DEF Rows
  <2> QED BY <2>1, <2>2, <2>3, <2>4 DEF KvOk
<1>4. IndexOk
  BY DEF Init, InitValkey, IndexOk
<1>5. Idle \in CallType /\ calls = [c \in Callers |-> Idle] /\ steady = [c \in Callers |-> {}]
  BY <1>1, IdleMeans DEF Init
<1>6. CallOk(Idle, {})
  <2>1. CallOk(Idle, Present)
    BY <1>1, IdleFresh, FreshOk DEF Idle
  <2>2. {} \in SUBSET Present
    OBVIOUS
  <2> QED BY <2>1, <2>2, SubsetOk
<1> QED BY <1>1, <1>3, <1>4, <1>5, <1>6 DEF RemoteInv

\* Another caller's step, or the server's, leaves alone what a call watches.
LEMMA OthersFrame ==
  ASSUME RemoteInv, NEW d \in Callers, calls'[d] = calls[d], store' = store,
         clock' \in Nat, clock' >= clock,
         \A k \in Rows : store = "valkeySets" /\ k \in index' \ index => Rewritten(k),
         NEW R1, R1 = Watching(d)
  PROVE  R1 \in SUBSET Present' /\ CallOk(calls[d], R1)'
<1> PICK R, call : R = steady[d] /\ call = calls[d]
  OBVIOUS
<1>1. KvOk /\ clock \in Nat /\ R \in SUBSET Present /\ CallOk(call, R)
  BY DEF RemoteInv
<1>2. R1 = {k \in R : kv'[k] = kv[k] /\ ~Rewritten(k)}
  BY DEF Watching, Begins
<1>3. R1 \in SUBSET R /\ R1 \in SUBSET Rows
  BY <1>1, <1>2 DEF Present
<1>4. \A k \in R1 : kv'[k] = kv[k] /\ (store = "valkeySets" /\ k \in index' => k \in index)
  BY <1>2, <1>3
<1>5. CallOk(call, R1)'
  BY <1>1, <1>3, <1>4, FrameOk
<1>6. R1 \in SUBSET Present'
  BY <1>1, <1>2 DEF Present
<1>7. call = calls'[d]
  OBVIOUS
<1> QED BY <1>5, <1>6, <1>7

\* The server drops rows whose time has come.
LEMMA ServerKept ==
  ASSUME RemoteInv, Server
  PROVE  /\ KvOk' /\ IndexOk' /\ store' = store /\ calls' = calls
         /\ clock' \in Nat /\ clock' >= clock /\ index' = index
<1>0. KvOk /\ IndexOk /\ clock \in Nat /\ UNCHANGED valkeyVars
  BY DEF RemoteInv, Server
<1>1. PICK D, time :
        /\ D \in SUBSET Rows
        /\ kv' = [k \in Rows |-> IF k \in D THEN Absent ELSE kv[k]]
        /\ \A k \in D : Lapsed(kv[k], time)
  <2>1. CASE Tick
    <3> PICK D : D = {k \in Rows : Punctual /\ Lapsed(kv[k], clock + 1)}
      OBVIOUS
    <3> PICK time : time = clock + 1
      OBVIOUS
    <3>1. kv' = [k \in Rows |-> IF k \in D THEN Absent ELSE kv[k]]
      BY <2>1 DEF Tick
    <3> QED BY <3>1
  <2>2. CASE \E k \in Rows : Reap(k)
    <3> PICK k \in Rows : Reap(k)
      BY <2>2
    <3> PICK D, time : D = {k} /\ time = clock
      OBVIOUS
    <3>1. kv' = [j \in Rows |-> IF j \in D THEN Absent ELSE kv[j]]
      BY DEF Reap, Without
    <3>2. D \in SUBSET Rows /\ \A j \in D : Lapsed(kv[j], time)
      BY DEF Reap
    <3> QED BY <3>1, <3>2
  <2> QED BY <2>1, <2>2 DEF Server
<1>2. /\ store' = store /\ calls' = calls /\ clock' \in Nat /\ clock' >= clock
  <2>1. CASE Tick
    BY <1>0, <2>1 DEF Tick
  <2>2. CASE \E k \in Rows : Reap(k)
    BY <1>0, <2>2 DEF Reap
  <2> QED BY <2>1, <2>2 DEF Server
<1>3. KvOk'
  <2>1. kv' \in [Rows -> Row \cup {Absent}]
    BY <1>0, <1>1 DEF KvOk
  <2>2. \A k \in Rows : kv'[k] = IF k \in D THEN Absent ELSE kv[k]
    BY <1>1
  <2>3. DeadlinesKept'
    BY <1>0, <1>2, <2>2 DEF KvOk, DeadlinesKept
  <2>4. store \notin Wide => \A k \in Foreign : kv'[k] = [e |-> Never, dies |-> Never]
    <3> SUFFICES ASSUME store \notin Wide, NEW k \in Foreign PROVE kv'[k] = kv[k]
      BY <1>0 DEF KvOk
    <3>1. k \in Rows /\ kv[k].dies = Never
      BY <1>0 DEF KvOk, Rows
    <3> QED BY <1>1, <2>2, <3>1 DEF Lapsed
  <2> QED BY <1>2, <2>1, <2>3, <2>4 DEF KvOk
<1> QED BY <1>0, <1>2, <1>3 DEF IndexOk, valkeyVars

\* Every step keeps the invariant: of the call that takes it, and of all the others.
LEMMA NextKept == ASSUME RemoteInv, Next PROVE RemoteInv'
<1>0. steady' = [c \in Callers |-> Watching(c)]
  BY DEF Next, Watching
<1>1. /\ KvOk' /\ IndexOk' /\ store' = store /\ clock' \in Nat /\ calls' \in [Callers -> CallType]
      /\ \A d \in Callers : Watching(d) \subseteq Present' /\ CallOk(calls[d], steady[d])'
  <2>1. CASE Server
    <3>1. /\ KvOk' /\ IndexOk' /\ store' = store /\ calls' = calls
          /\ clock' \in Nat /\ clock' >= clock /\ index' = index
      BY <2>1, ServerKept
    <3>2. ASSUME NEW d \in Callers
          PROVE  Watching(d) \subseteq Present' /\ CallOk(calls[d], steady[d])'
      <4> PICK R1 : R1 = Watching(d)
        OBVIOUS
      <4>1. R1 \in SUBSET Present' /\ CallOk(calls[d], R1)'
        BY <3>1, OthersFrame
      <4>2. steady'[d] = R1
        BY <1>0
      <4> QED BY <4>1, <4>2
    <3> QED BY <3>1, <3>2 DEF RemoteInv
  <2>2. ASSUME NEW c \in Callers, Step(c)
        PROVE  /\ KvOk' /\ IndexOk' /\ store' = store /\ clock' \in Nat /\ calls' \in [Callers -> CallType]
               /\ \A d \in Callers : Watching(d) \subseteq Present' /\ CallOk(calls[d], steady[d])'
    <3> PICK R0 : R0 = Watching(c)
      OBVIOUS
    <3>1. /\ KvOk' /\ IndexOk' /\ Quiet /\ calls' \in [Callers -> CallType]
          /\ \A d \in Callers \ {c} : calls'[d] = calls[d]
          /\ R0 \in SUBSET Present' /\ CallOk(calls[c], R0)'
          /\ \A k \in Rows : store = "valkeySets" /\ k \in index' \ index => Rewritten(k)
      BY <2>2, OwnKept DEF Step
    <3>2. store' = store /\ clock' = clock /\ clock \in Nat
      BY <3>1 DEF Quiet, RemoteInv
    <3>3. ASSUME NEW d \in Callers
          PROVE  Watching(d) \subseteq Present' /\ CallOk(calls[d], steady[d])'
      <4> PICK R1 : R1 = Watching(d)
        OBVIOUS
      <4>1. R1 \in SUBSET Present' /\ CallOk(calls[d], R1)'
        <5>1. CASE d = c
          BY <3>1, <5>1
        <5>2. CASE d # c
          <6>1. calls'[d] = calls[d] /\ clock' \in Nat /\ clock' >= clock
            BY <3>1, <3>2, <5>2
          <6> QED BY <3>1, <3>2, <6>1, OthersFrame
        <5> QED BY <5>1, <5>2
      <4>2. steady'[d] = R1
        BY <1>0
      <4> QED BY <4>1, <4>2
    <3> QED BY <3>1, <3>2, <3>3
  <2> QED BY <2>1, <2>2 DEF Next
<1> QED BY <1>0, <1>1 DEF RemoteInv

\* A step that changes nothing keeps the invariant.
LEMMA StutterKept == ASSUME RemoteInv, UNCHANGED vars PROVE RemoteInv'
<1>1. /\ store' = store /\ clock' = clock /\ kv' = kv /\ calls' = calls
      /\ index' = index /\ unindex' = unindex /\ steady' = steady
  BY DEF vars, remote, valkeyVars
<1>2. KvOk' /\ IndexOk' /\ Present' = Present
  BY <1>1 DEF RemoteInv, KvOk, IndexOk, DeadlinesKept, Present
<1>3. ASSUME NEW d \in Callers PROVE CallOk(calls[d], steady[d])'
  <2> PICK R, call : R = steady[d] /\ call = calls[d]
    OBVIOUS
  <2>1. KvOk /\ clock \in Nat /\ R \in SUBSET Present /\ CallOk(call, R)
    BY DEF RemoteInv
  <2>2. CallOk(call, R)'
    <3>1. /\ R \in SUBSET R /\ clock' \in Nat /\ clock' >= clock
          /\ \A k \in R : kv'[k] = kv[k] /\ (store = "valkeySets" /\ k \in index' => k \in index)
      BY <1>1, <2>1
    <3> QED BY <1>1, <2>1, <3>1, FrameOk
  <2>3. R = steady'[d] /\ call = calls'[d]
    BY <1>1
  <2> QED BY <2>2, <2>3
<1> QED BY <1>1, <1>2, <1>3 DEF RemoteInv

\* For all servers, callers, keys and clocks, every reachable state satisfies the
\* inductive invariant: the calls under way say of each row only what they can know.
THEOREM RemoteSteady == Spec => []RemoteInv
<1>1. RemoteInv /\ [Next]_vars => RemoteInv'
  BY NextKept, StutterKept
<1> QED BY <1>1, InitOk, PTL DEF Spec

\* A row that lives has not expired.
LEMMA LiveNotDead ==
  ASSUME KvOk, clock \in Nat, NEW k \in Rows, Live(k)
  PROVE  ~Dead(k)
<1>1. kv[k].e \in Moments
  BY DEF KvOk, Live, Row
<1> QED BY <1>1 DEF Live, Dead, Moments

\* A write or delete answers true only for rows it wrote or removed, whatever
\* requests were lost and whoever else wrote (KeyvCloudflare.delete() excepted).
THEOREM AnswersAreTrue == Spec => []AnswersTrue
<1>1. RemoteInv => AnswersTrue
  BY DEF RemoteInv, AnswersTrue, CallOk, AnswerOk
<1> QED BY <1>1, RemoteSteady, PTL

\* No lifetime that an adapter tells its server ends before the deadline of the
\* entry, however long the write was under way: PX, PXAT, exptime in seconds or as a date,
\* DynamoDB's expiresAt, Cloudflare's expirationTtl (short by less than a second), the bridge's ttl.
THEOREM DeadlinesAreKept == Spec => []DeadlinesKept
<1>1. RemoteInv => DeadlinesKept
  BY DEF RemoteInv, KvOk
<1> QED BY <1>1, RemoteSteady, PTL

\* No call takes a row of another namespace, on any of the servers where the
\* adapter keeps the namespaces apart.
THEOREM OthersAreKept == Spec => []OthersKept
<1>1. RemoteInv => OthersKept
  BY RemoteAssumption DEF RemoteInv, KvOk, OthersKept, Wide, Present, Rows
<1> QED BY <1>1, RemoteSteady, PTL

\* A clear() that ends without an error has removed every row of its namespace
\* that was there when it began and that nobody wrote since, however the listing was paged
\* and whatever the other callers did meanwhile.
THEOREM ClearsComplete == Spec => []ClearComplete
<1>1. RemoteInv => ClearComplete
  <2> SUFFICES ASSUME RemoteInv, NEW c \in Callers, Finished(c, "clear"), store # "dynamo",
                      NEW k \in steady[c] \cap Keys
               PROVE  Unlisted(k)
    BY DEF ClearComplete, Unlisted
  <2>1. ClearOk(calls[c], steady[c]) /\ calls[c].at[k] \in {"unused", "done"} /\ calls[c].ahead = {}
    BY DEF RemoteInv, CallOk, Finished, Free, Settled, Rows
  <2> QED BY <2>1 DEF ClearOk, Finished
<1> QED BY <1>1, RemoteSteady, PTL

\* An iterator that ends without an error has yielded every row that was
\* there all the time and has not expired, whatever the other callers wrote between the pages.
THEOREM IteratorsMissNothing == Spec => []IteratorComplete
<1>1. RemoteInv => IteratorComplete
  <2> SUFFICES ASSUME RemoteInv, NEW c \in Callers, NEW k \in Keys, Finished(c, "iterate"),
                      k \in steady[c], Live(k)
               PROVE  k \in calls[c].ok
    BY DEF IteratorComplete
  <2>1. ReadOk(calls[c], steady[c]) /\ calls[c].at[k] \in {"unused", "done"} /\ calls[c].ahead = {}
    BY DEF RemoteInv, CallOk, Finished, Free, Settled, Rows
  <2>2. ~Dead(k)
    BY LiveNotDead DEF RemoteInv, Rows
  <2> QED BY <2>1, <2>2 DEF ReadOk, Finished
<1> QED BY <1>1, RemoteSteady, PTL

\* A read that ends without an error misses no row that was there all the time
\* and has not expired, though its rows are fetched, judged and cleaned up in separate requests.
THEOREM ReadsMissNothing == Spec => []MissesJustified
<1>1. RemoteInv => MissesJustified
  <2> SUFFICES ASSUME RemoteInv, NEW c \in Callers, NEW k \in Keys, Finished(c, "get"),
                      calls[c].at[k] = "done", k \in steady[c], Live(k)
               PROVE  k \in calls[c].ok
    BY DEF MissesJustified
  <2>1. ReadOk(calls[c], steady[c])
    BY DEF RemoteInv, CallOk
  <2>2. ~Dead(k)
    BY LiveNotDead DEF RemoteInv, Rows
  <2> QED BY <2>1, <2>2 DEF ReadOk, Finished
<1> QED BY <1>1, RemoteSteady, PTL

\* What a step may delete.
TakesStale ==
  \A c \in Callers, k \in Rows :
       /\ calls[c].op \in {"get", "clearExpired", "iterate"}
       /\ calls[c].at[k] = "purge" /\ calls'[c].at[k] = "done"
       /\ Live(k) /\ kv'[k] = Absent
       => k \notin steady[c]

\* A clean-up of a read, of an iterator or of clearExpired() never takes a live
\* row that was there, untouched, since the call began.
THEOREM CleanUpsTakeStale == Spec => CleanUpTakesStale
<1>1. RemoteInv => TakesStale
  <2> SUFFICES ASSUME RemoteInv, NEW c \in Callers, NEW k \in Rows,
                      calls[c].op \in {"get", "clearExpired", "iterate"},
                      calls[c].at[k] = "purge", Live(k), k \in steady[c]
               PROVE  FALSE
    BY DEF TakesStale
  <2>1. ReadOk(calls[c], steady[c])
    BY DEF RemoteInv, CallOk
  <2>2. ~Dead(k)
    BY LiveNotDead DEF RemoteInv
  <2> QED BY <2>1, <2>2 DEF ReadOk
<1>2. Spec => [][TakesStale]_vars
  BY <1>1, RemoteSteady, PTL
<1> QED BY <1>2 DEF CleanUpTakesStale, TakesStale
=============================================================================
