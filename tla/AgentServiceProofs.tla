------------------------- MODULE AgentServiceProofs -------------------------
(***************************************************************************)
(* TLAPS proofs about AgentService, for every set of messages, every number *)
(* of attempts and every bound on crashes and raising reductions.           *)
(***************************************************************************)
EXTENDS AgentService, FiniteSetTheorems, TLAPS

-----------------------------------------------------------------------------
(* The event queue.                                                         *)

(* An empty queue holds nothing.                                            *)
LEMMA EmptyQueue == Contents(<<>>) = {} /\ Keyed(<<>>)
BY DEF Contents, Keyed

(* queue.get removes the head and leaves the other entries.                 *)
LEMMA TailQueue ==
  ASSUME NEW q \in Seq(Event), q # <<>>
  PROVE  /\ Tail(q) \in Seq(Event)
         /\ Head(q) \in Event
         /\ Head(q) \in Contents(q)
         /\ Contents(Tail(q)) \subseteq Contents(q)
         /\ Keyed(q) => /\ Keyed(Tail(q))
                        /\ \A x \in Contents(Tail(q)) :
                             x.msg # Head(q).msg \/ x.type # Head(q).type
<1>1. /\ Len(q) \in Nat /\ Len(q) >= 1
      /\ Head(q) = q[1]
      /\ Tail(q) \in Seq(Event)
      /\ Len(Tail(q)) = Len(q) - 1
      /\ \A i \in 1..Len(Tail(q)) : Tail(q)[i] = q[i + 1]
  OBVIOUS
<1>2. \A i \in 1..Len(Tail(q)) : i + 1 \in 1..Len(q) /\ i + 1 # 1
  BY <1>1
<1>3. 1 \in 1..Len(q) /\ q[1] \in Event
  BY <1>1
<1>4. Contents(Tail(q)) \subseteq Contents(q)
  BY <1>1, <1>2 DEF Contents
<1>5. ASSUME Keyed(q)
      PROVE  /\ Keyed(Tail(q))
             /\ \A x \in Contents(Tail(q)) :
                  x.msg # Head(q).msg \/ x.type # Head(q).type
  <2>1. Keyed(Tail(q))
    <3> SUFFICES ASSUME NEW i \in 1..Len(Tail(q)), NEW j \in 1..Len(Tail(q)), i # j
                 PROVE  \/ Tail(q)[i].msg # Tail(q)[j].msg
                        \/ Tail(q)[i].type # Tail(q)[j].type
      BY DEF Keyed
    <3>1. i + 1 \in 1..Len(q) /\ j + 1 \in 1..Len(q) /\ i + 1 # j + 1
      BY <1>2
    <3> QED BY <3>1, <1>1, <1>5 DEF Keyed
  <2>2. ASSUME NEW x \in Contents(Tail(q))
        PROVE  x.msg # Head(q).msg \/ x.type # Head(q).type
    <3>1. PICK i \in 1..Len(Tail(q)) : x = Tail(q)[i]
      BY <2>2 DEF Contents
    <3>2. x = q[i + 1] /\ i + 1 \in 1..Len(q) /\ i + 1 # 1
      BY <3>1, <1>1, <1>2
    <3> QED BY <3>2, <1>1, <1>3, <1>5 DEF Keyed
  <2> QED BY <2>1, <2>2
<1> QED BY <1>1, <1>3, <1>4, <1>5 DEF Contents

(* queue.put_nowait adds an entry; the keys stay unique if its key is new.   *)
LEMMA AppendQueue ==
  ASSUME NEW q \in Seq(Event), NEW e \in Event
  PROVE  /\ Append(q, e) \in Seq(Event)
         /\ Contents(Append(q, e)) = Contents(q) \cup {e}
         /\ (/\ Keyed(q)
             /\ \A x \in Contents(q) : x.msg # e.msg \/ x.type # e.type)
            => Keyed(Append(q, e))
<1> DEFINE a == Append(q, e)
<1>1. /\ Len(q) \in Nat
      /\ a \in Seq(Event)
      /\ Len(a) = Len(q) + 1
      /\ \A i \in 1..Len(q) : a[i] = q[i]
      /\ a[Len(q) + 1] = e
  OBVIOUS
<1>2. \A i \in 1..Len(a) : i \in 1..Len(q) \/ i = Len(q) + 1
  BY <1>1
<1>3. /\ \A i \in 1..Len(q) : i \in 1..Len(a)
      /\ Len(q) + 1 \in 1..Len(a)
  BY <1>1
<1> HIDE DEF a
<1>4. Contents(a) = Contents(q) \cup {e}
  <2>1. ASSUME NEW x \in Contents(a) PROVE x \in Contents(q) \cup {e}
    <3>1. PICK i \in 1..Len(a) : x = a[i]
      BY DEF Contents
    <3> QED BY <3>1, <1>1, <1>2 DEF Contents
  <2>2. ASSUME NEW x \in Contents(q) PROVE x \in Contents(a)
    <3>1. PICK i \in 1..Len(q) : x = q[i]
      BY DEF Contents
    <3> QED BY <3>1, <1>1, <1>3 DEF Contents
  <2>3. e \in Contents(a)
    BY <1>1, <1>3 DEF Contents
  <2> QED BY <2>1, <2>2, <2>3
<1>5. ASSUME Keyed(q), \A x \in Contents(q) : x.msg # e.msg \/ x.type # e.type
      PROVE  Keyed(a)
  <2> SUFFICES ASSUME NEW i \in 1..Len(a), NEW j \in 1..Len(a), i # j
               PROVE  a[i].msg # a[j].msg \/ a[i].type # a[j].type
    BY DEF Keyed
  <2>1. CASE i \in 1..Len(q) /\ j \in 1..Len(q)
    BY <2>1, <1>1, <1>5 DEF Keyed
  <2>2. CASE i \in 1..Len(q) /\ j = Len(q) + 1
    BY <2>2, <1>1, <1>5 DEF Contents
  <2>3. CASE i = Len(q) + 1 /\ j \in 1..Len(q)
    BY <2>3, <1>1, <1>5 DEF Contents
  <2> QED BY <2>1, <2>2, <2>3, <1>2
<1> QED BY <1>1, <1>4, <1>5 DEF a

-----------------------------------------------------------------------------
(* Types.                                                                   *)

(* The queue entries the actions create are events.                         *)
LEMMA EventTypes ==
  ASSUME NEW m \in Messages
  PROVE  /\ HumanMessage(m) \in Event
         /\ EmbeddingResult(m) \in Event
         /\ \A o \in Outcomes : LLMResult(m, o) \in Event
BY DEF HumanMessage, EmbeddingResult, LLMResult, Event, Outcomes, Decisions

(* Reducing a human message keeps the types of the durable state.            *)
LEMMA ReduceHumanTypes ==
  ASSUME TypeOK, NEW m \in Messages, ReduceHuman(m)
  PROVE  /\ stamp' \in [Messages -> Nat] /\ clock' \in Nat
         /\ reduced' \subseteq Messages
         /\ turns' \in [Messages -> Nat] /\ lastHuman' \in Nat
         /\ cycle' \in [Messages -> CycleType]
         /\ work' \in [Work -> WorkStatus]
         /\ obligation' \in [Messages -> ObligationStatus]
         /\ replies' \in [Messages -> Nat]
         /\ todo' \subseteq Work
<1> USE DEF TypeOK
<1>1. /\ stamp' \in [Messages -> Nat] /\ clock' \in Nat
      /\ reduced' \subseteq Messages
      /\ turns' \in [Messages -> Nat] /\ lastHuman' \in Nat
      /\ replies' \in [Messages -> Nat]
  BY DEF ReduceHuman
<1>2. PICK eligible \in BOOLEAN, path \in CycleType :
        LET created == (IF eligible THEN {Embed(m)} ELSE {})
                         \cup (IF path = "none" THEN {} ELSE {LLM(m)})
        IN  /\ work' = [w \in Work |-> IF w \in created THEN "PENDING" ELSE work[w]]
            /\ cycle' = [cycle EXCEPT ![m] = path]
            /\ obligation' = IF path = "mandatory"
                               THEN [obligation EXCEPT ![m] = "PENDING"]
                               ELSE obligation
            /\ todo' = created
  BY DEF ReduceHuman
<1>3. Embed(m) \in Work /\ LLM(m) \in Work
  BY DEF Embed, LLM, Work, Kinds
<1>4. work' \in [Work -> WorkStatus]
  BY <1>2 DEF WorkStatus
<1>5. cycle' \in [Messages -> CycleType]
  BY <1>2
<1>6. obligation' \in [Messages -> ObligationStatus]
  BY <1>2 DEF ObligationStatus
<1>7. todo' \subseteq Work
  BY <1>2, <1>3
<1> QED BY <1>1, <1>4, <1>5, <1>6, <1>7

(* Reducing a worker result keeps the types of the durable state.            *)
LEMMA ReduceResultTypes ==
  ASSUME TypeOK, NEW m \in Messages, NEW o, ReduceLLM(m, o) \/ ReduceEmbedding(m)
  PROVE  /\ stamp' \in [Messages -> Nat] /\ clock' \in Nat
         /\ reduced' \subseteq Messages
         /\ turns' \in [Messages -> Nat] /\ lastHuman' \in Nat
         /\ cycle' \in [Messages -> CycleType]
         /\ work' \in [Work -> WorkStatus]
         /\ obligation' \in [Messages -> ObligationStatus]
         /\ replies' \in [Messages -> Nat]
         /\ todo' \subseteq Work
<1> USE DEF TypeOK
<1>1. Embed(m) \in Work /\ LLM(m) \in Work
  BY DEF Embed, LLM, Work, Kinds
<1>2. CASE ReduceLLM(m, o)
  <2>1. AfterLLMResult(m, o) \in WorkStatus
    BY <1>1 DEF AfterLLMResult, WorkStatus
  <2>2. Resolve(m, o) \in ObligationStatus
    BY DEF Resolve, ObligationStatus
  <2>3. work' \in [Work -> WorkStatus]
    BY <1>1, <1>2, <2>1 DEF ReduceLLM
  <2>4. obligation' \in [Messages -> ObligationStatus]
    BY <1>2, <2>2 DEF ReduceLLM
  <2>5. replies' \in [Messages -> Nat]
    <3>1. \/ replies' = replies
          \/ replies' = [replies EXCEPT ![m] = @ + 1]
      BY <1>2, Zenon DEF ReduceLLM
    <3>2. replies \in [Messages -> Nat]
      OBVIOUS
    <3>3. CASE replies' = replies
      BY <3>2, <3>3
    <3>4. CASE replies' = [replies EXCEPT ![m] = @ + 1]
      BY <3>2, <3>4
    <3> QED BY <3>1, <3>3, <3>4
  <2> QED BY <1>2, <2>3, <2>4, <2>5 DEF ReduceLLM
<1>3. CASE ReduceEmbedding(m)
  BY <1>1, <1>3 DEF ReduceEmbedding, WorkStatus
<1> QED BY <1>2, <1>3

(* Reducing any event of the queue keeps the types of the durable state.     *)
LEMMA ReduceTypes ==
  ASSUME TypeOK, NEW e \in Event, Reduce(e)
  PROVE  /\ stamp' \in [Messages -> Nat] /\ clock' \in Nat
         /\ reduced' \subseteq Messages
         /\ turns' \in [Messages -> Nat] /\ lastHuman' \in Nat
         /\ cycle' \in [Messages -> CycleType]
         /\ work' \in [Work -> WorkStatus]
         /\ obligation' \in [Messages -> ObligationStatus]
         /\ replies' \in [Messages -> Nat]
         /\ todo' \subseteq Work
<1>1. e.msg \in Messages
  BY DEF Event
<1>2. CASE e.type = "human" /\ ReduceHuman(e.msg)
  BY <1>1, <1>2, ReduceHumanTypes
<1>3. CASE e.type = "llm" /\ ReduceLLM(e.msg, e.outcome)
  BY <1>1, <1>3, ReduceResultTypes
<1>4. CASE e.type = "embed" /\ ReduceEmbedding(e.msg)
  BY <1>1, <1>4, ReduceResultTypes
<1> QED BY <1>2, <1>3, <1>4 DEF Reduce

(* The memory of a process that ended is well typed.                         *)
LEMMA MemoryLostTypes ==
  ASSUME MemoryLost
  PROVE  /\ phase' \in Phase
         /\ queue' \in Seq(Event)
         /\ task' \in [Work -> 0..MaxAttempts]
         /\ todo' \subseteq Work /\ replay' \subseteq Messages /\ plan' \subseteq Work
BY AttemptsAssumption DEF MemoryLost, Phase

(* Every step keeps every variable in its type.                              *)
LEMMA TypeStep == TypeOK /\ [Next]_vars => TypeOK'
<1> SUFFICES ASSUME TypeOK, [Next]_vars PROVE TypeOK'
  OBVIOUS
<1> USE AttemptsAssumption, BoundsAssumption
<1>1. CASE UNCHANGED vars
  BY <1>1 DEF TypeOK, vars
<1>2. ASSUME NEW m \in Messages, Ingest(m) PROVE TypeOK'
  <2>1. queue' \in Seq(Event)
    <3>1. HumanMessage(m) \in Event /\ queue \in Seq(Event)
      BY EventTypes DEF TypeOK
    <3>2. Append(queue, HumanMessage(m)) \in Seq(Event)
      BY <3>1, AppendQueue
    <3> QED BY <1>2, <3>1, <3>2 DEF Ingest
  <2> QED BY <1>2, <2>1 DEF Ingest, TypeOK, history
<1>3. CASE ReduceNext
  <2>1. Head(queue) \in Event /\ Tail(queue) \in Seq(Event)
    BY <1>3, TailQueue DEF ReduceNext, TypeOK
  <2> QED BY <1>3, <2>1, ReduceTypes DEF ReduceNext, TypeOK, history
<1>4. CASE ReduceRaises
  <2>1. Tail(queue) \in Seq(Event)
    BY <1>4, TailQueue DEF ReduceRaises, TypeOK
  <2> QED BY <1>4, <2>1 DEF ReduceRaises, TypeOK, durable
<1>5. CASE DispatchNext
  BY <1>5 DEF DispatchNext, TypeOK, history, WorkStatus
<1>6. ASSUME NEW w \in Work, WorkerReturns(w) PROVE TypeOK'
  <2>1. w[1] \in Messages /\ Decisions \subseteq Outcomes
    BY DEF Work, Outcomes
  <2>2. queue' \in Seq(Event)
    <3>1. EmbeddingResult(w[1]) \in Event /\ queue \in Seq(Event)
      BY <2>1, EventTypes DEF TypeOK
    <3>2. \A o \in Decisions : LLMResult(w[1], o) \in Event
      BY <2>1, EventTypes
    <3>3. Append(queue, EmbeddingResult(w[1])) \in Seq(Event)
      BY <3>1, AppendQueue
    <3>4. \A o \in Decisions : Append(queue, LLMResult(w[1], o)) \in Seq(Event)
      BY <3>1, <3>2, AppendQueue
    <3> QED BY <1>6, <3>3, <3>4 DEF WorkerReturns
  <2> QED BY <1>6, <2>2 DEF WorkerReturns, TypeOK, history, durable
<1>7. ASSUME NEW w \in Work, RetryAttempt(w) PROVE TypeOK'
  BY <1>7 DEF RetryAttempt, MayRetry, TypeOK, history, WorkStatus
<1>8. ASSUME NEW w \in Work, FailTerminal(w) PROVE TypeOK'
  <2>1. w[1] \in Messages /\ "error" \in Outcomes
    BY DEF Work, Outcomes
  <2>2. queue' \in Seq(Event)
    BY <1>8, <2>1, AppendQueue, EventTypes DEF FailTerminal, Surface, TypeOK
  <2> QED BY <1>8, <2>2 DEF FailTerminal, TypeOK, history, WorkStatus
<1>9. CASE Stop \/ FinishDrain
  BY <1>9 DEF Stop, FinishDrain, TypeOK, history, durable, Phase
<1>10. CASE FlushNext
  <2>1. Head(queue) \in Event /\ Tail(queue) \in Seq(Event)
    BY <1>10, TailQueue DEF FlushNext, TypeOK
  <2>2. CASE Reduce(Head(queue))
    BY <1>10, <2>1, <2>2, ReduceTypes DEF FlushNext, TypeOK, history
  <2>3. CASE ~Reduce(Head(queue))
    BY <1>10, <2>1, <2>3 DEF FlushNext, TypeOK, history
  <2> QED BY <2>2, <2>3
<1>11. CASE Suspend
  BY <1>11, MemoryLostTypes DEF Suspend, TypeOK, history
<1>12. CASE Crash
  BY <1>12, MemoryLostTypes DEF Crash, TypeOK, durable
<1>13. CASE Recover
  BY <1>13 DEF Recover, Reclaim, Unreduced, Accepted, TypeOK, Phase, WorkStatus
<1>14. CASE ReplayNext
  BY <1>14, ReduceHumanTypes DEF ReplayNext, TypeOK, history
<1>15. CASE Redispatch \/ GoLive
  BY <1>15 DEF Redispatch, GoLive, TypeOK, history, durable, Phase
<1> QED BY <1>1, <1>2, <1>3, <1>4, <1>5, <1>6, <1>7, <1>8, <1>9, <1>10, <1>11,
           <1>12, <1>13, <1>14, <1>15 DEF Next, Worker, Shutdown, Startup

(* Type correctness of the service for every instance.                       *)
THEOREM TypeCorrect == Spec => []TypeOK
<1>1. Init => TypeOK
  BY AttemptsAssumption, BoundsAssumption
     DEF Init, TypeOK, CycleType, WorkStatus, ObligationStatus, Phase, Accepted
<1> QED BY <1>1, TypeStep, PTL DEF Spec

-----------------------------------------------------------------------------
(* The inductive invariant.                                                 *)

(* The two work items of a message are distinct work items, and no other     *)
(* message has them.                                                        *)
LEMMA WorkKeys ==
  /\ \A m \in Messages : LLM(m) \in Work /\ Embed(m) \in Work /\ LLM(m) # Embed(m)
  /\ \A m, n \in Messages : m # n => LLM(m) # LLM(n) /\ Embed(m) # Embed(n)
  /\ \A m, n \in Messages : LLM(m) # Embed(n)
  /\ \A w \in Work : w[1] \in Messages /\ (w = LLM(w[1]) \/ w = Embed(w[1]))
  /\ \A m \in Messages : LLM(m) = <<m, "llm">> /\ Embed(m) = <<m, "embed">>
BY DEF LLM, Embed, Work, Kinds

(* What reducing a human message that is accepted and has no turn yet does   *)
(* to the records the invariant speaks of.                                  *)
LEMMA HumanStep ==
  ASSUME TypeOK, IInv, NEW m \in Messages, stamp[m] > 0, m \notin reduced,
         ReduceHuman(m)
  PROVE  /\ stamp' = stamp /\ reduced' = reduced \cup {m}
         /\ \A n \in Messages : turns'[n] = IF n \in reduced' THEN 1 ELSE 0
         /\ AnswerInv'
         /\ work[LLM(m)] = "none" /\ work[Embed(m)] = "none"
         /\ todo' \subseteq {LLM(m), Embed(m)}
         /\ \A w \in todo' : work'[w] = "PENDING"
         /\ \A w \in Work : work'[w] # work[w] => w \in todo'
         /\ \A n \in Messages : n # m => obligation'[n] = obligation[n]
         /\ obligation'[m] \in {"none", "PENDING"}
<1> USE WorkKeys
<1>1. PICK eligible \in BOOLEAN, path \in CycleType :
        LET created == (IF eligible THEN {Embed(m)} ELSE {})
                         \cup (IF path = "none" THEN {} ELSE {LLM(m)})
        IN  /\ work' = [w \in Work |-> IF w \in created THEN "PENDING" ELSE work[w]]
            /\ cycle' = [cycle EXCEPT ![m] = path]
            /\ obligation' = IF path = "mandatory"
                               THEN [obligation EXCEPT ![m] = "PENDING"]
                               ELSE obligation
            /\ todo' = created
  BY DEF ReduceHuman
<1>2. /\ stamp' = stamp /\ reduced' = reduced \cup {m} /\ replies' = replies
      /\ turns' = [turns EXCEPT ![m] = @ + 1]
  BY DEF ReduceHuman
<1>3. /\ work[LLM(m)] = "none" /\ work[Embed(m)] = "none"
      /\ cycle[m] = "none" /\ obligation[m] = "none" /\ replies[m] = 0
      /\ turns[m] = 0
  BY DEF IInv, AnswerInv, IngressInv, TypeOK
<1>4. /\ todo' \subseteq {LLM(m), Embed(m)}
      /\ \A w \in todo' : work'[w] = "PENDING"
      /\ \A w \in Work : w \notin todo' => work'[w] = work[w]
  BY <1>1
<1>5. /\ \A n \in Messages : n # m => obligation'[n] = obligation[n] /\ cycle'[n] = cycle[n]
      /\ obligation'[m] = IF cycle'[m] = "mandatory" THEN "PENDING" ELSE "none"
  BY <1>1, <1>3 DEF TypeOK
<1>6. \A n \in Messages : turns'[n] = IF n \in reduced' THEN 1 ELSE 0
  BY <1>2, <1>3 DEF IInv, IngressInv, TypeOK
<1>7. AnswerInv'
  <2> SUFFICES ASSUME NEW n \in Messages
               PROVE  /\ n \notin reduced' => /\ work'[LLM(n)] = "none" /\ work'[Embed(n)] = "none"
                                              /\ cycle'[n] = "none" /\ obligation'[n] = "none"
                      /\ replies'[n] <= 1
                      /\ work'[LLM(n)] # "COMPLETED" => replies'[n] = 0
                      /\ cycle'[n] = "mandatory" => (obligation'[n] = "SATISFIED" <=> replies'[n] = 1)
                      /\ cycle'[n] = "mandatory" <=> obligation'[n] # "none"
    BY DEF AnswerInv
  <2>1. CASE n = m
    BY <2>1, <1>2, <1>3, <1>5
  <2>2. CASE n # m
    <3>1. work'[LLM(n)] = work[LLM(n)] /\ work'[Embed(n)] = work[Embed(n)]
      BY <2>2, <1>4
    <3> QED BY <2>2, <3>1, <1>2, <1>5 DEF IInv, AnswerInv
  <2> QED BY <2>1, <2>2
<1> QED BY <1>2, <1>3, <1>4, <1>5, <1>6, <1>7

(* What reducing a worker result does to them, when the invariant holds of   *)
(* the result: the item is completed or stays failed, the answer and the     *)
(* obligation are settled once.                                             *)
LEMMA LLMStep ==
  ASSUME TypeOK, IInv, NEW m \in Messages, NEW o \in Outcomes \cup {"none"},
         work[LLM(m)] = IF o = "error" THEN "FAILED_TERMINAL" ELSE "RUNNING",
         obligation[m] \in {"none", "PENDING"},
         ReduceLLM(m, o)
  PROVE  /\ stamp' = stamp /\ reduced' = reduced /\ turns' = turns /\ todo' = {}
         /\ AnswerInv'
         /\ work'[LLM(m)] \in {"COMPLETED", "FAILED_TERMINAL"}
         /\ work[LLM(m)] = "FAILED_TERMINAL" => work'[LLM(m)] = "FAILED_TERMINAL"
         /\ \A w \in Work : w # LLM(m) => work'[w] = work[w]
         /\ \A n \in Messages : n # m => obligation'[n] = obligation[n]
<1> USE WorkKeys
<1>1. /\ stamp' = stamp /\ reduced' = reduced /\ turns' = turns /\ todo' = {}
      /\ cycle' = cycle
  BY DEF ReduceLLM
<1>2. work[LLM(m)] \notin {"none", "COMPLETED"}
  OBVIOUS
<1>3. /\ work' = [work EXCEPT ![LLM(m)] = AfterLLMResult(m, o)]
      /\ obligation' = [obligation EXCEPT ![m] = Resolve(m, o)]
  BY <1>2 DEF ReduceLLM
<1>4. \E gone \in BOOLEAN :
        replies' = IF Speaks(m, o, gone) THEN [replies EXCEPT ![m] = @ + 1] ELSE replies
  BY <1>2 DEF ReduceLLM
<1>5. /\ \/ replies' = replies
         \/ o = "speak" /\ replies' = [replies EXCEPT ![m] = @ + 1]
      /\ (o = "speak" /\ cycle[m] = "mandatory") => replies' = [replies EXCEPT ![m] = @ + 1]
  <2>1. PICK gone \in BOOLEAN :
          replies' = IF Speaks(m, o, gone) THEN [replies EXCEPT ![m] = @ + 1] ELSE replies
    BY <1>4
  <2>2. CASE Speaks(m, o, gone)
    <3>1. o = "speak"
      BY <2>2 DEF Speaks
    <3> QED BY <2>1, <2>2, <3>1
  <2>3. CASE ~Speaks(m, o, gone)
    <3>1. ~(o = "speak" /\ cycle[m] = "mandatory")
      <4> SUFFICES ASSUME o = "speak", cycle[m] = "mandatory" PROVE FALSE
        OBVIOUS
      <4>1. cycle[m] # "reactive"
        OBVIOUS
      <4> QED BY <2>3, <4>1 DEF Speaks
    <3> QED BY <2>1, <2>3, <3>1
  <2> QED BY <2>2, <2>3
<1>6. /\ work'[LLM(m)] = IF o = "error" THEN "FAILED_TERMINAL" ELSE "COMPLETED"
      /\ \A w \in Work : w # LLM(m) => work'[w] = work[w]
      /\ \A n \in Messages : n # m => obligation'[n] = obligation[n]
      /\ obligation'[m] = Resolve(m, o)
  BY <1>3 DEF AfterLLMResult, TypeOK
<1>7. m \in reduced /\ replies[m] = 0
  BY DEF IInv, AnswerInv
<1>8. /\ \A n \in Messages : n # m => replies'[n] = replies[n]
      /\ replies'[m] \in {0, 1}
      /\ replies'[m] = 1 => o = "speak"
      /\ (o = "speak" /\ cycle[m] = "mandatory") => replies'[m] = 1
  <2>1. replies \in [Messages -> Nat]
    BY DEF TypeOK
  <2> QED BY <1>5, <1>7, <2>1
<1>9. AnswerInv'
  <2> SUFFICES ASSUME NEW n \in Messages
               PROVE  /\ n \notin reduced' => /\ work'[LLM(n)] = "none" /\ work'[Embed(n)] = "none"
                                              /\ cycle'[n] = "none" /\ obligation'[n] = "none"
                      /\ replies'[n] <= 1
                      /\ work'[LLM(n)] # "COMPLETED" => replies'[n] = 0
                      /\ cycle'[n] = "mandatory" => (obligation'[n] = "SATISFIED" <=> replies'[n] = 1)
                      /\ cycle'[n] = "mandatory" <=> obligation'[n] # "none"
    BY DEF AnswerInv
  <2>1. CASE n = m
    BY <2>1, <1>1, <1>6, <1>7, <1>8 DEF Resolve, IInv, AnswerInv
  <2>2. CASE n # m
    <3>1. work'[LLM(n)] = work[LLM(n)] /\ work'[Embed(n)] = work[Embed(n)]
      BY <2>2, <1>6
    <3> QED BY <2>2, <3>1, <1>1, <1>6, <1>8 DEF IInv, AnswerInv
  <2> QED BY <2>1, <2>2
<1> QED BY <1>1, <1>6, <1>9

(* Embedding results leave answers and obligations alone.                    *)
LEMMA EmbeddingStep ==
  ASSUME TypeOK, IInv, NEW m \in Messages, work[Embed(m)] = "RUNNING",
         ReduceEmbedding(m)
  PROVE  /\ stamp' = stamp /\ reduced' = reduced /\ turns' = turns /\ todo' = {}
         /\ AnswerInv'
         /\ obligation' = obligation
         /\ \A w \in Work : w # Embed(m) => work'[w] = work[w]
<1> USE WorkKeys
<1>1. /\ stamp' = stamp /\ reduced' = reduced /\ turns' = turns /\ todo' = {}
      /\ cycle' = cycle /\ obligation' = obligation /\ replies' = replies
      /\ work' = [work EXCEPT ![Embed(m)] = "COMPLETED"]
  BY DEF ReduceEmbedding
<1>2. \A w \in Work : w # Embed(m) => work'[w] = work[w]
  BY <1>1 DEF TypeOK
<1>3. m \in reduced
  BY DEF IInv, AnswerInv
<1>4. AnswerInv'
  <2> SUFFICES ASSUME NEW n \in Messages
               PROVE  /\ n \notin reduced => /\ work'[LLM(n)] = "none" /\ work'[Embed(n)] = "none"
                                             /\ cycle[n] = "none" /\ obligation[n] = "none"
                      /\ replies[n] <= 1
                      /\ work'[LLM(n)] # "COMPLETED" => replies[n] = 0
                      /\ cycle[n] = "mandatory" => (obligation[n] = "SATISFIED" <=> replies[n] = 1)
                      /\ cycle[n] = "mandatory" <=> obligation[n] # "none"
    BY <1>1 DEF AnswerInv
  <2>1. work'[LLM(n)] = work[LLM(n)]
    BY <1>2
  <2>2. n \notin reduced => work'[Embed(n)] = work[Embed(n)]
    BY <1>2, <1>3
  <2> QED BY <2>1, <2>2 DEF IInv, AnswerInv
<1> QED BY <1>1, <1>2, <1>4

(* Moving live work between live states disturbs no answer.                  *)
LEMMA AnswerKept ==
  ASSUME AnswerInv, UNCHANGED <<reduced, cycle, obligation, replies>>,
         \A w \in Work : \/ work'[w] = work[w]
                         \/ work[w] \notin {"none", "COMPLETED"} /\ work'[w] # "COMPLETED"
  PROVE  AnswerInv'
BY WorkKeys DEF AnswerInv

(* The queue holds events.                                                  *)
LEMMA QueueEvents == ASSUME TypeOK PROVE Contents(queue) \subseteq Event
BY DEF Contents, TypeOK

(* A queued worker result belongs to a work item.                            *)
LEMMA ResultKey ==
  ASSUME NEW e \in Event, e.type # "human"
  PROVE  /\ e.msg \in Messages
         /\ <<e.msg, e.type>> \in Work
         /\ e.type \in {"llm", "embed"}
         /\ e.outcome \in Outcomes \cup {"none"}
BY DEF Event, Work, Kinds

(* Reducing the head of the queue, in the loop or in the shutdown flush,     *)
(* keeps the invariants.                                                    *)
LEMMA ReduceHeadStep ==
  ASSUME TypeOK, IInv, phase \in {"running", "flushing"},
         todo = {}, queue # <<>>, Reduce(Head(queue)), queue' = Tail(queue),
         phase = "flushing" => Head(queue).type # "human",
         UNCHANGED <<phase, task, replay, plan>>
  PROVE  IInv'
<1> DEFINE e == Head(queue)
           m == e.msg
<1> USE WorkKeys
<1>1. /\ e \in Event /\ e \in Contents(queue)
      /\ Contents(queue') \subseteq Contents(queue)
      /\ Keyed(queue')
      /\ \A x \in Contents(queue') : x.msg # e.msg \/ x.type # e.type
  BY TailQueue DEF TypeOK, IInv, IngressInv
<1>2. m \in Messages
  BY <1>1 DEF Event
<1>3. Contents(queue) \subseteq Event
  BY QueueEvents
<1>4. phase = phase' /\ task' = task /\ replay' = {} /\ plan' = {} /\ plan = {}
  BY DEF IInv, PhaseInv
<1>q. \A x \in Contents(queue') : x \in Contents(queue) /\ x \in Event
  BY <1>1, <1>3
<1> HIDE DEF e
<1>5. CASE e.type = "human" /\ ReduceHuman(m)
  <2>1. stamp[m] > 0 /\ m \notin reduced
    BY <1>1, <1>5 DEF IInv, IngressInv
  <2>2. /\ stamp' = stamp /\ reduced' = reduced \cup {m}
        /\ \A n \in Messages : turns'[n] = IF n \in reduced' THEN 1 ELSE 0
        /\ AnswerInv'
        /\ work[LLM(m)] = "none" /\ work[Embed(m)] = "none"
        /\ todo' \subseteq {LLM(m), Embed(m)}
        /\ \A w \in todo' : work'[w] = "PENDING"
        /\ \A w \in Work : work'[w] # work[w] => w \in todo'
        /\ \A n \in Messages : n # m => obligation'[n] = obligation[n]
        /\ obligation'[m] \in {"none", "PENDING"}
    BY <1>2, <1>5, <2>1, HumanStep
  <2>3. PhaseInv'
    <3>1. phase = "running"
      BY <1>5 DEF e
    <3> QED BY <1>4, <3>1 DEF PhaseInv
  <2>4. IngressInv'
    BY <1>1, <1>2, <1>4, <1>5, <1>q, <2>1, <2>2 DEF IInv, IngressInv, Accepted
  <2>5. OwnerInv'
    <3>1. \A w \in todo' \cup plan' : work'[w] = "PENDING"
      BY <1>4, <2>2
    <3>2. \A w \in Work : task'[w] > 0 => work'[w] = "RUNNING"
      <4> SUFFICES ASSUME NEW w \in Work, task[w] > 0 PROVE work'[w] = "RUNNING"
        BY <1>4
      <4>1. work[w] = "RUNNING"
        BY DEF IInv, OwnerInv
      <4>2. w \notin todo'
        BY <2>2, <4>1
      <4> QED BY <2>2, <4>1, <4>2
    <3>3. ASSUME NEW x \in Contents(queue'), x.type # "human"
          PROVE  /\ work'[<<x.msg, x.type>>] = IF x.outcome = "error" THEN "FAILED_TERMINAL" ELSE "RUNNING"
                 /\ task'[<<x.msg, x.type>>] = 0
                 /\ x.type = "llm" => obligation'[x.msg] \in {"none", "PENDING"}
                 /\ x.type = "embed" => x.outcome # "error"
      <4>1. x \in Contents(queue) /\ x \in Event
        BY <1>q, <3>3
      <4>2. /\ x.msg \in Messages /\ <<x.msg, x.type>> \in Work
            /\ x.type \in {"llm", "embed"}
        BY <4>1, <3>3, ResultKey
      <4>3. /\ work[<<x.msg, x.type>>] = IF x.outcome = "error" THEN "FAILED_TERMINAL" ELSE "RUNNING"
            /\ task[<<x.msg, x.type>>] = 0
            /\ x.type = "llm" => obligation[x.msg] \in {"none", "PENDING"}
            /\ x.type = "embed" => x.outcome # "error"
        BY <4>1, <3>3 DEF IInv, OwnerInv
      <4>4. <<x.msg, x.type>> \notin todo'
        BY <2>2, <4>3
      <4> QED BY <1>4, <2>2, <4>2, <4>3, <4>4
    <3>4. ASSUME NEW n \in Messages, obligation'[n] \in {"SATISFIED", "FAILED"}
          PROVE  work'[LLM(n)] \in {"COMPLETED", "FAILED_TERMINAL"}
      <4>1. n # m /\ obligation[n] \in {"SATISFIED", "FAILED"}
        BY <2>2, <3>4
      <4>2. work[LLM(n)] \in {"COMPLETED", "FAILED_TERMINAL"}
        BY <4>1 DEF IInv, OwnerInv
      <4>3. LLM(n) \notin todo'
        BY <2>2, <4>2
      <4> QED BY <2>2, <4>2, <4>3
    <3> QED BY <1>4, <3>1, <3>2, <3>3, <3>4 DEF OwnerInv
  <2> QED BY <2>2, <2>3, <2>4, <2>5 DEF IInv
<1>6. CASE e.type # "human" /\ (ReduceLLM(m, e.outcome) \/ ReduceEmbedding(m))
           /\ (e.type = "llm" => ReduceLLM(m, e.outcome))
           /\ (e.type = "embed" => ReduceEmbedding(m))
  <2> DEFINE k == <<m, e.type>>
  <2>1. /\ k \in Work /\ e.type \in {"llm", "embed"}
        /\ e.outcome \in Outcomes \cup {"none"}
    BY <1>1, <1>6, ResultKey
  <2>2. /\ work[k] = IF e.outcome = "error" THEN "FAILED_TERMINAL" ELSE "RUNNING"
        /\ task[k] = 0
        /\ e.type = "llm" => obligation[m] \in {"none", "PENDING"}
        /\ e.type = "embed" => e.outcome # "error"
    BY <1>1, <1>6 DEF IInv, OwnerInv
  <2>3. /\ stamp' = stamp /\ reduced' = reduced /\ turns' = turns /\ todo' = {}
        /\ AnswerInv'
        /\ \A w \in Work : w # k => work'[w] = work[w]
        /\ \A n \in Messages : (n # m \/ e.type = "embed") => obligation'[n] = obligation[n]
        /\ e.type = "llm" => work'[LLM(m)] \in {"COMPLETED", "FAILED_TERMINAL"}
    <3>1. CASE e.type = "llm"
      <4>1. k = LLM(m)
        BY <1>2, <3>1
      <4> QED BY <1>2, <1>6, <2>1, <2>2, <3>1, <4>1, LLMStep
    <3>2. CASE e.type = "embed"
      <4>1. k = Embed(m) /\ work[Embed(m)] = "RUNNING"
        BY <1>2, <2>2, <3>2
      <4> QED BY <1>2, <1>6, <2>1, <3>2, <4>1, EmbeddingStep
    <3> QED BY <2>1, <3>1, <3>2
  <2>4. PhaseInv'
    <3>1. phase' \notin {"down", "starting"}
      BY <1>4
    <3>2. phase' = "flushing" => \A w \in Work : task'[w] = 0
      BY <1>4 DEF IInv, PhaseInv
    <3> QED BY <1>4, <2>3, <3>1, <3>2 DEF PhaseInv
  <2>5. IngressInv'
    BY <1>1, <1>4, <1>q, <2>3 DEF IInv, IngressInv, Accepted
  <2>6. OwnerInv'
    <3>1. \A w \in Work : task'[w] > 0 => work'[w] = "RUNNING"
      <4> SUFFICES ASSUME NEW w \in Work, task[w] > 0 PROVE work'[w] = "RUNNING"
        BY <1>4
      <4>1. work[w] = "RUNNING" /\ w # k
        BY <2>2 DEF IInv, OwnerInv
      <4> QED BY <2>3, <4>1
    <3>2. ASSUME NEW x \in Contents(queue'), x.type # "human"
          PROVE  /\ work'[<<x.msg, x.type>>] = IF x.outcome = "error" THEN "FAILED_TERMINAL" ELSE "RUNNING"
                 /\ task'[<<x.msg, x.type>>] = 0
                 /\ x.type = "llm" => obligation'[x.msg] \in {"none", "PENDING"}
                 /\ x.type = "embed" => x.outcome # "error"
      <4>1. x \in Contents(queue) /\ x \in Event
        BY <1>q, <3>2
      <4>2. /\ x.msg \in Messages /\ <<x.msg, x.type>> \in Work
            /\ x.type \in {"llm", "embed"}
        BY <4>1, <3>2, ResultKey
      <4>3. /\ work[<<x.msg, x.type>>] = IF x.outcome = "error" THEN "FAILED_TERMINAL" ELSE "RUNNING"
            /\ task[<<x.msg, x.type>>] = 0
            /\ x.type = "llm" => obligation[x.msg] \in {"none", "PENDING"}
            /\ x.type = "embed" => x.outcome # "error"
        BY <4>1, <3>2 DEF IInv, OwnerInv
      <4>4. x.msg # m \/ x.type # e.type
        BY <1>1, <3>2
      <4>5. <<x.msg, x.type>> # k
        BY <4>4
      <4>6. x.type = "llm" => x.msg # m \/ e.type = "embed"
        BY <2>1, <4>4
      <4> QED BY <1>4, <2>3, <4>2, <4>3, <4>5, <4>6
    <3>3. ASSUME NEW n \in Messages, obligation'[n] \in {"SATISFIED", "FAILED"}
          PROVE  work'[LLM(n)] \in {"COMPLETED", "FAILED_TERMINAL"}
      <4>1. CASE n # m \/ e.type = "embed"
        <5>1. work[LLM(n)] \in {"COMPLETED", "FAILED_TERMINAL"}
          BY <2>3, <3>3, <4>1 DEF IInv, OwnerInv
        <5>2. LLM(n) # k
          BY <4>1
        <5> QED BY <2>3, <5>1, <5>2
      <4>2. CASE n = m /\ e.type = "llm"
        BY <2>3, <4>2
      <4> QED BY <2>1, <4>1, <4>2
    <3> QED BY <1>4, <2>3, <3>1, <3>2, <3>3 DEF OwnerInv
  <2> QED BY <2>3, <2>4, <2>5, <2>6 DEF IInv
<1>7. \/ e.type = "human" /\ ReduceHuman(m)
      \/ e.type = "llm" /\ ReduceLLM(m, e.outcome)
      \/ e.type = "embed" /\ ReduceEmbedding(m)
  BY DEF Reduce, e
<1> QED BY <1>5, <1>6, <1>7

(* A step that only takes entries off the queue and leaves the records alone *)
(* keeps the record invariants.                                             *)
LEMMA RecordsKept ==
  ASSUME TypeOK, IInv, UNCHANGED durable, queue' \in Seq(Event), Keyed(queue'),
         Contents(queue') \subseteq Contents(queue),
         \A w \in Work : task'[w] \in {task[w], 0},
         todo' \cup plan' \subseteq todo \cup plan, todo' \cap plan' = {},
         replay' \subseteq replay
  PROVE  IngressInv' /\ AnswerInv' /\ OwnerInv'
<1>1. IngressInv'
  BY DEF durable, IInv, IngressInv, Accepted
<1>2. AnswerInv'
  BY DEF durable, IInv, AnswerInv
<1>3. OwnerInv'
  <2>1. \A w \in Work : task'[w] > 0 => work'[w] = "RUNNING"
    <3> SUFFICES ASSUME NEW w \in Work, task'[w] > 0 PROVE work[w] = "RUNNING"
      BY DEF durable
    <3>1. task'[w] = task[w] \/ task'[w] = 0
      OBVIOUS
    <3>2. task[w] > 0
      BY <3>1
    <3> QED BY <3>2 DEF IInv, OwnerInv
  <2>2. ASSUME NEW x \in Contents(queue'), x.type # "human"
        PROVE  task'[<<x.msg, x.type>>] = 0
    <3>1. x \in Contents(queue) /\ x \in Event
      BY <2>2, QueueEvents
    <3>2. <<x.msg, x.type>> \in Work
      BY <2>2, <3>1, ResultKey
    <3>3. task[<<x.msg, x.type>>] = 0
      BY <2>2, <3>1 DEF IInv, OwnerInv
    <3> QED BY <3>2, <3>3
  <2> QED BY <2>1, <2>2 DEF durable, IInv, OwnerInv
<1> QED BY <1>1, <1>2, <1>3

(* A worker task ends and its result joins the queue; `status' is the status *)
(* the item is left in.                                                     *)
LEMMA ResultQueued ==
  ASSUME TypeOK, IInv, NEW w \in Work, task[w] > 0, phase \in {"running", "stopping"},
         NEW e \in Event, e.msg = w[1], e.type = w[2], queue' = Append(queue, e),
         e.type = "embed" => e.outcome # "error",
         work' = [work EXCEPT ![w] = IF e.outcome = "error" THEN "FAILED_TERMINAL" ELSE "RUNNING"],
         task' = [task EXCEPT ![w] = 0],
         UNCHANGED <<stamp, reduced, turns, cycle, obligation, replies, phase,
                     todo, replay, plan>>
  PROVE  IInv'
<1> USE WorkKeys
<1>1. w = <<w[1], w[2]>> /\ w[1] \in Messages /\ w[2] \in {"llm", "embed"}
  BY DEF Work, Kinds
<1>2. work[w] = "RUNNING"
  BY DEF IInv, OwnerInv
<1>3. /\ work'[w] = IF e.outcome = "error" THEN "FAILED_TERMINAL" ELSE "RUNNING"
      /\ task'[w] = 0
      /\ \A v \in Work : v # w => work'[v] = work[v] /\ task'[v] = task[v]
  BY DEF TypeOK
<1>4. \A x \in Contents(queue) : x.msg # e.msg \/ x.type # e.type
  <2> SUFFICES ASSUME NEW x \in Contents(queue), x.msg = e.msg, x.type = e.type PROVE FALSE
    OBVIOUS
  <2>1. x.type # "human" /\ <<x.msg, x.type>> = w
    BY <1>1
  <2>2. task[w] = 0
    BY <2>1 DEF IInv, OwnerInv
  <2> QED BY <2>2
<1>5. /\ Keyed(queue')
      /\ Contents(queue') = Contents(queue) \cup {e}
  BY <1>4, AppendQueue DEF TypeOK, IInv, IngressInv
<1>6. PhaseInv'
  BY DEF IInv, PhaseInv
<1>7. IngressInv'
  BY <1>1, <1>5 DEF IInv, IngressInv, Accepted
<1>8. AnswerInv'
  BY <1>2, <1>3, AnswerKept DEF IInv
<1>9. OwnerInv'
  <2>1. \A v \in todo \cup plan : v # w /\ v \in Work
    BY <1>2 DEF IInv, OwnerInv, TypeOK
  <2>2. \A v \in todo' \cup plan' : work'[v] = "PENDING"
    BY <1>3, <2>1 DEF IInv, OwnerInv
  <2>3. \A v \in Work : task'[v] > 0 => work'[v] = "RUNNING"
    <3> SUFFICES ASSUME NEW v \in Work, task'[v] > 0 PROVE work'[v] = "RUNNING"
      OBVIOUS
    <3>1. v # w
      BY <1>3
    <3> QED BY <1>3, <3>1 DEF IInv, OwnerInv
  <2>4. ASSUME NEW x \in Contents(queue'), x.type # "human"
        PROVE  /\ work'[<<x.msg, x.type>>] = IF x.outcome = "error" THEN "FAILED_TERMINAL" ELSE "RUNNING"
               /\ task'[<<x.msg, x.type>>] = 0
               /\ x.type = "llm" => obligation'[x.msg] \in {"none", "PENDING"}
               /\ x.type = "embed" => x.outcome # "error"
    <3>1. CASE x = e
      <4>1. <<x.msg, x.type>> = w
        BY <1>1, <3>1
      <4>2. x.type = "llm" => obligation[x.msg] \in {"none", "PENDING"}
        <5> SUFFICES ASSUME x.type = "llm", obligation[x.msg] \notin {"none", "PENDING"}
                     PROVE  FALSE
          OBVIOUS
        <5>1. w = LLM(x.msg) /\ x.msg \in Messages
          BY <1>1, <3>1
        <5>2. obligation[x.msg] \in {"SATISFIED", "FAILED"}
          BY <5>1 DEF TypeOK, ObligationStatus
        <5> QED BY <1>2, <5>1, <5>2 DEF IInv, OwnerInv
      <4> QED BY <1>3, <3>1, <4>1, <4>2
    <3>2. CASE x \in Contents(queue)
      <4>1. x \in Event
        BY <3>2 DEF Contents, TypeOK
      <4>2. <<x.msg, x.type>> \in Work
        BY <2>4, <4>1, ResultKey
      <4>3. <<x.msg, x.type>> # w
        BY <1>1, <1>4, <3>2
      <4> QED BY <1>3, <2>4, <3>2, <4>2, <4>3 DEF IInv, OwnerInv
    <3> QED BY <1>5, <3>1, <3>2
  <2>5. ASSUME NEW n \in Messages, obligation'[n] \in {"SATISFIED", "FAILED"}
        PROVE  work'[LLM(n)] \in {"COMPLETED", "FAILED_TERMINAL"}
    <3>1. work[LLM(n)] \in {"COMPLETED", "FAILED_TERMINAL"}
      BY <2>5 DEF IInv, OwnerInv
    <3>2. LLM(n) # w
      BY <1>2, <3>1
    <3> QED BY <1>3, <3>1, <3>2
  <2> QED BY <2>2, <2>3, <2>4, <2>5 DEF IInv, OwnerInv
<1> QED BY <1>6, <1>7, <1>8, <1>9 DEF IInv

(* A lease: an item that is PENDING, or RUNNING in its own task, becomes     *)
(* RUNNING in a task.                                                       *)
LEMMA Leased ==
  ASSUME TypeOK, IInv, NEW w \in Work, NEW n \in Nat \ {0},
         w \in todo \/ (task[w] > 0 /\ w \notin todo),
         phase \in {"starting", "running", "stopping"},
         work' = [work EXCEPT ![w] = "RUNNING"], task' = [task EXCEPT ![w] = n],
         todo' = todo \ {w},
         UNCHANGED <<stamp, reduced, turns, cycle, obligation, replies, phase,
                     queue, replay, plan>>
  PROVE  IInv'
<1> USE WorkKeys
<1>1. work[w] \in {"PENDING", "RUNNING"} /\ (task[w] = 0 => w \in todo)
  BY DEF IInv, OwnerInv
<1>2. /\ work'[w] = "RUNNING" /\ task'[w] = n
      /\ \A v \in Work : v # w => work'[v] = work[v] /\ task'[v] = task[v]
  BY DEF TypeOK
<1>3. w \notin plan
  BY DEF IInv, OwnerInv
<1>4. PhaseInv'
  BY DEF IInv, PhaseInv
<1>5. IngressInv'
  BY DEF IInv, IngressInv, Accepted
<1>6. AnswerInv'
  BY <1>1, <1>2, AnswerKept DEF IInv
<1>7. OwnerInv'
  <2>1. \A v \in todo' \cup plan' : work'[v] = "PENDING"
    BY <1>2, <1>3 DEF IInv, OwnerInv, TypeOK
  <2>2. \A v \in Work : task'[v] > 0 => work'[v] = "RUNNING"
    BY <1>2 DEF IInv, OwnerInv
  <2>3. ASSUME NEW x \in Contents(queue'), x.type # "human"
        PROVE  /\ work'[<<x.msg, x.type>>] = IF x.outcome = "error" THEN "FAILED_TERMINAL" ELSE "RUNNING"
               /\ task'[<<x.msg, x.type>>] = 0
               /\ x.type = "llm" => obligation'[x.msg] \in {"none", "PENDING"}
               /\ x.type = "embed" => x.outcome # "error"
    <3>1. x \in Event /\ x \in Contents(queue)
      BY DEF Contents, TypeOK
    <3>2. <<x.msg, x.type>> \in Work
      BY <2>3, <3>1, ResultKey
    <3>3. /\ work[<<x.msg, x.type>>] = IF x.outcome = "error" THEN "FAILED_TERMINAL" ELSE "RUNNING"
          /\ task[<<x.msg, x.type>>] = 0
          /\ x.type = "llm" => obligation[x.msg] \in {"none", "PENDING"}
          /\ x.type = "embed" => x.outcome # "error"
      BY <2>3, <3>1 DEF IInv, OwnerInv
    <3>4. <<x.msg, x.type>> # w
      <4>1. work[<<x.msg, x.type>>] # "PENDING"
        BY <3>3
      <4>2. w \in todo => work[w] = "PENDING"
        BY DEF IInv, OwnerInv
      <4> QED BY <1>1, <3>3, <4>1, <4>2
    <3> QED BY <1>2, <3>2, <3>3, <3>4
  <2>4. ASSUME NEW k \in Messages, obligation'[k] \in {"SATISFIED", "FAILED"}
        PROVE  work'[LLM(k)] \in {"COMPLETED", "FAILED_TERMINAL"}
    <3>1. work[LLM(k)] \in {"COMPLETED", "FAILED_TERMINAL"}
      BY <2>4 DEF IInv, OwnerInv
    <3> QED BY <1>1, <1>2, <3>1
  <2> QED BY <2>1, <2>2, <2>3, <2>4 DEF IInv, OwnerInv
<1> QED BY <1>4, <1>5, <1>6, <1>7 DEF IInv

(* Every step keeps the invariant.                                           *)
LEMMA InvStep == TypeOK /\ IInv /\ [Next]_vars => IInv'
<1> SUFFICES ASSUME TypeOK, IInv, [Next]_vars PROVE IInv'
  OBVIOUS
<1> USE WorkKeys
<1>1. CASE UNCHANGED vars
  BY <1>1 DEF vars, IInv, PhaseInv, IngressInv, AnswerInv, OwnerInv, Accepted
<1>2. ASSUME NEW m \in Messages, Ingest(m) PROVE IInv'
  <2>1. /\ phase \in {"running", "stopping"}
        /\ UNCHANGED <<reduced, turns, cycle, work, obligation, replies, phase,
                       task, todo, replay, plan>>
    BY <1>2 DEF Ingest
  <2>2. CASE ~Newly(m)
    <3>1. UNCHANGED <<stamp, queue>>
      BY <1>2, <2>2 DEF Ingest
    <3> QED BY <2>1, <3>1 DEF IInv, PhaseInv, IngressInv, AnswerInv, OwnerInv, Accepted
  <2>3. CASE Newly(m)
    <3> DEFINE e == HumanMessage(m)
    <3>1. /\ stamp' = [stamp EXCEPT ![m] = clock + 1]
          /\ queue' = Append(queue, e)
          /\ stamp[m] = 0
      BY <1>2, <2>3 DEF Ingest, Newly
    <3>2. e \in Event /\ e.msg = m /\ e.type = "human"
      BY EventTypes DEF HumanMessage
    <3>3. \A x \in Contents(queue) : x.type = "human" => x.msg # m
      BY <3>1 DEF IInv, IngressInv
    <3> HIDE DEF e
    <3>4. Keyed(queue') /\ Contents(queue') = Contents(queue) \cup {e}
      BY <3>1, <3>2, <3>3, AppendQueue DEF TypeOK, IInv, IngressInv
    <3>5. m \notin reduced /\ m \notin replay
      BY <3>1 DEF IInv, IngressInv, Accepted
    <3>6. \A n \in Messages : stamp[n] > 0 => stamp'[n] > 0
      BY <3>1 DEF TypeOK
    <3>7. stamp'[m] > 0
      BY <3>1 DEF TypeOK
    <3>8. IngressInv'
      <4>1. (reduced \cup replay \subseteq Accepted)'
        BY <2>1, <3>6 DEF IInv, IngressInv, Accepted
      <4>2. ASSUME NEW x \in Contents(queue'), x.type = "human"
            PROVE  stamp'[x.msg] > 0 /\ x.msg \notin reduced'
        <5>1. CASE x = e
          BY <2>1, <3>2, <3>5, <3>7, <5>1
        <5>2. CASE x \in Contents(queue)
          <6>1. x.msg \in Messages
            BY <5>2, QueueEvents DEF Event
          <6> QED BY <2>1, <3>6, <4>2, <5>2, <6>1 DEF IInv, IngressInv
        <5> QED BY <3>4, <5>1, <5>2
      <4> QED BY <2>1, <3>4, <4>1, <4>2 DEF IInv, IngressInv
    <3>9. PhaseInv' /\ AnswerInv' 
      BY <2>1 DEF IInv, PhaseInv, AnswerInv
    <3>10. OwnerInv'
      BY <2>1, <3>2, <3>4 DEF IInv, OwnerInv
    <3> QED BY <3>8, <3>9, <3>10 DEF IInv
  <2> QED BY <2>2, <2>3
<1>3. CASE ReduceNext
  BY <1>3, ReduceHeadStep DEF ReduceNext
<1>4. CASE ReduceRaises
  <2>1. /\ queue' \in Seq(Event) /\ Keyed(queue')
        /\ Contents(queue') \subseteq Contents(queue)
    BY <1>4, TailQueue DEF ReduceRaises, TypeOK, IInv, IngressInv
  <2>2. /\ UNCHANGED durable /\ UNCHANGED <<phase, task, todo, replay, plan>>
        /\ phase = "running"
    BY <1>4 DEF ReduceRaises
  <2>3. PhaseInv'
    BY <2>2 DEF IInv, PhaseInv
  <2>4. todo' \cap plan' = {}
    BY <2>2 DEF IInv, OwnerInv
  <2>5. IngressInv' /\ AnswerInv' /\ OwnerInv'
    BY <2>1, <2>2, <2>4, RecordsKept
  <2> QED BY <2>3, <2>5 DEF IInv
<1>5. CASE DispatchNext
  <2>1. PICK w \in todo : /\ work' = [work EXCEPT ![w] = "RUNNING"]
                          /\ task' = [task EXCEPT ![w] = 1]
                          /\ todo' = todo \ {w}
    BY <1>5 DEF DispatchNext
  <2>2. w \in Work /\ 1 \in Nat \ {0}
    BY DEF TypeOK
  <2>3. phase \in {"starting", "running", "stopping"}
    BY DEF TypeOK, Phase, IInv, PhaseInv
  <2> QED BY <1>5, <2>1, <2>2, <2>3, Leased DEF DispatchNext
<1>6. ASSUME NEW w \in Work, WorkerReturns(w) PROVE IInv'
  <2>1. /\ task[w] > 0 /\ task' = [task EXCEPT ![w] = 0]
        /\ phase \in {"running", "stopping"}
        /\ UNCHANGED <<stamp, reduced, turns, cycle, work, obligation, replies,
                       phase, todo, replay, plan>>
    BY <1>6 DEF WorkerReturns, WorkersRun, durable
  <2>2. w[1] \in Messages /\ Decisions \subseteq Outcomes
    BY DEF Work, Outcomes
  <2>3. PICK e \in Event : /\ e.msg = w[1] /\ e.type = w[2] /\ e.outcome # "error"
                           /\ queue' = Append(queue, e)
    <3>1. CASE w[2] = "llm" /\ \E o \in Decisions : queue' = Append(queue, LLMResult(w[1], o))
      <4>1. PICK o \in Decisions : queue' = Append(queue, LLMResult(w[1], o))
        BY <3>1
      <4>2. /\ LLMResult(w[1], o) \in Event
            /\ LLMResult(w[1], o).msg = w[1] /\ LLMResult(w[1], o).type = w[2]
            /\ LLMResult(w[1], o).outcome # "error"
        BY <2>2, <3>1, EventTypes DEF LLMResult, Decisions
      <4> QED BY <4>1, <4>2
    <3>2. CASE w[2] = "embed" /\ queue' = Append(queue, EmbeddingResult(w[1]))
      <4>1. /\ EmbeddingResult(w[1]) \in Event
            /\ EmbeddingResult(w[1]).msg = w[1] /\ EmbeddingResult(w[1]).type = w[2]
            /\ EmbeddingResult(w[1]).outcome # "error"
        BY <2>2, <3>2, EventTypes DEF EmbeddingResult
      <4> QED BY <3>2, <4>1
    <3> QED BY <1>6, <3>1, <3>2 DEF WorkerReturns
  <2>4. work[w] = "RUNNING"
    BY <2>1 DEF IInv, OwnerInv
  <2>5. work' = [work EXCEPT ![w] = IF e.outcome = "error" THEN "FAILED_TERMINAL" ELSE "RUNNING"]
    BY <2>1, <2>3, <2>4 DEF TypeOK
  <2> QED BY <2>1, <2>3, <2>5, ResultQueued
<1>7. ASSUME NEW w \in Work, RetryAttempt(w) PROVE IInv'
  <2>1. task[w] + 1 \in Nat \ {0} /\ task' = [task EXCEPT ![w] = task[w] + 1]
    BY <1>7, AttemptsAssumption DEF RetryAttempt, TypeOK
  <2>2. w \notin todo /\ todo' = todo \ {w}
    BY <1>7 DEF RetryAttempt, WorkersRun
  <2> QED BY <1>7, <2>1, <2>2, Leased DEF RetryAttempt, WorkersRun
<1>8. ASSUME NEW w \in Work, FailTerminal(w) PROVE IInv'
  <2>1. /\ task[w] > 0 /\ task' = [task EXCEPT ![w] = 0]
        /\ work' = [work EXCEPT ![w] = "FAILED_TERMINAL"]
        /\ queue' = Surface(w)
        /\ phase \in {"running", "stopping"}
        /\ UNCHANGED <<stamp, reduced, turns, cycle, obligation, replies,
                       phase, todo, replay, plan>>
    BY <1>8, AttemptsAssumption DEF FailTerminal, WorkersRun
  <2>2. w[1] \in Messages /\ "error" \in Outcomes /\ w[2] \in {"llm", "embed"}
    BY DEF Work, Outcomes, Kinds
  <2>3. CASE w[2] = "llm"
    <3> DEFINE e == LLMResult(w[1], "error")
    <3>1. e \in Event /\ e.msg = w[1] /\ e.type = w[2] /\ e.outcome = "error"
      BY <2>2, <2>3, EventTypes DEF LLMResult
    <3>2. queue' = Append(queue, e)
      BY <2>1, <2>3 DEF Surface
    <3> HIDE DEF e
    <3>3. /\ e.type = "embed" => e.outcome # "error"
          /\ work' = [work EXCEPT ![w] = IF e.outcome = "error" THEN "FAILED_TERMINAL" ELSE "RUNNING"]
      BY <2>1, <2>3, <3>1
    <3> QED BY <2>1, <3>1, <3>2, <3>3, ResultQueued
  <2>4. CASE w[2] = "embed"
    <3>1. queue' = queue /\ w = Embed(w[1])
      BY <2>1, <2>2, <2>4 DEF Surface
    <3>2. work[w] = "RUNNING"
      BY <2>1 DEF IInv, OwnerInv
    <3>3. /\ work'[w] = "FAILED_TERMINAL" /\ task'[w] = 0
          /\ \A v \in Work : v # w => work'[v] = work[v] /\ task'[v] = task[v]
      BY <2>1 DEF TypeOK
    <3>4. PhaseInv' /\ IngressInv'
      BY <2>1, <3>1 DEF IInv, PhaseInv, IngressInv, Accepted
    <3>5. AnswerInv'
      BY <2>1, <3>2, <3>3, AnswerKept DEF IInv
    <3>6. OwnerInv'
      <4>1. \A v \in todo' \cup plan' : work'[v] = "PENDING"
        BY <2>1, <3>2, <3>3 DEF IInv, OwnerInv, TypeOK
      <4>2. \A v \in Work : task'[v] > 0 => work'[v] = "RUNNING"
        <5> SUFFICES ASSUME NEW v \in Work, task'[v] > 0 PROVE work'[v] = "RUNNING"
          OBVIOUS
        <5>1. v # w
          BY <3>3
        <5> QED BY <3>3, <5>1 DEF IInv, OwnerInv
      <4>3. ASSUME NEW x \in Contents(queue'), x.type # "human"
            PROVE  /\ work'[<<x.msg, x.type>>] = IF x.outcome = "error" THEN "FAILED_TERMINAL" ELSE "RUNNING"
                   /\ task'[<<x.msg, x.type>>] = 0
                   /\ x.type = "llm" => obligation'[x.msg] \in {"none", "PENDING"}
                   /\ x.type = "embed" => x.outcome # "error"
        <5>1. x \in Contents(queue) /\ x \in Event
          BY <3>1, <4>3, QueueEvents
        <5>2. <<x.msg, x.type>> \in Work
          BY <4>3, <5>1, ResultKey
        <5>3. /\ work[<<x.msg, x.type>>] = IF x.outcome = "error" THEN "FAILED_TERMINAL" ELSE "RUNNING"
              /\ task[<<x.msg, x.type>>] = 0
              /\ x.type = "llm" => obligation[x.msg] \in {"none", "PENDING"}
              /\ x.type = "embed" => x.outcome # "error"
          BY <4>3, <5>1 DEF IInv, OwnerInv
        <5>4. <<x.msg, x.type>> # w
          BY <2>1, <5>3
        <5> QED BY <2>1, <3>3, <5>2, <5>3, <5>4
      <4>4. \A n \in Messages : work'[LLM(n)] = work[LLM(n)]
        BY <2>2, <3>1, <3>3
      <4> QED BY <2>1, <4>1, <4>2, <4>3, <4>4 DEF IInv, OwnerInv
    <3> QED BY <3>4, <3>5, <3>6 DEF IInv
  <2> QED BY <2>2, <2>3, <2>4
<1>9. CASE Stop \/ FinishDrain \/ Redispatch \/ GoLive
  <2>1. /\ UNCHANGED durable /\ UNCHANGED <<queue, task, replay>>
        /\ todo' \cup plan' \subseteq todo \cup plan /\ todo' \cap plan' = {}
    BY <1>9 DEF Stop, FinishDrain, Redispatch, GoLive, IInv, OwnerInv
  <2>2. queue' \in Seq(Event) /\ Keyed(queue') /\ Contents(queue') \subseteq Contents(queue)
    BY <2>1 DEF TypeOK, IInv, IngressInv
  <2>3. IngressInv' /\ AnswerInv' /\ OwnerInv'
    BY <2>1, <2>2, RecordsKept
  <2>4. PhaseInv'
    <3>1. CASE Stop
      BY <3>1 DEF Stop, IInv, PhaseInv
    <3>2. CASE FinishDrain
      BY <3>2 DEF FinishDrain, Drained, IInv, PhaseInv
    <3>3. CASE Redispatch
      BY <3>3 DEF Redispatch, IInv, PhaseInv
    <3>4. CASE GoLive
      BY <3>4 DEF GoLive, IInv, PhaseInv
    <3> QED BY <1>9, <3>1, <3>2, <3>3, <3>4
  <2> QED BY <2>3, <2>4 DEF IInv
<1>10. CASE FlushNext
  <2>1. phase = "flushing" /\ todo = {} /\ queue # <<>> /\ queue' = Tail(queue)
        /\ UNCHANGED <<phase, task, replay, plan>> /\ session' = session
    BY <1>10 DEF FlushNext, IInv, PhaseInv
  <2>2. CASE Head(queue).type # "human" /\ Reduce(Head(queue))
    BY <2>1, <2>2, ReduceHeadStep
  <2>3. CASE UNCHANGED <<stamp, clock, reduced, turns, lastHuman, cycle, work,
                         obligation, replies, todo>>
    <3>1. /\ queue' \in Seq(Event) /\ Keyed(queue')
          /\ Contents(queue') \subseteq Contents(queue)
      BY <2>1, TailQueue DEF TypeOK, IInv, IngressInv
    <3>2. PhaseInv'
      BY <2>1, <2>3 DEF IInv, PhaseInv
    <3>3. todo' \cap plan' = {} /\ UNCHANGED durable
      BY <2>1, <2>3 DEF durable
    <3>4. IngressInv' /\ AnswerInv' /\ OwnerInv'
      BY <2>1, <2>3, <3>1, <3>3, RecordsKept
    <3> QED BY <3>2, <3>4 DEF IInv
  <2> QED BY <1>10, <2>2, <2>3 DEF FlushNext
<1>11. CASE Suspend \/ Crash
  <2>1. /\ phase' = "down" /\ queue' = <<>> /\ task' = [w \in Work |-> 0]
        /\ todo' = {} /\ replay' = {} /\ plan' = {}
        /\ UNCHANGED <<stamp, reduced, turns, cycle, work, obligation, replies>>
    BY <1>11 DEF Suspend, Crash, MemoryLost, durable
  <2>2. Contents(queue') = {} /\ Keyed(queue')
    BY <2>1, EmptyQueue
  <2>3. PhaseInv'
    BY <2>1 DEF PhaseInv
  <2>4. IngressInv' /\ AnswerInv'
    BY <2>1, <2>2 DEF IInv, IngressInv, AnswerInv, Accepted
  <2>5. OwnerInv'
    BY <2>1, <2>2 DEF IInv, OwnerInv
  <2> QED BY <2>3, <2>4, <2>5 DEF IInv
<1>12. CASE Recover
  <2>1. /\ phase = "down" /\ phase' = "starting"
        /\ work' = [w \in Work |-> Reclaim(w)]
        /\ plan' = {w \in Work : Reclaim(w) = "PENDING"}
        /\ replay' = Accepted \ reduced
        /\ UNCHANGED <<stamp, reduced, turns, cycle, obligation, replies, queue, task, todo>>
    BY <1>12 DEF Recover, Recoverable, Unreduced
  <2>2. queue = <<>> /\ todo = {} /\ \A w \in Work : task[w] = 0
    BY <2>1 DEF IInv, PhaseInv
  <2>3. Contents(queue') = {} /\ Keyed(queue')
    BY <2>1, <2>2, EmptyQueue
  <2>4. PhaseInv'
    BY <2>1, <2>2 DEF PhaseInv
  <2>5. IngressInv'
    BY <2>1, <2>3 DEF IInv, IngressInv, Accepted
  <2>6. \A w \in Work : work'[w] = work[w] \/ (work[w] = "RUNNING" /\ work'[w] = "PENDING")
    BY <2>1 DEF Reclaim
  <2>7. AnswerInv'
    BY <2>1, <2>6, AnswerKept DEF IInv
  <2>8. OwnerInv'
    <3>1. \A w \in todo' \cup plan' : work'[w] = "PENDING"
      BY <2>1, <2>2
    <3>2. \A w \in Work : task'[w] > 0 => work'[w] = "RUNNING"
      BY <2>1, <2>2
    <3>3. \A m \in Messages : obligation'[m] \in {"SATISFIED", "FAILED"} =>
            work'[LLM(m)] \in {"COMPLETED", "FAILED_TERMINAL"}
      BY <2>1, <2>6 DEF IInv, OwnerInv
    <3> QED BY <2>1, <2>2, <2>3, <3>1, <3>2, <3>3 DEF OwnerInv
  <2> QED BY <2>4, <2>5, <2>7, <2>8 DEF IInv
<1>13. CASE ReplayNext
  <2>1. PICK m \in replay : ReduceHuman(m) /\ replay' = replay \ {m}
    BY <1>13 DEF ReplayNext
  <2>2. /\ phase = "starting" /\ UNCHANGED <<phase, queue, task, plan>>
        /\ m \in Messages /\ stamp[m] > 0 /\ m \notin reduced /\ queue = <<>>
    BY <1>13, <2>1 DEF ReplayNext, IInv, PhaseInv, IngressInv, Accepted, TypeOK
  <2>3. /\ stamp' = stamp /\ reduced' = reduced \cup {m}
        /\ \A n \in Messages : turns'[n] = IF n \in reduced' THEN 1 ELSE 0
        /\ AnswerInv'
        /\ work[LLM(m)] = "none" /\ work[Embed(m)] = "none"
        /\ todo' \subseteq {LLM(m), Embed(m)}
        /\ \A w \in todo' : work'[w] = "PENDING"
        /\ \A w \in Work : work'[w] # work[w] => w \in todo'
        /\ \A n \in Messages : n # m => obligation'[n] = obligation[n]
        /\ obligation'[m] \in {"none", "PENDING"}
    BY <2>1, <2>2, HumanStep
  <2>4. Contents(queue') = {} /\ Keyed(queue')
    BY <2>2, EmptyQueue
  <2>5. PhaseInv'
    BY <2>2 DEF PhaseInv
  <2>6. IngressInv'
    BY <2>1, <2>2, <2>3, <2>4 DEF IInv, IngressInv, Accepted
  <2>7. OwnerInv'
    <3>1. \A v \in plan : v \in Work /\ work[v] = "PENDING" /\ v \notin todo'
      BY <2>3 DEF IInv, OwnerInv, TypeOK
    <3>2. \A v \in todo' \cup plan' : work'[v] = "PENDING"
      BY <2>2, <2>3, <3>1
    <3>3. todo' \cap plan' = {}
      BY <2>2, <3>1
    <3>4. \A v \in Work : task'[v] > 0 => work'[v] = "RUNNING"
      <4> SUFFICES ASSUME NEW v \in Work, task[v] > 0 PROVE work'[v] = "RUNNING"
        BY <2>2
      <4>1. work[v] = "RUNNING"
        BY DEF IInv, OwnerInv
      <4> QED BY <2>3, <4>1
    <3>5. ASSUME NEW n \in Messages, obligation'[n] \in {"SATISFIED", "FAILED"}
          PROVE  work'[LLM(n)] \in {"COMPLETED", "FAILED_TERMINAL"}
      <4>1. n # m /\ obligation[n] \in {"SATISFIED", "FAILED"}
        BY <2>3, <3>5
      <4>2. work[LLM(n)] \in {"COMPLETED", "FAILED_TERMINAL"}
        BY <4>1 DEF IInv, OwnerInv
      <4> QED BY <2>3, <4>2
    <3> QED BY <2>4, <3>2, <3>3, <3>4, <3>5 DEF OwnerInv
  <2> QED BY <2>3, <2>5, <2>6, <2>7 DEF IInv
<1> QED BY <1>1, <1>2, <1>3, <1>4, <1>5, <1>6, <1>7, <1>8, <1>9, <1>10, <1>11,
           <1>12, <1>13 DEF Next, Worker, Shutdown, Startup

-----------------------------------------------------------------------------
(* Theorems.                                                                *)

(* The inductive invariant holds in every reachable state of every instance. *)
THEOREM Invariance == Spec => [](TypeOK /\ IInv)
<1>1. Init => IInv
  <2> SUFFICES ASSUME Init PROVE IInv
    OBVIOUS
  <2>1. Contents(queue) = {} /\ Keyed(queue)
    BY EmptyQueue DEF Init
  <2>2. PhaseInv
    BY DEF Init, PhaseInv
  <2>3. IngressInv
    BY <2>1 DEF Init, IngressInv, Accepted
  <2>4. AnswerInv
    BY WorkKeys DEF Init, AnswerInv
  <2>5. OwnerInv
    BY <2>1, WorkKeys DEF Init, OwnerInv
  <2> QED BY <2>2, <2>3, <2>4, <2>5 DEF IInv
<1>2. TypeOK /\ IInv /\ [Next]_vars => IInv'
  BY InvStep
<1> QED BY <1>1, <1>2, TypeCorrect, PTL DEF Spec

(* A message makes one turn if it was reduced and none otherwise, whatever   *)
(* is resent, replayed after a crash or rolled back.                        *)
THEOREM EffectivelyOnceHolds == Spec => []EffectivelyOnce
<1>1. IInv => EffectivelyOnce
  BY DEF IInv, IngressInv, EffectivelyOnce
<1> QED BY <1>1, Invariance, PTL

(* A message is answered at most once, and a mandatory one is marked         *)
(* SATISFIED exactly when its answer exists.                                *)
THEOREM AnsweredOnceHolds == Spec => []AnsweredOnce
<1>1. IInv => AnsweredOnce
  BY DEF IInv, AnswerInv, AnsweredOnce
<1> QED BY <1>1, Invariance, PTL

(* What one step may not do to a settled record.                             *)
Final ==
  /\ \A w \in Work : work[w] \in {"COMPLETED", "FAILED_TERMINAL"} => work'[w] = work[w]
  /\ \A m \in Messages : obligation[m] \in {"SATISFIED", "FAILED"}
                           => obligation'[m] = obligation[m]

(* Reducing the head of the queue touches only unsettled records: a result   *)
(* finds its item RUNNING, or failed and left so.                            *)
LEMMA ReduceHeadFinal ==
  ASSUME TypeOK, IInv, queue # <<>>, Reduce(Head(queue))
  PROVE  Final
<1> DEFINE e == Head(queue)
           m == e.msg
<1> USE WorkKeys
<1>1. e \in Event /\ e \in Contents(queue) /\ m \in Messages
  BY TailQueue DEF TypeOK, Event
<1> HIDE DEF e
<1>2. CASE e.type = "human" /\ ReduceHuman(m)
  <2>1. stamp[m] > 0 /\ m \notin reduced
    BY <1>1, <1>2 DEF IInv, IngressInv
  <2>2. /\ work[LLM(m)] = "none" /\ work[Embed(m)] = "none"
        /\ todo' \subseteq {LLM(m), Embed(m)}
        /\ \A w \in Work : work'[w] # work[w] => w \in todo'
        /\ \A n \in Messages : n # m => obligation'[n] = obligation[n]
    BY <1>1, <1>2, <2>1, HumanStep
  <2>3. obligation[m] = "none"
    BY <1>1, <2>1 DEF IInv, AnswerInv
  <2> QED BY <2>2, <2>3 DEF Final
<1>3. CASE e.type = "llm" /\ ReduceLLM(m, e.outcome)
  <2>1. /\ work[<<m, "llm">>] = IF e.outcome = "error" THEN "FAILED_TERMINAL" ELSE "RUNNING"
        /\ obligation[m] \in {"none", "PENDING"}
    BY <1>1, <1>3 DEF IInv, OwnerInv
  <2>2. e.outcome \in Outcomes \cup {"none"}
    BY <1>1 DEF Event
  <2>3. /\ work[LLM(m)] = "FAILED_TERMINAL" => work'[LLM(m)] = "FAILED_TERMINAL"
        /\ \A w \in Work : w # LLM(m) => work'[w] = work[w]
        /\ \A n \in Messages : n # m => obligation'[n] = obligation[n]
    BY <1>1, <1>3, <2>1, <2>2, LLMStep
  <2> QED BY <1>1, <2>1, <2>3 DEF Final
<1>4. CASE e.type = "embed" /\ ReduceEmbedding(m)
  <2>1. work[Embed(m)] = "RUNNING"
    BY <1>1, <1>4 DEF IInv, OwnerInv
  <2>2. /\ obligation' = obligation
        /\ \A w \in Work : w # Embed(m) => work'[w] = work[w]
    BY <1>1, <1>4, <2>1, EmbeddingStep
  <2> QED BY <2>1, <2>2 DEF Final
<1> QED BY <1>2, <1>3, <1>4 DEF Reduce, e

(* No step of the service unsettles a settled record.                        *)
LEMMA FinalStep == TypeOK /\ IInv /\ [Next]_vars => Final
<1> SUFFICES ASSUME TypeOK, IInv, [Next]_vars PROVE Final
  OBVIOUS
<1> USE WorkKeys
<1>1. CASE UNCHANGED <<work, obligation>>
  BY <1>1 DEF Final
<1>2. CASE ReduceNext \/ FlushNext
  <2>1. CASE Reduce(Head(queue))
    BY <1>2, <2>1, ReduceHeadFinal DEF ReduceNext, FlushNext
  <2>2. CASE ~Reduce(Head(queue))
    BY <1>1, <1>2, <2>2 DEF ReduceNext, FlushNext
  <2> QED BY <2>1, <2>2
<1>3. CASE DispatchNext
  <2>1. PICK w \in todo : work' = [work EXCEPT ![w] = "RUNNING"]
    BY <1>3 DEF DispatchNext
  <2>2. work[w] = "PENDING" /\ obligation' = obligation
    BY <1>3 DEF DispatchNext, IInv, OwnerInv
  <2> QED BY <2>1, <2>2 DEF Final, TypeOK
<1>4. ASSUME NEW w \in Work, RetryAttempt(w) \/ FailTerminal(w) PROVE Final
  <2>1. task[w] > 0 /\ obligation' = obligation
    BY <1>4, AttemptsAssumption DEF RetryAttempt, FailTerminal
  <2>2. work[w] = "RUNNING"
    BY <2>1 DEF IInv, OwnerInv
  <2>3. \A v \in Work : v # w => work'[v] = work[v]
    BY <1>4 DEF RetryAttempt, FailTerminal, TypeOK
  <2> QED BY <2>1, <2>2, <2>3 DEF Final
<1>5. CASE Recover
  BY <1>5 DEF Recover, Reclaim, Final
<1>6. CASE ReplayNext
  <2>1. PICK m \in replay : ReduceHuman(m)
    BY <1>6 DEF ReplayNext
  <2>2. m \in Messages /\ stamp[m] > 0 /\ m \notin reduced
    BY DEF IInv, IngressInv, Accepted, TypeOK
  <2>3. /\ work[LLM(m)] = "none" /\ work[Embed(m)] = "none"
        /\ todo' \subseteq {LLM(m), Embed(m)}
        /\ \A w \in Work : work'[w] # work[w] => w \in todo'
        /\ \A n \in Messages : n # m => obligation'[n] = obligation[n]
    BY <2>1, <2>2, HumanStep
  <2>4. obligation[m] = "none"
    BY <2>2 DEF IInv, AnswerInv
  <2> QED BY <2>3, <2>4 DEF Final
<1>7. [Next]_vars => \/ UNCHANGED <<work, obligation>>
                     \/ ReduceNext \/ FlushNext \/ DispatchNext \/ Recover \/ ReplayNext
                     \/ \E w \in Work : RetryAttempt(w) \/ FailTerminal(w)
  BY DEF Next, vars, durable, Worker, Startup, Shutdown, Ingest, ReduceRaises,
         WorkerReturns, Stop, FinishDrain, Suspend, Crash, Redispatch, GoLive
<1> QED BY <1>1, <1>2, <1>3, <1>4, <1>5, <1>6, <1>7

(* Completed or terminally failed work is never run again, and an answered   *)
(* or failed obligation is never reopened, in any behaviour.                 *)
THEOREM SettledIsFinalHolds == Spec => SettledIsFinal
<1>1. TypeOK /\ IInv /\ [Next]_vars =>
        [/\ \A w \in Work : work[w] \in {"COMPLETED", "FAILED_TERMINAL"} => work'[w] = work[w]
         /\ \A m \in Messages : obligation[m] \in {"SATISFIED", "FAILED"}
                                  => obligation'[m] = obligation[m]]_vars
  BY FinalStep DEF Final
<1> QED BY <1>1, Invariance, PTL DEF Spec, SettledIsFinal

-----------------------------------------------------------------------------
(* Nothing is lost while no reduction raises.                                *)

(* queue.get takes nothing but the head.                                     *)
LEMMA TailKeeps ==
  ASSUME NEW q \in Seq(Event), q # <<>>, NEW x \in Contents(q), x # Head(q)
  PROVE  x \in Contents(Tail(q))
<1>1. /\ Len(q) \in Nat /\ Len(q) >= 1
      /\ Head(q) = q[1]
      /\ Len(Tail(q)) = Len(q) - 1
      /\ \A i \in 1..Len(Tail(q)) : Tail(q)[i] = q[i + 1]
  OBVIOUS
<1>2. PICK i \in 1..Len(q) : x = q[i]
  BY DEF Contents
<1>3. i # 1
  BY <1>1, <1>2
<1>4. i - 1 \in 1..Len(Tail(q)) /\ (i - 1) + 1 = i
  BY <1>1, <1>3
<1>5. Tail(q)[i - 1] = x
  BY <1>1, <1>2, <1>4
<1> QED BY <1>4, <1>5 DEF Contents

(* In a queue with unique keys an event that waits is there exactly once.    *)
LEMMA WaitsOnce ==
  ASSUME TypeOK, Keyed(queue), NEW m, NEW type, Waiting(m, type)
  PROVE  Cardinality(InQueue(m, type)) = 1
<1>1. PICK i \in 1..Len(queue) : queue[i].msg = m /\ queue[i].type = type
  BY DEF Waiting, Contents
<1>2. \A j \in InQueue(m, type) : j = i
  BY <1>1 DEF InQueue, Keyed
<1>3. i \in InQueue(m, type)
  BY <1>1 DEF InQueue
<1>4. InQueue(m, type) = {i}
  BY <1>2, <1>3
<1> QED BY <1>4, FS_Singleton

(* What a step leaves of the queue: everything, when it only appends; all    *)
(* but the head, when it takes one.                                         *)
LEMMA StillWaiting ==
  ASSUME TypeOK, NEW m, NEW type, Waiting(m, type),
         \/ queue' = queue
         \/ \E e \in Event : queue' = Append(queue, e)
         \/ /\ queue # <<>> /\ queue' = Tail(queue)
            /\ Head(queue).msg # m \/ Head(queue).type # type
  PROVE  Waiting(m, type)'
<1>1. PICK x \in Contents(queue) : x.msg = m /\ x.type = type
  BY DEF Waiting
<1>2. CASE queue' = queue
  BY <1>2 DEF Waiting
<1>3. CASE \E e \in Event : queue' = Append(queue, e)
  <2>1. PICK e \in Event : queue' = Append(queue, e)
    BY <1>3
  <2>2. x \in Contents(queue')
    BY <2>1, AppendQueue DEF TypeOK
  <2> QED BY <1>1, <2>2 DEF Waiting
<1>4. CASE /\ queue # <<>> /\ queue' = Tail(queue)
           /\ Head(queue).msg # m \/ Head(queue).type # type
  <2>1. x # Head(queue)
    BY <1>1, <1>4
  <2>2. x \in Contents(queue')
    BY <1>4, <2>1, TailKeeps DEF TypeOK
  <2> QED BY <1>1, <2>2 DEF Waiting
<1> QED BY <1>2, <1>3, <1>4

(* An event put on the queue waits there.                                    *)
LEMMA NowWaiting ==
  ASSUME TypeOK, NEW e \in Event, queue' = Append(queue, e)
  PROVE  Waiting(e.msg, e.type)'
<1>1. e \in Contents(queue')
  BY AppendQueue DEF TypeOK
<1> QED BY <1>1 DEF Waiting

(* What reducing the head of the queue makes of the events and the work:     *)
(* only the message of the head becomes reduced; the item of a result is      *)
(* settled; new work is on the list to dispatch.                            *)
LEMMA ReduceHeadWork ==
  ASSUME TypeOK, IInv, todo = {}, queue # <<>>, Reduce(Head(queue))
  PROVE  /\ stamp' = stamp
         /\ reduced \subseteq reduced'
         /\ Head(queue).type = "human" => Head(queue).msg \in reduced'
         /\ \A w \in Work :
              /\ work'[w] = "PENDING" => work[w] = "PENDING" \/ w \in todo'
              /\ work'[w] = "RUNNING" =>
                   /\ work[w] = "RUNNING"
                   /\ Head(queue).msg # w[1] \/ Head(queue).type # w[2]
<1> DEFINE e == Head(queue)
           m == e.msg
<1> USE WorkKeys
<1>1. e \in Event /\ e \in Contents(queue) /\ m \in Messages
  BY TailQueue DEF TypeOK, Event
<1>0. \A w \in Work : w = <<w[1], w[2]>> /\ w[2] \in {"llm", "embed"}
  BY DEF Work, Kinds
<1> HIDE DEF e
<1>2. CASE e.type = "human" /\ ReduceHuman(m)
  <2>1. stamp[m] > 0 /\ m \notin reduced
    BY <1>1, <1>2 DEF IInv, IngressInv
  <2>2. /\ stamp' = stamp /\ reduced' = reduced \cup {m}
        /\ \A w \in todo' : work'[w] = "PENDING"
        /\ \A w \in Work : work'[w] # work[w] => w \in todo'
    BY <1>1, <1>2, <2>1, HumanStep
  <2>3. \A w \in Work : e.type # w[2]
    BY <1>0, <1>2
  <2> QED BY <2>2, <2>3 DEF e
<1>3. CASE e.type = "llm" /\ ReduceLLM(m, e.outcome)
  <2>1. /\ work[LLM(m)] = IF e.outcome = "error" THEN "FAILED_TERMINAL" ELSE "RUNNING"
        /\ obligation[m] \in {"none", "PENDING"}
    BY <1>1, <1>3 DEF IInv, OwnerInv
  <2>2. e.outcome \in Outcomes \cup {"none"}
    BY <1>1 DEF Event
  <2>3. /\ stamp' = stamp /\ reduced' = reduced
        /\ work'[LLM(m)] \in {"COMPLETED", "FAILED_TERMINAL"}
        /\ \A w \in Work : w # LLM(m) => work'[w] = work[w]
    BY <1>1, <1>3, <2>1, <2>2, LLMStep
  <2>4. \A w \in Work : (m = w[1] /\ e.type = w[2]) => w = LLM(m)
    BY <1>0, <1>1, <1>3
  <2> QED BY <1>1, <1>3, <2>3, <2>4 DEF e
<1>4. CASE e.type = "embed" /\ ReduceEmbedding(m)
  <2>1. work[Embed(m)] = "RUNNING"
    BY <1>1, <1>4 DEF IInv, OwnerInv
  <2>2. /\ stamp' = stamp /\ reduced' = reduced
        /\ \A w \in Work : w # Embed(m) => work'[w] = work[w]
    BY <1>1, <1>4, <2>1, EmbeddingStep
  <2>3. work'[Embed(m)] = "COMPLETED"
    BY <1>1, <1>4, <2>1 DEF ReduceEmbedding, TypeOK
  <2>4. \A w \in Work : (m = w[1] /\ e.type = w[2]) => w = Embed(m)
    BY <1>0, <1>1, <1>4
  <2> QED BY <1>1, <1>4, <2>2, <2>3, <2>4 DEF e
<1> QED BY <1>2, <1>3, <1>4 DEF Reduce, e

(* A live process has its session open.                                      *)
LEMMA SessionStep == SessionInv /\ [Next]_vars => SessionInv'
BY DEF SessionInv, Next, vars, durable, memory, Worker, Startup, Shutdown, Ingest, ReduceNext,
       ReduceRaises, DispatchNext, WorkerReturns, RetryAttempt, FailTerminal, Stop,
       FinishDrain, FlushNext, Suspend, Crash, MemoryLost, Recover, ReplayNext,
       Redispatch, GoLive

(* A reduction that raises ends the promise for its session; recover()       *)
(* renews it.                                                               *)
LEMMA RaisedKept ==
  ASSUME TypeOK, [Next]_vars, raised' = 0
  PROVE  raised = 0 \/ Recover
<1>1. [Next]_vars => Recover \/ ReduceRaises \/ raised' = raised
  BY DEF Next, vars, history, Worker, Startup, Shutdown, Ingest, ReduceNext,
         DispatchNext, WorkerReturns, RetryAttempt, FailTerminal, Stop, FinishDrain,
         FlushNext, Suspend, Crash, ReplayNext, Redispatch, GoLive
<1>2. ReduceRaises => raised' # 0
  BY DEF ReduceRaises, TypeOK
<1> QED BY <1>1, <1>2

(* An accepted message stays queued, or in the replay plan, until reduced.   *)
LEMMA BacklogStep == TypeOK /\ IInv /\ BacklogInv /\ [Next]_vars => BacklogInv'
<1> SUFFICES ASSUME TypeOK, IInv, BacklogInv, [Next]_vars, raised' = 0,
                    NEW m \in Messages, stamp'[m] > 0, m \notin reduced'
             PROVE  /\ phase' \in {"running", "stopping"} => Waiting(m, "human")'
                    /\ phase' = "starting" => m \in replay'
  BY DEF BacklogInv, Unreduced, Accepted
<1>1. CASE Recover
  BY <1>1 DEF Recover, Unreduced, Accepted
<1>2. CASE Suspend \/ Crash
  BY <1>2 DEF Suspend, Crash, MemoryLost
<1>3. CASE GoLive
  <2>1. raised = 0 /\ stamp[m] > 0 /\ m \notin reduced /\ phase = "starting" /\ replay = {}
    BY <1>3 DEF GoLive, durable, history
  <2> QED BY <2>1 DEF BacklogInv, Unreduced, Accepted
<1> SUFFICES ASSUME ~Recover, ~Suspend, ~Crash, ~GoLive
             PROVE  /\ phase' \in {"running", "stopping"} => Waiting(m, "human")'
                    /\ phase' = "starting" => m \in replay'
  BY <1>1, <1>2, <1>3
<1>4. raised = 0
  BY RaisedKept
<1>5. (stamp[m] > 0 /\ m \notin reduced) =>
        /\ phase \in {"running", "stopping"} => Waiting(m, "human")
        /\ phase = "starting" => m \in replay
  BY <1>4 DEF BacklogInv, Unreduced, Accepted
<1>6. CASE UNCHANGED <<stamp, reduced, replay>>
           /\ (phase' = phase \/ Stop \/ FinishDrain)
           /\ (queue' = queue \/ \E e \in Event : queue' = Append(queue, e))
  <2>1. Waiting(m, "human") => Waiting(m, "human")'
    BY <1>6, StillWaiting
  <2> QED BY <1>5, <1>6, <2>1 DEF Stop, FinishDrain
<1>7. ASSUME NEW n \in Messages, Ingest(n), Newly(n)
      PROVE  phase' \in {"running", "stopping"} /\ Waiting(m, "human")'
  <2> DEFINE e == HumanMessage(n)
  <2>1. /\ phase' = phase /\ phase \in {"running", "stopping"}
        /\ queue' = Append(queue, e) /\ reduced' = reduced
        /\ stamp' = [stamp EXCEPT ![n] = clock + 1]
    BY <1>7 DEF Ingest
  <2>2. e \in Event /\ e.msg = n /\ e.type = "human"
    BY EventTypes DEF HumanMessage
  <2> HIDE DEF e
  <2>3. CASE m = n
    BY <2>1, <2>2, <2>3, NowWaiting
  <2>4. CASE m # n
    <3>1. stamp[m] > 0
      BY <2>1, <2>4 DEF TypeOK
    <3>2. Waiting(m, "human")
      BY <1>5, <2>1, <3>1
    <3> QED BY <2>1, <2>2, <3>2, StillWaiting
  <2> QED BY <2>1, <2>3, <2>4
<1>8. CASE ReduceNext
  <2>1. /\ phase = "running" /\ phase' = "running" /\ todo = {} /\ queue # <<>>
        /\ queue' = Tail(queue) /\ Reduce(Head(queue))
    BY <1>8 DEF ReduceNext
  <2>2. /\ stamp' = stamp /\ reduced \subseteq reduced'
        /\ Head(queue).type = "human" => Head(queue).msg \in reduced'
    BY <2>1, ReduceHeadWork
  <2>3. Waiting(m, "human")
    BY <1>5, <2>1, <2>2
  <2>4. Head(queue).msg # m \/ Head(queue).type # "human"
    BY <2>2
  <2> QED BY <2>1, <2>3, <2>4, StillWaiting
<1>9. CASE ReduceRaises
  BY <1>9 DEF ReduceRaises, TypeOK
<1>10. CASE FlushNext
  BY <1>10 DEF FlushNext
<1>11. CASE ReplayNext
  <2>1. PICK n \in replay : ReduceHuman(n) /\ replay' = replay \ {n}
    BY <1>11 DEF ReplayNext
  <2>2. stamp' = stamp /\ reduced' = reduced \cup {n}
    BY <2>1 DEF ReduceHuman
  <2>3. phase = "starting" /\ phase' = "starting"
    BY <1>11 DEF ReplayNext
  <2> QED BY <1>5, <2>1, <2>2, <2>3
<1>12. ASSUME NEW w \in Work, WorkerReturns(w) \/ FailTerminal(w)
       PROVE  queue' = queue \/ \E e \in Event : queue' = Append(queue, e)
  <2>1. w[1] \in Messages /\ Decisions \subseteq Outcomes /\ "error" \in Outcomes
    BY DEF Work, Outcomes
  <2>2. /\ \A o \in Outcomes : LLMResult(w[1], o) \in Event
        /\ EmbeddingResult(w[1]) \in Event
    BY <2>1, EventTypes
  <2> QED BY <1>12, <2>1, <2>2 DEF WorkerReturns, FailTerminal, Surface
<1>13. ASSUME NEW w \in Work, WorkerReturns(w) \/ FailTerminal(w)
       PROVE  UNCHANGED <<stamp, reduced, replay, phase>>
  BY <1>13 DEF WorkerReturns, FailTerminal, durable
<1>14. [Next]_vars =>
         \/ \E n \in Messages : Ingest(n) /\ Newly(n)
         \/ ReduceNext \/ ReduceRaises \/ FlushNext \/ ReplayNext
         \/ Recover \/ Suspend \/ Crash \/ GoLive
         \/ \E w \in Work : WorkerReturns(w) \/ FailTerminal(w)
         \/ /\ UNCHANGED <<stamp, reduced, replay, queue>>
            /\ phase' = phase \/ Stop \/ FinishDrain
  BY DEF Next, vars, durable, Worker, Startup, Shutdown, Ingest, DispatchNext,
         RetryAttempt, Redispatch, Stop, FinishDrain
<1> QED BY <1>6, <1>7, <1>8, <1>9, <1>10, <1>11, <1>12, <1>13, <1>14

(* A leased item keeps its task or its queued result, a pending one its      *)
(* place on a dispatch list.                                                *)
LEMMA LeaseStep == TypeOK /\ IInv /\ LeaseInv /\ [Next]_vars => LeaseInv'
<1> SUFFICES ASSUME TypeOK, IInv, LeaseInv, [Next]_vars, raised' = 0, phase' # "down",
                    NEW w \in Work
             PROVE  /\ work'[w] = "RUNNING" => task'[w] > 0 \/ Waiting(w[1], w[2])'
                    /\ work'[w] = "PENDING" => w \in todo' \cup plan'
  BY DEF LeaseInv
<1> USE WorkKeys
<1>1. CASE Recover
  BY <1>1 DEF Recover, Recoverable, Reclaim
<1> SUFFICES ASSUME ~Recover
             PROVE  /\ work'[w] = "RUNNING" => task'[w] > 0 \/ Waiting(w[1], w[2])'
                    /\ work'[w] = "PENDING" => w \in todo' \cup plan'
  BY <1>1
<1>2. raised = 0
  BY RaisedKept
<1>3. phase # "down"
  BY DEF Next, vars, durable, Worker, Startup, Shutdown, Ingest, ReduceNext,
         ReduceRaises, DispatchNext, WorkerReturns, RetryAttempt, FailTerminal, Stop,
         FinishDrain, FlushNext, Suspend, Crash, ReplayNext, Redispatch, GoLive,
         WorkersRun, IInv, PhaseInv
<1>4. /\ work[w] = "RUNNING" => task[w] > 0 \/ Waiting(w[1], w[2])
      /\ work[w] = "PENDING" => w \in todo \cup plan
  BY <1>2, <1>3 DEF LeaseInv
<1>5. w[1] \in Messages /\ w[2] \in {"llm", "embed"} /\ w = <<w[1], w[2]>>
  BY DEF Work, Kinds
<1>6. CASE /\ UNCHANGED <<work, task>> /\ todo \cup plan \subseteq todo' \cup plan'
           /\ queue' = queue \/ \E e \in Event : queue' = Append(queue, e)
  <2>1. Waiting(w[1], w[2]) => Waiting(w[1], w[2])'
    BY <1>6, StillWaiting
  <2> QED BY <1>4, <1>6, <2>1
<1>7. CASE (ReduceNext \/ FlushNext) /\ Reduce(Head(queue))
  <2>1. /\ todo = {} /\ queue # <<>> /\ queue' = Tail(queue) /\ task' = task /\ plan' = plan
    BY <1>7 DEF ReduceNext, FlushNext, IInv, PhaseInv
  <2>2. /\ work'[w] = "PENDING" => work[w] = "PENDING" \/ w \in todo'
        /\ work'[w] = "RUNNING" =>
             /\ work[w] = "RUNNING"
             /\ Head(queue).msg # w[1] \/ Head(queue).type # w[2]
    BY <1>7, <2>1, ReduceHeadWork
  <2>3. work'[w] = "RUNNING" /\ Waiting(w[1], w[2]) => Waiting(w[1], w[2])'
    BY <2>1, <2>2, StillWaiting
  <2> QED BY <1>4, <2>1, <2>2, <2>3
<1>8. CASE FlushNext /\ Head(queue).type = "human"
           /\ UNCHANGED <<work, todo>>
  <2>1. /\ queue # <<>> /\ queue' = Tail(queue) /\ task' = task /\ plan' = plan
    BY <1>8 DEF FlushNext
  <2>2. Waiting(w[1], w[2]) => Waiting(w[1], w[2])'
    BY <1>5, <1>8, <2>1, StillWaiting
  <2> QED BY <1>4, <1>8, <2>1, <2>2
<1>9. CASE ReduceRaises
  BY <1>9 DEF ReduceRaises, TypeOK
<1>10. CASE DispatchNext
  <2>1. PICK v \in todo : /\ work' = [work EXCEPT ![v] = "RUNNING"]
                          /\ task' = [task EXCEPT ![v] = 1]
                          /\ todo' = todo \ {v}
    BY <1>10 DEF DispatchNext
  <2>2. queue' = queue /\ plan' = plan
    BY <1>10 DEF DispatchNext
  <2>3. Waiting(w[1], w[2]) => Waiting(w[1], w[2])'
    BY <2>2, StillWaiting
  <2>4. CASE w = v
    BY <2>1, <2>4 DEF TypeOK
  <2>5. CASE w # v
    BY <1>4, <2>1, <2>2, <2>3, <2>5 DEF TypeOK
  <2> QED BY <2>4, <2>5
<1>11. ASSUME NEW v \in Work, WorkerReturns(v) \/ FailTerminal(v) \/ RetryAttempt(v)
       PROVE  /\ work'[w] = "RUNNING" => task'[w] > 0 \/ Waiting(w[1], w[2])'
              /\ work'[w] = "PENDING" => w \in todo' \cup plan'
  <2>1. /\ v[1] \in Messages /\ Decisions \subseteq Outcomes /\ "error" \in Outcomes
        /\ v[2] \in {"llm", "embed"}
    BY DEF Work, Outcomes, Kinds
  <2>2. /\ \A o \in Outcomes : LLMResult(v[1], o) \in Event
        /\ EmbeddingResult(v[1]) \in Event
    BY <2>1, EventTypes
  <2>3. queue' = queue \/ \E e \in Event : queue' = Append(queue, e)
    BY <1>11, <2>1, <2>2 DEF WorkerReturns, FailTerminal, RetryAttempt, Surface
  <2>4. Waiting(w[1], w[2]) => Waiting(w[1], w[2])'
    BY <2>3, StillWaiting
  <2>5. todo' = todo /\ plan' = plan
    BY <1>11 DEF WorkerReturns, FailTerminal, RetryAttempt
  <2>6. CASE w # v
    <3>1. work'[w] = work[w] /\ task'[w] = task[w]
      BY <1>11, <2>6 DEF WorkerReturns, FailTerminal, RetryAttempt, TypeOK, durable
    <3> QED BY <1>4, <2>4, <2>5, <3>1
  <2>7. CASE w = v /\ WorkerReturns(v)
    <3>1. PICK e \in Event : e.msg = w[1] /\ e.type = w[2] /\ queue' = Append(queue, e)
      BY <2>1, <2>2, <2>7 DEF WorkerReturns, LLMResult, EmbeddingResult
    <3>2. Waiting(w[1], w[2])'
      BY <3>1, NowWaiting
    <3>3. work' = work
      BY <2>7 DEF WorkerReturns, durable
    <3> QED BY <1>4, <2>5, <3>2, <3>3
  <2>8. CASE w = v /\ FailTerminal(v)
    BY <2>8 DEF FailTerminal, TypeOK
  <2>9. CASE w = v /\ RetryAttempt(v)
    <3>1. task'[w] = task[w] + 1 /\ task[w] > 0 /\ task[w] \in Nat
      BY <2>9, AttemptsAssumption DEF RetryAttempt, TypeOK
    <3>2. work'[w] = "RUNNING"
      BY <2>9 DEF RetryAttempt, TypeOK
    <3> QED BY <3>1, <3>2
  <2> QED BY <1>11, <2>6, <2>7, <2>8, <2>9
<1>12. CASE ReplayNext
  <2>1. PICK n \in replay : ReduceHuman(n)
    BY <1>12 DEF ReplayNext
  <2>2. /\ todo = {} /\ n \in Messages /\ stamp[n] > 0 /\ n \notin reduced
        /\ UNCHANGED <<queue, task, plan>>
    BY <1>12 DEF ReplayNext, IInv, IngressInv, Accepted, TypeOK
  <2>3. /\ \A v \in todo' : work'[v] = "PENDING"
        /\ \A v \in Work : work'[v] # work[v] => v \in todo'
    BY <2>1, <2>2, HumanStep
  <2>4. Waiting(w[1], w[2]) => Waiting(w[1], w[2])'
    BY <2>2, StillWaiting
  <2> QED BY <1>4, <2>2, <2>3, <2>4
<1>13. CASE Suspend \/ Crash
  BY <1>13 DEF Suspend, Crash, MemoryLost
<1>14. ASSUME NEW n \in Messages, Ingest(n)
       PROVE  /\ UNCHANGED <<work, task, todo, plan>>
              /\ queue' = queue \/ \E e \in Event : queue' = Append(queue, e)
  <2>1. HumanMessage(n) \in Event
    BY EventTypes
  <2> QED BY <1>14, <2>1 DEF Ingest
<1>15. ReduceNext => Reduce(Head(queue))
  BY DEF ReduceNext
<1>16. FlushNext => \/ Reduce(Head(queue))
                    \/ Head(queue).type = "human" /\ UNCHANGED <<work, todo>>
  BY DEF FlushNext
<1>17. [Next]_vars =>
         \/ \E n \in Messages : Ingest(n)
         \/ ReduceNext \/ ReduceRaises \/ FlushNext \/ ReplayNext \/ DispatchNext
         \/ Recover \/ Suspend \/ Crash
         \/ \E v \in Work : WorkerReturns(v) \/ FailTerminal(v) \/ RetryAttempt(v)
         \/ /\ UNCHANGED <<work, task, queue>>
            /\ todo \cup plan \subseteq todo' \cup plan'
  BY DEF Next, vars, durable, Worker, Startup, Shutdown, Redispatch, GoLive, Stop, FinishDrain
<1> QED BY <1>6, <1>7, <1>8, <1>9, <1>10, <1>11, <1>12, <1>13, <1>14, <1>15, <1>16, <1>17

(* stop() reaches close_session with no lease, no pending work and no queued *)
(* result.                                                                  *)
LEMMA QuiescentStep ==
  TypeOK /\ IInv /\ SessionInv /\ LeaseInv /\ CleanSuspendIsQuiescent /\ [Next]_vars
    => CleanSuspendIsQuiescent'
<1> SUFFICES ASSUME TypeOK, IInv, SessionInv, LeaseInv, CleanSuspendIsQuiescent, [Next]_vars,
                    phase' = "down", session' = "CLEAN_SUSPEND", raised' = 0
             PROVE  \A w \in Work : work'[w] \in {"none", "COMPLETED", "FAILED_TERMINAL"}
  BY DEF CleanSuspendIsQuiescent
<1>1. CASE Suspend
  <2>1. /\ phase = "flushing" /\ queue = <<>> /\ raised = 0 /\ work' = work
    BY <1>1 DEF Suspend, history
  <2>2. /\ todo = {} /\ plan = {} /\ \A w \in Work : task[w] = 0
    BY <2>1 DEF IInv, PhaseInv
  <2>3. \A w \in Work : ~Waiting(w[1], w[2])
    BY <2>1, EmptyQueue DEF Waiting
  <2>4. \A w \in Work : work[w] \notin {"RUNNING", "PENDING"}
    BY <2>1, <2>2, <2>3 DEF LeaseInv
  <2> QED BY <2>1, <2>4 DEF TypeOK, WorkStatus
<1>2. CASE UNCHANGED vars
  BY <1>2 DEF vars, CleanSuspendIsQuiescent
<1>3. CASE Crash
  BY <1>3 DEF Crash, SessionInv, durable
<1>4. [Next]_vars => UNCHANGED vars \/ Suspend \/ Crash \/ phase' # "down"
  BY DEF Next, vars, durable, Worker, Startup, Shutdown, Ingest, ReduceNext,
         ReduceRaises, DispatchNext, WorkerReturns, RetryAttempt, FailTerminal, Stop,
         FinishDrain, FlushNext, ReplayNext, Redispatch, GoLive, Recover,
         WorkersRun, IInv, PhaseInv
<1> QED BY <1>1, <1>2, <1>3, <1>4

(* The second invariant holds in every reachable state of every instance.    *)
THEOREM HeldInvariance == Spec => []HeldInv
<1>1. Init => HeldInv
  BY DEF Init, HeldInv, SessionInv, BacklogInv, LeaseInv, CleanSuspendIsQuiescent,
         Unreduced, Accepted
<1>2. TypeOK /\ IInv /\ HeldInv /\ [Next]_vars => HeldInv'
  BY SessionStep, BacklogStep, LeaseStep, QuiescentStep DEF HeldInv
<1> QED BY <1>1, <1>2, Invariance, PTL DEF Spec

(* While no reduction raises, an acknowledged message is reduced or is in    *)
(* memory exactly once, whatever is resent, stopped, crashed and replayed.   *)
THEOREM NoAcceptedMessageLostHolds == Spec => []NoAcceptedMessageLost
<1>1. TypeOK /\ IInv /\ HeldInv => NoAcceptedMessageLost
  BY WaitsOnce DEF IInv, IngressInv, HeldInv, BacklogInv, Unreduced, NoAcceptedMessageLost
<1> QED BY <1>1, Invariance, HeldInvariance, PTL

(* While no reduction raises, a leased item has its task or its queued       *)
(* result and a pending one is about to be dispatched.                       *)
THEOREM NoStrandedWorkHolds == Spec => []NoStrandedWork
<1>1. \A m, type : Waiting(m, type) => InQueue(m, type) # {}
  BY DEF Waiting, InQueue, Contents
<1>2. HeldInv => NoStrandedWork
  BY <1>1 DEF HeldInv, LeaseInv, NoStrandedWork
<1> QED BY <1>2, HeldInvariance, PTL

(* A clean suspend leaves no work that the next start would run again.       *)
THEOREM CleanSuspendIsQuiescentHolds == Spec => []CleanSuspendIsQuiescent
<1>1. HeldInv => CleanSuspendIsQuiescent
  BY DEF HeldInv
<1> QED BY <1>1, HeldInvariance, PTL

-----------------------------------------------------------------------------
(* The service implements Conversation.                                     *)

(* Reducing an accepted message for the first time is the step Hear.         *)
LEMMA HumanHears ==
  ASSUME TypeOK, IInv, NEW m \in Messages, stamp[m] > 0, m \notin reduced,
         ReduceHuman(m)
  PROVE  Promise!Hear(m)
<1>1. m \in Accepted /\ turns[m] = 0 /\ obligation[m] = "none"
  BY DEF IInv, IngressInv, AnswerInv, Accepted
<1>2. /\ stamp' = stamp /\ replies' = replies
      /\ turns' = [turns EXCEPT ![m] = 1]
      /\ obligation' \in {obligation, [obligation EXCEPT ![m] = "PENDING"]}
  BY <1>1 DEF ReduceHuman, TypeOK
<1>3. Accepted' = Accepted
  BY <1>2 DEF Accepted
<1>4. /\ {n \in Messages : obligation'[n] = "PENDING"} \in
            {{n \in Messages : obligation[n] = "PENDING"},
             {n \in Messages : obligation[n] = "PENDING"} \cup {m}}
      /\ {n \in Messages : obligation'[n] = "FAILED"} =
            {n \in Messages : obligation[n] = "FAILED"}
  <2>1. CASE obligation' = obligation
    BY <2>1
  <2>2. CASE obligation' = [obligation EXCEPT ![m] = "PENDING"]
    BY <1>1, <2>2 DEF TypeOK
  <2> QED BY <1>2, <2>1, <2>2
<1> QED BY <1>1, <1>2, <1>3, <1>4 DEF Promise!Hear

(* The first result of a cycle answers, gives up, or, for an optional one,    *)
(* stays silent.                                                            *)
LEMMA ResultAnswers ==
  ASSUME TypeOK, IInv, NEW m \in Messages, NEW o \in Outcomes \cup {"none"},
         work[LLM(m)] = IF o = "error" THEN "FAILED_TERMINAL" ELSE "RUNNING",
         obligation[m] \in {"none", "PENDING"},
         ReduceLLM(m, o)
  PROVE  [Promise!Next]_(Promise!talk)
<1>1. stamp' = stamp /\ turns' = turns /\ Accepted' = Accepted
  BY DEF ReduceLLM, Accepted
<1>2. /\ replies[m] = 0
      /\ cycle[m] = "mandatory" <=> obligation[m] = "PENDING"
      /\ m \in reduced /\ turns[m] = 1
  BY DEF IInv, IngressInv, AnswerInv
<1>3. /\ obligation' = [obligation EXCEPT ![m] = Resolve(m, o)]
      /\ replies' = replies \/ (o = "speak" /\ replies' = [replies EXCEPT ![m] = 1])
      /\ (o = "speak" /\ cycle[m] = "mandatory") => replies' = [replies EXCEPT ![m] = 1]
  BY <1>2 DEF ReduceLLM, Speaks, TypeOK
<1>4. CASE replies' = [replies EXCEPT ![m] = 1]
  <2>1. o = "speak"
    BY <1>2, <1>3, <1>4 DEF TypeOK
  <2>2. Resolve(m, o) = IF cycle[m] = "mandatory" THEN "SATISFIED" ELSE obligation[m]
    BY <2>1 DEF Resolve
  <2>3. /\ {n \in Messages : obligation'[n] = "PENDING"} =
             {n \in Messages : obligation[n] = "PENDING"} \ {m}
        /\ {n \in Messages : obligation'[n] = "FAILED"} =
             {n \in Messages : obligation[n] = "FAILED"}
    BY <1>2, <1>3, <2>2 DEF TypeOK
  <2>4. Promise!Answer(m)
    BY <1>1, <1>2, <1>4, <2>3 DEF Promise!Answer
  <2> QED BY <2>4 DEF Promise!Next
<1>5. CASE replies' = replies /\ cycle[m] = "mandatory"
  <2>1. Resolve(m, o) = "FAILED"
    BY <1>2, <1>3, <1>5 DEF Resolve, TypeOK
  <2>2. /\ {n \in Messages : obligation'[n] = "PENDING"} =
             {n \in Messages : obligation[n] = "PENDING"} \ {m}
        /\ {n \in Messages : obligation'[n] = "FAILED"} =
             {n \in Messages : obligation[n] = "FAILED"} \cup {m}
    BY <1>3, <2>1 DEF TypeOK
  <2>3. Promise!GiveUp(m)
    BY <1>1, <1>2, <1>5, <2>2 DEF Promise!GiveUp
  <2> QED BY <2>3 DEF Promise!Next
<1>6. CASE replies' = replies /\ cycle[m] # "mandatory"
  <2>1. obligation' = obligation
    BY <1>3, <1>6 DEF Resolve, TypeOK
  <2> QED BY <1>1, <1>6, <2>1 DEF Promise!talk
<1> QED BY <1>3, <1>4, <1>5, <1>6

(* Any reduction of the head of the queue.                                   *)
LEMMA ReduceHeadPromise ==
  ASSUME TypeOK, IInv, queue # <<>>, Reduce(Head(queue))
  PROVE  [Promise!Next]_(Promise!talk)
<1> DEFINE e == Head(queue)
           m == e.msg
<1>1. e \in Event /\ e \in Contents(queue) /\ m \in Messages
  BY TailQueue DEF TypeOK, Event
<1> HIDE DEF e
<1>2. CASE e.type = "human" /\ ReduceHuman(m)
  <2>1. stamp[m] > 0 /\ m \notin reduced
    BY <1>1, <1>2 DEF IInv, IngressInv
  <2> QED BY <1>1, <1>2, <2>1, HumanHears DEF Promise!Next
<1>3. CASE e.type = "llm" /\ ReduceLLM(m, e.outcome)
  <2>1. /\ work[LLM(m)] = IF e.outcome = "error" THEN "FAILED_TERMINAL" ELSE "RUNNING"
        /\ obligation[m] \in {"none", "PENDING"}
    BY <1>1, <1>3 DEF IInv, OwnerInv, LLM
  <2>2. e.outcome \in Outcomes \cup {"none"}
    BY <1>1 DEF Event
  <2> QED BY <1>1, <1>3, <2>1, <2>2, ResultAnswers
<1>4. CASE e.type = "embed" /\ ReduceEmbedding(m)
  BY <1>4 DEF ReduceEmbedding, Promise!talk, Accepted
<1> QED BY <1>2, <1>3, <1>4 DEF Reduce, e

(* Every step of the service is a step of the conversation or no step.       *)
LEMMA PromiseStep == TypeOK /\ IInv /\ [Next]_vars => [Promise!Next]_(Promise!talk)
<1> SUFFICES ASSUME TypeOK, IInv, [Next]_vars PROVE [Promise!Next]_(Promise!talk)
  OBVIOUS
<1>1. CASE UNCHANGED <<stamp, turns, obligation, replies>>
  BY <1>1 DEF Promise!talk, Accepted
<1>2. ASSUME NEW m \in Messages, Ingest(m) PROVE [Promise!Next]_(Promise!talk)
  <2>1. CASE Newly(m)
    <3>1. m \notin Accepted /\ Accepted' = Accepted \cup {m}
      BY <1>2, <2>1 DEF Ingest, Newly, Accepted, TypeOK
    <3>2. Promise!Acknowledge(m)
      BY <1>2, <3>1 DEF Ingest, Promise!Acknowledge
    <3> QED BY <3>2 DEF Promise!Next
  <2>2. CASE ~Newly(m)
    BY <1>1, <1>2, <2>2 DEF Ingest
  <2> QED BY <2>1, <2>2
<1>3. CASE ReduceNext \/ FlushNext
  <2>1. CASE Reduce(Head(queue))
    BY <1>3, <2>1, ReduceHeadPromise DEF ReduceNext, FlushNext
  <2>2. CASE ~Reduce(Head(queue))
    BY <1>1, <1>3, <2>2 DEF ReduceNext, FlushNext
  <2> QED BY <2>1, <2>2
<1>4. CASE ReplayNext
  <2>1. PICK m \in replay : ReduceHuman(m)
    BY <1>4 DEF ReplayNext
  <2>2. m \in Messages /\ stamp[m] > 0 /\ m \notin reduced
    BY DEF IInv, IngressInv, Accepted, TypeOK
  <2>3. Promise!Hear(m)
    BY <2>1, <2>2, HumanHears
  <2> QED BY <2>2, <2>3 DEF Promise!Next
<1>5. [Next]_vars => \/ UNCHANGED <<stamp, turns, obligation, replies>>
                     \/ ReduceNext \/ FlushNext \/ ReplayNext
                     \/ \E m \in Messages : Ingest(m)
  BY DEF Next, vars, durable, Worker, Startup, Shutdown, ReduceRaises, DispatchNext,
         WorkerReturns, RetryAttempt, FailTerminal, Recover, Stop, FinishDrain,
         Suspend, Crash, Redispatch, GoLive
<1> QED BY <1>1, <1>2, <1>3, <1>4, <1>5

(* For any messages, retries, crashes and raising reductions, the service     *)
(* keeps the promise of Conversation: acknowledged messages are heard once,   *)
(* answered at most once, and an owed answer is given or given up.           *)
THEOREM KeepsPromiseHolds == Spec => KeepsPromise
<1>1. Init => Promise!Init
  BY DEF Init, Promise!Init, Accepted
<1> QED BY <1>1, PromiseStep, Invariance, PTL DEF Spec, KeepsPromise, Promise!Spec
=============================================================================
