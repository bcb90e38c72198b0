---------------------------- MODULE PortalProofs ----------------------------
(***************************************************************************)
(* What the portal promises op-node and the gateways, for every set of     *)
(* calls, every registry and any number of blocks.                         *)
(***************************************************************************)
EXTENDS Portal, TLAPS

\* The record of a task keeps its fields, a payload counts as the gateway's only once
\* the fallback has validated it, and a result agrees with the answers it was made of.
TaskOK(r) ==
    /\ DOMAIN r = DOMAIN Idle
    /\ r.gateway = "payload" => r.good
    /\ r.result = "gateway" => r.gateway = "payload"
    /\ r.result = "error" => r.fallback = "error"

PortalInv == DOMAIN task = Task /\ \A t \in Task : TaskOK(task[t])

LEMMA IdleOK == TaskOK(Idle)
BY DEF TaskOK, Idle

LEMMA TaskStep ==
    ASSUME PortalInv, NEW t \in Task, NEW r, TaskOK(r), task' = [task EXCEPT ![t] = r]
    PROVE  PortalInv'
BY DEF PortalInv

LEMMA GotoInv ==
    ASSUME PortalInv, NEW t \in Task, NEW pc, Goto(t, pc)
    PROVE  PortalInv'
<1> DEFINE r == [task[t] EXCEPT !.pc = pc]
<1>1. TaskOK(r)
  BY DEF PortalInv, TaskOK, Idle
<1>2. task' = [task EXCEPT ![t] = r]
  BY DEF Goto
<1> QED BY <1>1, <1>2, TaskStep, Zenon

LEMMA DoneInv ==
    ASSUME PortalInv, NEW t \in Task, Done(t)
    PROVE  PortalInv'
BY IdleOK, TaskStep, Zenon DEF Done

LEMMA SameInv ==
    ASSUME PortalInv, UNCHANGED task
    PROVE  PortalInv'
BY DEF PortalInv

\* A refresh touches nothing but the program counter and the answer.
LEMMA RefreshInv ==
    ASSUME PortalInv, NEW t \in Task, Refresh(t)
    PROVE  PortalInv'
<1>1. CASE AskCurrent(t)
  <2> DEFINE r == [task[t] EXCEPT !.pc = "answered", !.answer = Turn(registered, head)]
  <2>1. TaskOK(r)
    BY DEF PortalInv, TaskOK, Idle
  <2>2. task' = [task EXCEPT ![t] = r]
    BY <1>1, Zenon DEF AskCurrent
  <2> QED BY <2>1, <2>2, TaskStep, Zenon
<1>2. CASE RefreshFails(t)
  BY <1>2, GotoInv, DoneInv DEF RefreshFails
<1>3. CASE AskForGateways(t)
  BY <1>3, GotoInv DEF AskForGateways
<1>4. CASE StoreBoth(t)
  BY <1>4, GotoInv, DoneInv DEF StoreBoth, Refreshed
<1>5. CASE StoreCurrent(t)
  BY <1>5, GotoInv, DoneInv DEF StoreCurrent, Refreshed
<1> QED BY <1>1, <1>2, <1>3, <1>4, <1>5 DEF Refresh

\* A new call starts without a result.
LEMMA OpNodeInv ==
    ASSUME PortalInv, NEW c \in Call, OpNode(c)
    PROVE  PortalInv'
<1> c \in Task
  BY DEF Task
<1>1. CASE GetPayload(c)
  <2> DEFINE r == [Idle EXCEPT !.pc = "getPayload", !.answer = current,
                               !.fallback = "asked", !.gateway = "asked"]
  <2>1. TaskOK(r)
    BY DEF TaskOK, Idle
  <2>2. task' = [task EXCEPT ![c] = r]
    BY <1>1 DEF GetPayload
  <2> QED BY <2>1, <2>2, TaskStep, Zenon
<1>2. ASSUME NEW n \in 1 .. MaxHead, NewPayload(c, n) PROVE PortalInv'
  <2> DEFINE r == [Idle EXCEPT !.pc = "newPayload"]
  <2>1. TaskOK(r)
    BY DEF TaskOK, Idle
  <2>2. task' = [task EXCEPT ![c] = r]
    BY <1>2 DEF NewPayload
  <2> QED BY <2>1, <2>2, TaskStep, Zenon
<1>3. ASSUME NEW n \in 1 .. MaxHead, NEW a \in BOOLEAN, ForkChoiceUpdated(c, n, a)
      PROVE  PortalInv'
  <2> DEFINE r == [Idle EXCEPT !.pc = "forkchoice", !.block = n, !.attributes = a]
  <2>1. TaskOK(r)
    BY DEF TaskOK, Idle
  <2>2. task' = [task EXCEPT ![c] = r]
    BY <1>3 DEF ForkChoiceUpdated
  <2> QED BY <2>1, <2>2, TaskStep, Zenon
<1> QED BY <1>1, <1>2, <1>3 DEF OpNode

\* The answers to a getPayload come once each, and the result is made of them.
LEMMA HandleInv ==
    ASSUME PortalInv, NEW c \in Call, Handle(c)
    PROVE  PortalInv'
<1> c \in Task
  BY DEF Task
<1> TaskOK(task[c])
  BY DEF PortalInv
<1>1. CASE FallbackRefuses(c) \/ FallbackImports(c) \/ Pick(c)
  BY <1>1, DoneInv DEF FallbackRefuses, FallbackImports, Pick
<1>2. CASE FallbackAnswers(c)
  BY <1>2, GotoInv, DoneInv DEF FallbackAnswers
<1>3. CASE Refresh(c)
  BY <1>3, RefreshInv
<1>4. CASE FallbackPayload(c)
  <2>1. PICK a \in {"payload", "error"} : task' = [task EXCEPT ![c].fallback = a]
    BY <1>4, Zenon DEF FallbackPayload
  <2> DEFINE r == [task[c] EXCEPT !.fallback = a]
  <2>2. TaskOK(r)
    BY <1>4 DEF TaskOK, Idle, FallbackPayload
  <2> QED BY <2>1, <2>2, TaskStep, Zenon
<1>5. CASE GatewayPayload(c)
  <2>1. CASE task' = [task EXCEPT ![c].gateway = "error"]
    <3> DEFINE r == [task[c] EXCEPT !.gateway = "error"]
    <3>1. TaskOK(r)
      BY <1>5 DEF TaskOK, Idle, GatewayPayload
    <3> QED BY <2>1, <3>1, TaskStep, Zenon
  <2>2. ASSUME NEW good \in BOOLEAN,
               task' = [task EXCEPT ![c].gateway = "unchecked", ![c].good = good]
        PROVE  PortalInv'
    <3> DEFINE r == [task[c] EXCEPT !.gateway = "unchecked", !.good = good]
    <3>1. TaskOK(r)
      BY <1>5 DEF TaskOK, Idle, GatewayPayload
    <3>2. task' = [task EXCEPT ![c] = r]
      BY <2>2, Zenon
    <3> QED BY <3>1, <3>2, TaskStep, Zenon
  <2> QED BY <1>5, <2>1, <2>2 DEF GatewayPayload
<1>6. CASE ValidatePayload(c)
  <2>1. PICK reached \in BOOLEAN : task' = [task EXCEPT
            ![c].gateway = IF reached /\ task[c].good THEN "payload" ELSE "error"]
    BY <1>6, Zenon DEF ValidatePayload
  <2> DEFINE r == [task[c] EXCEPT !.gateway =
                      IF reached /\ task[c].good THEN "payload" ELSE "error"]
  <2>2. TaskOK(r)
    BY <1>6 DEF TaskOK, Idle, ValidatePayload
  <2> QED BY <2>1, <2>2, TaskStep, Zenon
<1>7. CASE JoinPayload(c)
  <2> DEFINE answer == IF task[c].gateway = "payload" THEN "gateway"
                       ELSE IF task[c].fallback = "payload" THEN "fallback" ELSE "error"
             r == [task[c] EXCEPT !.pc = "idle", !.result = answer]
  <2>1. TaskOK(r)
    BY <1>7 DEF TaskOK, Idle, JoinPayload
  <2>2. task' = [task EXCEPT ![c] = r]
    BY <1>7, Zenon DEF JoinPayload
  <2> QED BY <2>1, <2>2, TaskStep, Zenon
<1> QED BY <1>1, <1>2, <1>3, <1>4, <1>5, <1>6, <1>7 DEF Handle

LEMMA NextInv == PortalInv /\ [PortalNext]_vars => PortalInv'
<1> SUFFICES ASSUME PortalInv, [PortalNext]_vars PROVE PortalInv'
  OBVIOUS
<1>1. CASE RegistryReload \/ RegistryReachable \/ UNCHANGED vars
  BY <1>1, SameInv DEF RegistryReload, RegistryReachable, vars
<1>2. CASE StartRefresh \/ Refresh(Background)
  BY <1>2, GotoInv, RefreshInv DEF StartRefresh, Task
<1>3. CASE \E c \in Call : OpNode(c) \/ Handle(c)
  BY <1>3, OpNodeInv, HandleInv
<1> QED BY <1>1, <1>2, <1>3 DEF PortalNext

\* get_payload_v3 returns a payload of the gateway only after the fallback has found it
\* valid, and an error only when the fallback has none, for any calls and any registry.
THEOREM AnswersAreUsable == PortalSpec => []PayloadIsUsable
<1>1. PortalInit => PortalInv
  BY IdleOK DEF PortalInit, PortalInv
<1>2. PortalInv => PayloadIsUsable
  BY DEF PortalInv, TaskOK, PayloadIsUsable, Task
<1> QED BY <1>1, <1>2, NextInv, PTL DEF PortalSpec

\* A call that goes on after its forkchoice is one the fallback has answered for.
ToldInv ==
    /\ GatewaysFollowFallback
    /\ \A c \in Call : task[c].pc \in {"refresh", "answered", "listing", "pick"} =>
           task[c].block \in accepted

LEMMA ToldStep ==
    ASSUME PortalInv, ToldInv, NEW t \in Task, NEW r,
           task' = [task EXCEPT ![t] = r],
           accepted \subseteq accepted',
           \A m \in sent' : m \in sent \/ m.type = "newPayload" \/ m.block \in accepted',
           t \in Call /\ r.pc \in {"refresh", "answered", "listing", "pick"} =>
               r.block \in accepted'
    PROVE  ToldInv'
BY DEF PortalInv, ToldInv, GatewaysFollowFallback, Task

LEMMA ToldRefresh ==
    ASSUME PortalInv, ToldInv, NEW t \in Task, Refresh(t)
    PROVE  ToldInv'
<1>1. TaskOK(task[t])
  BY DEF PortalInv
<1>2. UNCHANGED <<accepted, sent>>
  BY DEF Refresh, AskCurrent, RefreshFails, AskForGateways, StoreBoth, StoreCurrent, fallbackVars
<1>3. task[t].pc \in {"refresh", "answered", "listing"}
  BY DEF Refresh, AskCurrent, RefreshFails, AskForGateways, StoreBoth, StoreCurrent, At
<1>4. t \in Call => task[t].block \in accepted
  BY <1>3 DEF ToldInv
<1>5. PICK r : task' = [task EXCEPT ![t] = r] /\ (r = Idle \/ r.block = task[t].block)
  <2>1. CASE AskCurrent(t)
    <3> DEFINE r == [task[t] EXCEPT !.pc = "answered", !.answer = Turn(registered, head)]
    <3>1. task' = [task EXCEPT ![t] = r]
      BY <2>1, Zenon DEF AskCurrent
    <3>2. r.block = task[t].block
      BY <1>1 DEF TaskOK, Idle
    <3> QED BY <3>1, <3>2, Zenon
  <2>2. ASSUME NEW pc, Goto(t, pc)
        PROVE  \E r : task' = [task EXCEPT ![t] = r] /\ (r = Idle \/ r.block = task[t].block)
    <3> DEFINE r == [task[t] EXCEPT !.pc = pc]
    <3>1. task' = [task EXCEPT ![t] = r]
      BY <2>2 DEF Goto
    <3>2. r.block = task[t].block
      BY <1>1 DEF TaskOK, Idle
    <3> QED BY <3>1, <3>2, Zenon
  <2>3. ASSUME Done(t)
        PROVE  \E r : task' = [task EXCEPT ![t] = r] /\ (r = Idle \/ r.block = task[t].block)
    BY <2>3, Zenon DEF Done
  <2> QED BY <2>1, <2>2, <2>3
          DEF Refresh, RefreshFails, AskForGateways, StoreBoth, StoreCurrent, Refreshed
<1>6. Idle.pc = "idle"
  BY DEF Idle
<1> QED BY <1>2, <1>4, <1>5, <1>6, ToldStep, Zenon

LEMMA ToldOpNode ==
    ASSUME PortalInv, ToldInv, NEW c \in Call, OpNode(c)
    PROVE  ToldInv'
<1> c \in Task
  BY DEF Task
<1>1. CASE GetPayload(c)
  <2> DEFINE r == [Idle EXCEPT !.pc = "getPayload", !.answer = current,
                               !.fallback = "asked", !.gateway = "asked"]
  <2>1. r.pc = "getPayload"
    BY DEF Idle
  <2>2. task' = [task EXCEPT ![c] = r] /\ UNCHANGED <<accepted, sent>>
    BY <1>1 DEF GetPayload, fallbackVars
  <2> QED BY <2>1, <2>2, ToldStep, Zenon
<1>2. ASSUME NEW n \in 1 .. MaxHead, NewPayload(c, n) PROVE ToldInv'
  <2> DEFINE r == [Idle EXCEPT !.pc = "newPayload"]
  <2>1. r.pc = "newPayload"
    BY DEF Idle
  <2>2. task' = [task EXCEPT ![c] = r] /\ UNCHANGED accepted
    BY <1>2 DEF NewPayload, fallbackVars
  <2>3. \A m \in sent' : m.type = "newPayload"
    BY <1>2 DEF NewPayload, ToAll
  <2> QED BY <2>1, <2>2, <2>3, ToldStep, Zenon
<1>3. ASSUME NEW n \in 1 .. MaxHead, NEW a \in BOOLEAN, ForkChoiceUpdated(c, n, a)
      PROVE  ToldInv'
  <2> DEFINE r == [Idle EXCEPT !.pc = "forkchoice", !.block = n, !.attributes = a]
  <2>1. r.pc = "forkchoice"
    BY DEF Idle
  <2>2. task' = [task EXCEPT ![c] = r] /\ UNCHANGED <<accepted, sent>>
    BY <1>3 DEF ForkChoiceUpdated, fallbackVars
  <2> QED BY <2>1, <2>2, ToldStep, Zenon
<1> QED BY <1>1, <1>2, <1>3 DEF OpNode

LEMMA ToldHandle ==
    ASSUME PortalInv, ToldInv, NEW c \in Call, Handle(c)
    PROVE  ToldInv'
<1> c \in Task
  BY DEF Task
<1> TaskOK(task[c])
  BY DEF PortalInv
<1>1. Idle.pc = "idle"
  BY DEF Idle
<1>2. CASE FallbackRefuses(c) \/ FallbackImports(c)
  BY <1>1, <1>2, ToldStep DEF FallbackRefuses, FallbackImports, Done, fallbackVars
<1>3. CASE Pick(c)
  <2>1. task[c].block \in accepted
    BY <1>3 DEF Pick, At, ToldInv
  <2>2. \A m \in sent' : m.block \in accepted
    BY <1>3, <2>1 DEF Pick
  <2> QED BY <1>1, <1>3, <2>2, ToldStep, Zenon DEF Pick, Done, fallbackVars
<1>4. CASE FallbackAnswers(c)
  <2>1. accepted' = accepted \cup {task[c].block}
    BY <1>4 DEF FallbackAnswers
  <2>2. \A m \in sent' : m \in sent \/ m.block \in accepted'
    BY <1>4, <2>1 DEF FallbackAnswers, ToAll
  <2>3. CASE Goto(c, "refresh")
    <3> DEFINE r == [task[c] EXCEPT !.pc = "refresh"]
    <3>1. task' = [task EXCEPT ![c] = r]
      BY <2>3 DEF Goto
    <3>2. r.block = task[c].block
      BY DEF TaskOK, Idle
    <3>3. r.block \in accepted' /\ accepted \subseteq accepted'
      BY <2>1, <3>2
    <3> HIDE DEF r
    <3> QED BY <2>2, <3>1, <3>3, ToldStep, Zenon
  <2>4. CASE Done(c)
    BY <1>1, <2>1, <2>2, <2>4, ToldStep, Zenon DEF Done
  <2> QED BY <1>4, <2>3, <2>4 DEF FallbackAnswers
<1>5. CASE Refresh(c)
  BY <1>5, ToldRefresh
<1>6. CASE FallbackPayload(c) \/ GatewayPayload(c) \/ ValidatePayload(c)
  <2>1. UNCHANGED <<accepted, sent>>
    BY <1>6 DEF FallbackPayload, GatewayPayload, ValidatePayload, fallbackVars
  <2>2. task[c].pc = "getPayload"
    BY <1>6 DEF FallbackPayload, GatewayPayload, ValidatePayload, At
  <2>3. \A x \in Call : task'[x].pc = task[x].pc /\ task'[x].block = task[x].block
    <3>1. ASSUME NEW a, task' = [task EXCEPT ![c].fallback = a]
          PROVE  \A x \in Call : task'[x].pc = task[x].pc /\ task'[x].block = task[x].block
      BY <3>1 DEF PortalInv, TaskOK, Idle, Task
    <3>2. ASSUME NEW a, task' = [task EXCEPT ![c].gateway = a]
          PROVE  \A x \in Call : task'[x].pc = task[x].pc /\ task'[x].block = task[x].block
      BY <3>2 DEF PortalInv, TaskOK, Idle, Task
    <3>3. ASSUME NEW a, task' = [task EXCEPT ![c].gateway = "unchecked", ![c].good = a]
          PROVE  \A x \in Call : task'[x].pc = task[x].pc /\ task'[x].block = task[x].block
      BY <3>3 DEF PortalInv, TaskOK, Idle, Task
    <3> QED BY <1>6, <3>1, <3>2, <3>3 DEF FallbackPayload, GatewayPayload, ValidatePayload
  <2> QED BY <2>1, <2>3 DEF ToldInv, GatewaysFollowFallback
<1>7. CASE JoinPayload(c)
  <2> DEFINE answer == IF task[c].gateway = "payload" THEN "gateway"
                       ELSE IF task[c].fallback = "payload" THEN "fallback" ELSE "error"
             r == [task[c] EXCEPT !.pc = "idle", !.result = answer]
  <2>1. r.pc = "idle"
    BY DEF TaskOK, Idle
  <2>2. task' = [task EXCEPT ![c] = r] /\ UNCHANGED <<accepted, sent>>
    BY <1>7, Zenon DEF JoinPayload, fallbackVars
  <2> QED BY <2>1, <2>2, ToldStep, Zenon
<1> QED BY <1>2, <1>3, <1>4, <1>5, <1>6, <1>7 DEF Handle

LEMMA ToldNext == PortalInv /\ ToldInv /\ [PortalNext]_vars => ToldInv'
<1> SUFFICES ASSUME PortalInv, ToldInv, [PortalNext]_vars PROVE ToldInv'
  BY Zenon
<1>1. CASE RegistryReload \/ RegistryReachable \/ UNCHANGED vars
  BY <1>1 DEF RegistryReload, RegistryReachable, vars, fallbackVars, ToldInv, GatewaysFollowFallback
<1>2. CASE StartRefresh
  <2> DEFINE r == [task[Background] EXCEPT !.pc = "refresh"]
  <2>1. task' = [task EXCEPT ![Background] = r] /\ UNCHANGED <<accepted, sent>>
    BY <1>2 DEF StartRefresh, Goto, fallbackVars
  <2> QED BY <2>1, BackgroundIsNoCall, ToldStep, Zenon DEF Task
<1>3. CASE Refresh(Background)
  BY <1>3, ToldRefresh DEF Task
<1>4. CASE \E c \in Call : OpNode(c) \/ Handle(c)
  BY <1>4, ToldOpNode, ToldHandle
<1> QED BY <1>1, <1>2, <1>3, <1>4 DEF PortalNext

\* fork_choice_updated_v3 tells gateways only of heads that the fallback has answered for,
\* for any calls, any registry and any number of blocks.
THEOREM GatewaysStayBehind == PortalSpec => []GatewaysFollowFallback
<1>1. PortalInit => PortalInv /\ ToldInv
  BY IdleOK DEF PortalInit, PortalInv, ToldInv, GatewaysFollowFallback, Idle, Task
<1>2. ToldInv => GatewaysFollowFallback
  BY DEF ToldInv
<1> QED BY <1>1, <1>2, NextInv, ToldNext, PTL DEF PortalSpec
=============================================================================
