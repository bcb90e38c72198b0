------------------------------- MODULE Portal -------------------------------
(***************************************************************************)
(* The portal between op-node and its two engines, the fallback and the    *)
(* gateway whose turn it is, with the registry that says whose turn it is  *)
(* (based/bin/portal/src/server.rs, based/bin/gateway_registry/src).       *)
(*                                                                         *)
(* A handler is an async task: an action ends where the code awaits an     *)
(* answer, so handlers and the background refresh interleave there.  Any   *)
(* request may fail or time out.  The engines' answers are left open: a    *)
(* gateway may offer a payload that the fallback finds valid, one that it  *)
(* does not, or none.                                                      *)
(***************************************************************************)
EXTENDS Integers, Sequences, FiniteSets, SequencesExt

CONSTANTS
    Call,           \* concurrent calls of the engine API
    GatewayList,    \* what the registry's file may hold
    UpdateBlocks,   \* gateway_update_blocks: blocks of a turn
    DefaultNet,     \* the gateway of a portal started without registry
    MaxHead,        \* bound: block numbers
    MaxCalls        \* bound: calls

ASSUME UpdateBlocksAssumption == UpdateBlocks \in Nat \ {0}
ASSUME GatewayListAssumption ==
    \A l \in GatewayList : l \in Seq(ToSet(l)) /\ DefaultNet \notin ToSet(l)

VARIABLES
    head,           \* block number of the fallback
    accepted,       \* history: heads of the forkchoice updates the fallback has answered
    registered,     \* gateway_clients of the registry
    up,             \* whether requests to the registry succeed
    gateways,       \* PortalServer::gateways
    current,        \* PortalServer::current_gateway
    task,           \* the handlers and the background refresh
    sent,           \* newPayload and forkchoice messages last sent to gateways
    calls           \* calls so far

fallbackVars == <<head, accepted>>
registryVars == <<registered, up>>
vars         == <<fallbackVars, registryVars, gateways, current, task, sent, calls>>

Background == "background"
ASSUME BackgroundIsNoCall == Background \notin Call

Task == Call \cup {Background}

\* get_future_gateway(0) for a fallback at block number h.
Turn(list, h) == list[1 + (((h + 1) \div UpdateBlocks) % Len(list))]

\* With an empty list the handler panics, and the client gets an error.
RegistryAnswers == up /\ registered # <<>>

\* answer: the gateway of this task's refresh.  fallback, gateway: the two answers to a
\* getPayload.  good: whether the fallback finds the gateway's payload valid.  result: whose
\* payload the last getPayload has returned.
Idle == [pc |-> "idle", block |-> 0, attributes |-> FALSE, answer |-> DefaultNet,
         fallback |-> "none", gateway |-> "none", good |-> FALSE, result |-> "none"]

\* PortalServer::new: each of the two requests to the registry may fail.
PortalInit ==
    /\ head = 0 /\ accepted = {}
    /\ registered \in GatewayList \ {<<>>}
    /\ up \in BOOLEAN
    /\ current \in {Turn(registered, head), DefaultNet}
    /\ gateways \in {registered, <<>>}
    /\ task = [t \in Task |-> Idle]
    /\ sent = {}
    /\ calls = 0

At(t, pc)   == task[t].pc = pc
Goto(t, pc) == task' = [task EXCEPT ![t].pc = pc]
Done(t)     == task' = [task EXCEPT ![t] = Idle]
Called(c)   == At(c, "idle") /\ calls < MaxCalls /\ calls' = calls + 1
ToAll(type, n) == {[type |-> type, to |-> g, block |-> n] : g \in ToSet(gateways)}

-----------------------------------------------------------------------------
(* The registry. *)

\* refresh_gateway_clients, every 30 s: the file may have become empty.
RegistryReload ==
    /\ registered' \in GatewayList
    /\ UNCHANGED <<fallbackVars, up, gateways, current, task, sent, calls>>

RegistryReachable ==
    /\ up' = ~ up
    /\ UNCHANGED <<fallbackVars, registered, gateways, current, task, sent, calls>>

-----------------------------------------------------------------------------
(* PortalServer::refresh, by the background task and by forkchoice updates. *)

StartRefresh ==
    /\ At(Background, "idle")
    /\ Goto(Background, "refresh")
    /\ UNCHANGED <<fallbackVars, registryVars, gateways, current, sent, calls>>

\* The registry answers current_gateway; the portal hears of it in its next step.
AskCurrent(t) ==
    /\ At(t, "refresh")
    /\ RegistryAnswers
    /\ task' = [task EXCEPT ![t].pc = "answered", ![t].answer = Turn(registered, head)]
    /\ UNCHANGED <<fallbackVars, registryVars, gateways, current, sent, calls>>

\* An error ends the background refresh until the next second, and starts that of a
\* forkchoice update again.
RefreshFails(t) ==
    /\ \/ At(t, "refresh") /\ ~ RegistryAnswers
       \/ At(t, "listing") /\ ~ up
    /\ IF t = Background THEN Done(t) ELSE Goto(t, "refresh")
    /\ UNCHANGED <<fallbackVars, registryVars, gateways, current, sent, calls>>

\* Where a task goes on after its refresh.
Refreshed(t) == IF t = Background THEN Done(t) ELSE Goto(t, "pick")

\* A portal without gateways asks for the registered ones before it stores the answer.
AskForGateways(t) ==
    /\ At(t, "answered")
    /\ gateways = <<>>
    /\ Goto(t, "listing")
    /\ UNCHANGED <<fallbackVars, registryVars, gateways, current, sent, calls>>

StoreBoth(t) ==
    /\ At(t, "listing")
    /\ up
    /\ Refreshed(t)
    /\ gateways' = registered
    /\ current' = task[t].answer
    /\ UNCHANGED <<fallbackVars, registryVars, sent, calls>>

\* Mutant: a portal that has a gateway keeps it.
StoreOnce(t) ==
    /\ At(t, "answered")
    /\ gateways # <<>>
    /\ Refreshed(t)
    /\ current' = IF current = DefaultNet THEN task[t].answer ELSE current
    /\ UNCHANGED <<fallbackVars, registryVars, gateways, sent, calls>>

\* Mutant: a forkchoice update waits until the registry names another gateway.
WaitForAnother(t) ==
    /\ At(t, "answered")
    /\ gateways # <<>>
    /\ IF t # Background /\ current = task[t].answer THEN Goto(t, "refresh") ELSE Refreshed(t)
    /\ current' = task[t].answer
    /\ UNCHANGED <<fallbackVars, registryVars, gateways, sent, calls>>

StoreCurrent(t) ==
    /\ At(t, "answered")
    /\ gateways # <<>>
    /\ Refreshed(t)
    /\ current' = task[t].answer
    /\ UNCHANGED <<fallbackVars, registryVars, gateways, sent, calls>>

-----------------------------------------------------------------------------
(* fork_choice_updated_v3 *)

\* Mutant: the gateways are told at once, like new payloads are.
TellAtOnce(c, n, attributes) ==
    /\ Called(c)
    /\ task' = [task EXCEPT ![c] = [Idle EXCEPT
           !.pc = "forkchoice", !.block = n, !.attributes = attributes]]
    /\ sent' = ToAll("forkchoice", n)
    /\ UNCHANGED <<fallbackVars, registryVars, gateways, current>>

ForkChoiceUpdated(c, n, attributes) ==
    /\ Called(c)
    /\ task' = [task EXCEPT ![c] = [Idle EXCEPT
           !.pc = "forkchoice", !.block = n, !.attributes = attributes]]
    /\ UNCHANGED <<fallbackVars, registryVars, gateways, current, sent>>

FallbackRefuses(c) ==
    /\ At(c, "forkchoice")
    /\ Done(c)
    /\ UNCHANGED <<fallbackVars, registryVars, gateways, current, sent, calls>>

\* The fallback answers, whatever the status: it follows the head or it does not, and the
\* portal does not look.  Then one gateway or all of them are told.
FallbackAnswers(c) ==
    LET pick == task[c].attributes /\ gateways # <<>>
    IN  /\ At(c, "forkchoice")
        /\ head' \in {head, task[c].block}
        /\ accepted' = accepted \cup {task[c].block}
        /\ IF pick THEN Goto(c, "refresh") ELSE Done(c)
        /\ sent' = IF task[c].attributes THEN sent ELSE ToAll("forkchoice", task[c].block)
        /\ UNCHANGED <<registryVars, gateways, current, calls>>

\* send_fcu to the gateway that is current now.
Pick(c) ==
    /\ At(c, "pick")
    /\ Done(c)
    /\ sent' = {[type |-> "build", to |-> current, block |-> task[c].block]}
    /\ UNCHANGED <<fallbackVars, registryVars, gateways, current, calls>>

-----------------------------------------------------------------------------
(* new_payload_v3: all gateways are told, then the fallback, whose answer it is. *)

NewPayload(c, n) ==
    /\ Called(c)
    /\ task' = [task EXCEPT ![c] = [Idle EXCEPT !.pc = "newPayload"]]
    /\ sent' = ToAll("newPayload", n)
    /\ UNCHANGED <<fallbackVars, registryVars, gateways, current>>

FallbackImports(c) ==
    /\ At(c, "newPayload")
    /\ Done(c)
    /\ UNCHANGED <<fallbackVars, registryVars, gateways, current, sent, calls>>

-----------------------------------------------------------------------------
(* get_payload_v3: the fallback and the current gateway are asked at the same time. *)

GetPayload(c) ==
    /\ Called(c)
    /\ task' = [task EXCEPT ![c] = [Idle EXCEPT
           !.pc = "getPayload", !.answer = current, !.fallback = "asked", !.gateway = "asked"]]
    /\ UNCHANGED <<fallbackVars, registryVars, gateways, current, sent>>

FallbackPayload(c) ==
    /\ At(c, "getPayload") /\ task[c].fallback = "asked"
    /\ \E a \in {"payload", "error"} : task' = [task EXCEPT ![c].fallback = a]
    /\ UNCHANGED <<fallbackVars, registryVars, gateways, current, sent, calls>>

GatewayPayload(c) ==
    /\ At(c, "getPayload") /\ task[c].gateway = "asked"
    /\ \/ task' = [task EXCEPT ![c].gateway = "error"]
       \/ \E good \in BOOLEAN : task' = [task EXCEPT ![c].gateway = "unchecked", ![c].good = good]
    /\ UNCHANGED <<fallbackVars, registryVars, gateways, current, sent, calls>>

\* Mutant: a fallback that cannot be reached validates the payload.
AcceptUnlessInvalid(c) ==
    /\ At(c, "getPayload") /\ task[c].gateway = "unchecked"
    /\ \E reached \in BOOLEAN : task' = [task EXCEPT
           ![c].gateway = IF reached /\ ~ task[c].good THEN "error" ELSE "payload"]
    /\ UNCHANGED <<fallbackVars, registryVars, gateways, current, sent, calls>>

\* The gateway's payload is given to the fallback as a new payload.
ValidatePayload(c) ==
    /\ At(c, "getPayload") /\ task[c].gateway = "unchecked"
    /\ \E reached \in BOOLEAN : task' = [task EXCEPT
           ![c].gateway = IF reached /\ task[c].good THEN "payload" ELSE "error"]
    /\ UNCHANGED <<fallbackVars, registryVars, gateways, current, sent, calls>>

\* gateway.or(fallback), when both have answered.
JoinPayload(c) ==
    /\ At(c, "getPayload")
    /\ {task[c].fallback, task[c].gateway} \subseteq {"payload", "error"}
    /\ task' = [task EXCEPT ![c].pc = "idle", ![c].result =
           IF task[c].gateway = "payload" THEN "gateway"
           ELSE IF task[c].fallback = "payload" THEN "fallback" ELSE "error"]
    /\ UNCHANGED <<fallbackVars, registryVars, gateways, current, sent, calls>>

-----------------------------------------------------------------------------
Refresh(t) ==
    \/ AskCurrent(t) \/ RefreshFails(t) \/ AskForGateways(t)
    \/ StoreBoth(t) \/ StoreCurrent(t)

\* What a call does once it has been made.
Handle(c) ==
    \/ FallbackRefuses(c) \/ FallbackAnswers(c) \/ Refresh(c) \/ Pick(c)
    \/ FallbackImports(c)
    \/ FallbackPayload(c) \/ GatewayPayload(c) \/ ValidatePayload(c) \/ JoinPayload(c)

OpNode(c) ==
    \/ GetPayload(c)
    \/ \E n \in 1 .. MaxHead : NewPayload(c, n)
    \/ \E n \in 1 .. MaxHead, attributes \in BOOLEAN : ForkChoiceUpdated(c, n, attributes)

PortalNext ==
    \/ RegistryReload \/ RegistryReachable
    \/ StartRefresh \/ Refresh(Background)
    \/ \E c \in Call : OpNode(c) \/ Handle(c)

\* Every request ends, by an answer or by its timeout, and the background task starts a
\* refresh every second.
PortalFairness ==
    /\ WF_vars(StartRefresh \/ Refresh(Background))
    /\ \A c \in Call : WF_vars(Handle(c))

PortalSpec == PortalInit /\ [][PortalNext]_vars /\ PortalFairness

-----------------------------------------------------------------------------
\* get_payload_v3 never hands op-node a payload that the fallback has not found valid,
\* and fails only if the fallback has no payload either, whatever the gateway does.
PayloadIsUsable ==
    \A c \in Call :
        /\ task[c].result = "gateway" => task[c].good
        /\ task[c].result = "error" => task[c].fallback = "error"

\* fork_choice_updated_v3 tells gateways to follow a head, or to build on it, only once
\* the fallback has answered for that head, however many requests to the registry and
\* other calls lie in between: a call that fails at the fallback reaches no gateway.
GatewaysFollowFallback ==
    \A m \in sent : m.type # "newPayload" => m.block \in accepted

\* Every engine call returns once the registry answers again: the loop of
\* fork_choice_updated_v3 around refresh ends.
EveryCallReturns ==
    <>[]RegistryAnswers => \A c \in Call : []<>At(c, "idle")

\* An older answer of the registry may overwrite a newer one, but not for good: when head
\* and registry stay as they are, the portal comes to use the gateway whose turn it is.
RefreshHeals ==
    <>[]RegistryAnswers /\ <>[][FALSE]_<<registered, head>> =>
        <>[](RegistryAnswers => current = Turn(registered, head))
=============================================================================
