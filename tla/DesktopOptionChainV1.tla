------------------------- MODULE DesktopOptionChainV1 -------------------------
(***************************************************************************)
(* The desktop's option chain manager and the router that splits the       *)
(* broker's ticks between it, the futures proxy and the spot feed.  The    *)
(* first spot tick of an underlying resolves its option universe,          *)
(* subscribes it and builds its stack of live and analytics integrations;  *)
(* a failure on the way leaves what was done before it.                    *)
(***************************************************************************)
EXTENDS Naturals, FiniteSets

CONSTANTS
  NoOwner,        \* a token that no underlying owns
  Indices,        \* the supported underlyings
  UniversesOf(_)  \* the sets of option tokens an underlying's resolver may return

Tokens == UNION UNION {UniversesOf(u) : u \in Indices}

ASSUME UniversesAreNamed == \A u \in Indices : {} \notin UniversesOf(u) /\ NoOwner \notin Indices

VARIABLES
  mgr,     \* [started, stopped, resolver]: the manager
  inst,    \* underlying -> [state, resolved, active, ready, stack]
  owner,   \* token -> the underlying that owns it, or NoOwner
  stream,  \* tokens the broker streams for the manager, external
  served   \* underlying -> the integrations of its stack run

deskVars == <<mgr, inst, owner, stream, served>>

DesktopOptionChainRuntimeState ==
  {"disabled", "starting", "discovering_contracts", "waiting_for_spot", "subscribing",
   "receiving", "error"}

(* `resolved` stands for an option token count above 0. *)
InstrumentState ==
  [state: DesktopOptionChainRuntimeState, resolved: BOOLEAN, active: BOOLEAN,
   ready: BOOLEAN, stack: BOOLEAN]

DeskInit ==
  /\ mgr = [started |-> FALSE, stopped |-> FALSE, resolver |-> FALSE]
  /\ inst = [u \in Indices |-> [state |-> "disabled", resolved |-> FALSE, active |-> FALSE,
                                ready |-> FALSE, stack |-> FALSE]]
  /\ owner = [t \in Tokens |-> NoOwner]
  /\ stream = {}
  /\ served = [u \in Indices |-> FALSE]

Owned(u) == {t \in Tokens : owner[t] = u}

-----------------------------------------------------------------------------
(* start(): discovery raises, or finds contracts for some underlyings. *)
StartDiscovery ==
  /\ ~mgr.started
  /\ \/ /\ inst' = [u \in Indices |-> [inst[u] EXCEPT !.state = "error"]]
        /\ mgr' = mgr
     \/ \E available \in SUBSET Indices :
          /\ inst' = [u \in Indices |->
                        [inst[u] EXCEPT !.state = IF u \in available THEN "waiting_for_spot"
                                                  ELSE "error"]]
          /\ mgr' = [started |-> TRUE, stopped |-> FALSE, resolver |-> TRUE]
  /\ UNCHANGED <<owner, stream, served>>

(* stop(): the integrations stop; nothing is unsubscribed or forgotten. *)
StopManager ==
  /\ ~mgr.stopped
  /\ mgr' = [mgr EXCEPT !.stopped = TRUE]
  /\ served' = [u \in Indices |-> FALSE]
  /\ UNCHANGED <<inst, owner, stream>>

-----------------------------------------------------------------------------
(* _stack_for(): each outcome with what it leaves behind. *)

Outcome(i, o, s, ok) == [inst |-> i, owner |-> o, stream |-> s, ok |-> ok]

Taken(tokens, u) == [t \in Tokens |-> IF t \in tokens THEN u ELSE owner[t]]

Freed(tokens) == [t \in Tokens |-> IF t \in tokens THEN NoOwner ELSE owner[t]]

(* A failed activation gives the ownership back. *)
ActivationRaises(i, u, tokens) ==
  {Outcome([i EXCEPT !.active = FALSE], Freed(tokens), s, FALSE)
     : s \in {stream, stream \cup tokens}}

(* The ownership is kept. *)
ActivationRaisesOwned(i, u, tokens) ==
  {Outcome([i EXCEPT !.active = FALSE], Taken(tokens, u), s, FALSE)
     : s \in {stream, stream \cup tokens}}

ActivationOutcomes(i, u, tokens) == ActivationRaises(i, u, tokens)

(* Resolving fails; a token is owned already; activating fails; or the      *)
(* stack is built, or building it fails after the activation.               *)
StackFor(u) ==
  IF inst[u].stack THEN {Outcome(inst[u], owner, stream, TRUE)}
  ELSE
    {Outcome(inst[u], owner, stream, FALSE)}
      \cup UNION {LET resolved == [inst[u] EXCEPT !.resolved = TRUE,
                                                  !.state = "discovering_contracts"]
                      subscribing == [resolved EXCEPT !.state = "subscribing"]
                      activated == [subscribing EXCEPT !.active = TRUE]
                  IN IF \E t \in tokens : owner[t] # NoOwner
                       THEN {Outcome(resolved, owner, stream, FALSE)}
                       ELSE ActivationOutcomes(subscribing, u, tokens)
                              \cup {Outcome(activated, Taken(tokens, u), stream \cup tokens, FALSE),
                                    Outcome([activated EXCEPT !.stack = TRUE],
                                            Taken(tokens, u), stream \cup tokens, TRUE)}
                  : tokens \in UniversesOf(u)}

(* An underlying whose discovery failed only notes the price. *)
Ignored(u) == inst[u].state = "error" /\ ~inst[u].resolved

(* deliver_spot_ticks(), a readable row: the price then goes to the live    *)
(* integration, which refuses it when it is stopped or the price is old.     *)
DeliverSpotTick ==
  \E u \in Indices, accepted \in BOOLEAN :
    /\ mgr.started /\ mgr.resolver /\ ~Ignored(u)
    /\ \E o \in StackFor(u) :
         LET built == o.ok /\ ~inst[u].stack
             serving == IF built THEN TRUE ELSE served[u]
         IN /\ inst' = [inst EXCEPT ![u] = IF o.ok /\ serving /\ accepted THEN o.inst
                                           ELSE [o.inst EXCEPT !.state = "error"]]
            /\ owner' = o.owner /\ stream' = o.stream
            /\ served' = [served EXCEPT ![u] = serving]
    /\ UNCHANGED mgr

(* The rows the router hands to the manager: it looks the owned tokens up    *)
(* after the manager has seen the spot rows of the same batch.               *)
Routed(u) == Owned(u) \cap stream

(* deliver_option_ticks(): rows of owned tokens whose underlying has a       *)
(* stack; with a chain assembled once the underlying is receiving.           *)
DeliverOptionTicks ==
  \E u \in Indices, assembled \in BOOLEAN, raises \in BOOLEAN :
    /\ mgr.started
    /\ Routed(u) # {} /\ inst[u].stack
    /\ inst' = [inst EXCEPT ![u] =
                  IF ~served[u] \/ raises THEN [@ EXCEPT !.state = "error"]
                  ELSE IF assembled THEN [@ EXCEPT !.state = "receiving", !.ready = TRUE]
                  ELSE @]
    /\ UNCHANGED <<mgr, owner, stream, served>>

DeskNext == StartDiscovery \/ StopManager \/ DeliverSpotTick \/ DeliverOptionTicks

DeskSpec == DeskInit /\ [][DeskNext]_deskVars

-----------------------------------------------------------------------------
DeskTypeOK ==
  /\ mgr \in [started: BOOLEAN, stopped: BOOLEAN, resolver: BOOLEAN]
  /\ inst \in [Indices -> InstrumentState]
  /\ owner \in [Tokens -> Indices \cup {NoOwner}]
  /\ stream \subseteq Tokens

(* However many spot ticks tried and failed to build a stack, a token the   *)
(* router hands to the manager is one the broker streams for it, and an      *)
(* underlying that owns tokens without a stack says so by its error.         *)
OwnedTokensAccountedFor ==
  \A u \in Indices :
    /\ Owned(u) \subseteq stream
    /\ Owned(u) # {} => inst[u].stack \/ inst[u].state = "error"
=============================================================================
