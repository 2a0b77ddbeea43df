---------------------------- MODULE HsmTransition ----------------------------
(***************************************************************************)
(* The hierarchical state machine engine of the event driven framework     *)
(* (edf_hsm.c): an event bubbles from the current state up to the state    *)
(* that takes it, and the transition runs the exit and entry actions of    *)
(* the states between its source and its target, then the initial          *)
(* transitions of the target.  One step is one reserved event dispatched   *)
(* to a state handler.                                                     *)
(***************************************************************************)
EXTENDS Naturals, Sequences, SequencesExt, FiniteSets

CONSTANTS
  State,       \* the states of the application's machine
  TOP,         \* EDF_hsm_top
  Parent,      \* the superstate of each state
  InitialOf,   \* the initial transitions: a function on the states that have one
  Starts,      \* the targets of the top-most initial transitions, one per machine
  Arcs,        \* the transitions: pairs of a source and a target
  MAX_DEPTH    \* EDF_HSM_MAX_DEPTH

ASSUME HierarchyAssumption ==
  /\ TOP \notin State
  /\ Parent \in [State -> State \cup {TOP}]
  /\ DOMAIN InitialOf \subseteq State
  /\ \A s \in DOMAIN InitialOf : InitialOf[s] \in State
  /\ Starts \subseteq State
  /\ Arcs \subseteq State \X State
  /\ MAX_DEPTH \in Nat \ {0, 1, 2}

\* No state is a superstate of its own: a handler that is asked again and again for
\* the superstate reaches EDF_hsm_top.
ASSUME NoCycleAssumption ==
  \A S \in SUBSET State : S # {} => \E s \in S : Parent[s] \notin S

VARIABLES
  current_state,
  phase,      \* "settled", or "moving" while a transition is being executed
  source,     \* the state that took the event
  target,     \* the target of the (initial) transition being executed
  todo,       \* the exit and entry actions still to run
  active,     \* history: the states entered and not exited
  stopped     \* EAF_ASSERT(t_found) has stopped the program

hsmVars == <<current_state, phase, source, target, todo, active, stopped>>

\* A state and its superstates, innermost first.
Up[s \in State \cup {TOP}] == IF s = TOP THEN <<TOP>> ELSE <<s>> \o Up[Parent[s]]

\* The depth that the comment of test/hsm/src/hsm.c asks to verify: the arrays hold
\* the way from each state to the top one.
ASSUME DepthAssumption == \A s \in State : Len(Up[s]) <= MAX_DEPTH

\* An initial transition leads into the state that has it.
ASSUME InitialAssumption == \A s \in DOMAIN InitialOf : s \in ToSet(Up[InitialOf[s]])

\* The same, as far as an array of EDF_HSM_MAX_DEPTH handlers holds it.
Climb(s) == SubSeq(Up[s], 1, IF Len(Up[s]) < MAX_DEPTH THEN Len(Up[s]) ELSE MAX_DEPTH)

\* The part of a path below the state s of it.
Below(path, s) == SubSeq(path, 1, (CHOOSE i \in DOMAIN path : path[i] = s) - 1)

Path(exits, enters) == [exits |-> exits, enters |-> enters, found |-> TRUE]
NoPath == [exits |-> <<>>, enters |-> <<>>, found |-> FALSE]

\* EDF_hsm_getTransitionPath(): the states to exit and to enter, both innermost
\* first.  The last case takes the first state of the source's path, from its end,
\* that the target's path has too.
TransitionPath(s, t) ==
  LET e_path == Climb(t)
      x_path == Climb(s)
      common == {i \in DOMAIN x_path : x_path[i] \in ToSet(e_path)}
      x_i    == CHOOSE i \in common : \A j \in common : j <= i
  IN CASE s = t -> Path(<<s>>, <<t>>)
       [] s # t /\ s \in ToSet(e_path) -> Path(<<>>, Below(e_path, s))
       [] s \notin ToSet(e_path) /\ t \in ToSet(x_path) -> Path(Below(x_path, t), <<>>)
       [] OTHER -> IF common = {} THEN NoPath
                   ELSE Path(Below(x_path, x_path[x_i]), Below(e_path, x_path[x_i]))

Exits(path)  == [i \in DOMAIN path |-> <<"exit", path[i]>>]
Enters(path) == LET r == Reverse(path) IN [i \in DOMAIN r |-> <<"enter", r[i]>>]

\* EDF_hsm_start(): the entry path of the top-most initial transition.
HsmInit ==
  /\ current_state = TOP
  /\ phase = "moving"
  /\ source = TOP
  /\ target \in Starts
  /\ todo = Enters(Below(Up[target], TOP))
  /\ active = {}
  /\ stopped = FALSE

\* Mutant: the states between the current one and the source are not exited.
TransitFromSource(s, t) ==
  LET path == TransitionPath(s, t) IN
  /\ phase = "settled"
  /\ ~stopped
  /\ s \in ToSet(Climb(current_state))
  /\ source' = s
  /\ target' = t
  /\ todo' = Exits(path.exits) \o Enters(path.enters)
  /\ stopped' = ~path.found
  /\ phase' = "moving"
  /\ UNCHANGED <<current_state, active>>

\* EDF_hsm_dispatch(): a state that takes the event with a transition is the
\* current state or one of its superstates; the states up to it are exited, then
\* the transition is executed.
Transit(s, t) ==
  LET path == TransitionPath(s, t) IN
  /\ phase = "settled"
  /\ ~stopped
  /\ s \in ToSet(Climb(current_state))
  /\ source' = s
  /\ target' = t
  /\ todo' = Exits(Below(Up[current_state], s))
               \o Exits(path.exits) \o Enters(path.enters)
  /\ stopped' = ~path.found
  /\ phase' = "moving"
  /\ UNCHANGED <<current_state, active>>

\* Which one does is the application's choice of handlers and guards.
Dispatch == \E arc \in Arcs : Transit(arc[1], arc[2])

\* One exit or entry action.
RunAction ==
  /\ phase = "moving"
  /\ ~stopped
  /\ todo # <<>>
  /\ LET s == Head(todo)[2] IN
       active' = IF Head(todo)[1] = "exit" THEN active \ {s} ELSE active \cup {s}
  /\ todo' = Tail(todo)
  /\ UNCHANGED <<current_state, phase, source, target, stopped>>

\* The target's own initial transition, from it down to the new target.
InitialTransition ==
  /\ phase = "moving"
  /\ ~stopped
  /\ todo = <<>>
  /\ target \in DOMAIN InitialOf
  /\ target' = InitialOf[target]
  /\ todo' = Enters(Below(Climb(InitialOf[target]), target))
  /\ UNCHANGED <<current_state, phase, source, active, stopped>>

Settle ==
  /\ phase = "moving"
  /\ ~stopped
  /\ todo = <<>>
  /\ target \notin DOMAIN InitialOf
  /\ current_state' = target
  /\ phase' = "settled"
  /\ UNCHANGED <<source, target, todo, active, stopped>>

HsmNext == Dispatch \/ RunAction \/ InitialTransition \/ Settle

HsmSpec == HsmInit /\ [][HsmNext]_hsmVars

-----------------------------------------------------------------------------
(* Properties *)

\* Once a transition has settled, the states entered and not exited are exactly
\* the current state and its superstates, and it is a state whose initial
\* transitions are exhausted (EDF_hsm_dispatch with EDF_hsm_executeTransition).
ActiveStatesAreCurrent ==
  phase = "settled" =>
    /\ active = ToSet(Up[current_state]) \ {TOP}
    /\ current_state \notin DOMAIN InitialOf

\* Actions nest: a state is exited while it is active and none of its substates is,
\* and entered while it is not active and its superstate is.
ActionsNest ==
  todo # <<>> /\ ~stopped =>
    LET s == Head(todo)[2] IN
      IF Head(todo)[1] = "exit"
      THEN s \in active /\ \A c \in active : Parent[c] # s
      ELSE s \notin active /\ Parent[s] \in active \cup {TOP}

\* A path always exists when EDF_HSM_MAX_DEPTH covers the hierarchy and the top
\* state: EAF_ASSERT(t_found) never fails.
PathIsFound == ~stopped

\* All three: the machine is always where its entry and exit actions say it is.
ConfigurationIsExact == ActiveStatesAreCurrent /\ ActionsNest /\ PathIsFound

Superstates(s) == ToSet(Up[s]) \ {s}

\* A transition between branches exits and re-enters no common superstate of its
\* source and target (edf_hsm.c, Case 4: Between Branches).
ExitsStayBelowLCA ==
  todo # <<>> /\ Head(todo)[1] = "exit" =>
    Head(todo)[2] \notin Superstates(source) \cap Superstates(target)

=============================================================================
