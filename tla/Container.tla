------------------------------- MODULE Container -------------------------------
(***************************************************************************)
(* The dependency container: providers are registered under names, and     *)
(* resolving a name builds the object and everything its constructor asks  *)
(* for.  A provider runs inside the call that needs it, so that the calls  *)
(* form a stack, and errors unwind it.                                     *)
(*                                                                         *)
(* A name stands for a type and its key.  An object is the number of its   *)
(* registration and which instance of it this is.                          *)
(***************************************************************************)
EXTENDS Naturals, Sequences

CONSTANTS
    Wirings,   \* sequences of registrations, in the order of the calls that make them
    Wanted,    \* the requests the application makes
    MaxCalls,  \* how many it makes
    MaxFails   \* how many constructors raise an error of their own

Singular == {"one", "config", "optional", "default", "lazy", "callable"}
Plural   == {"all", "each"}
Deferred == {"lazy", "callable", "each", "lookup"}

\* What is asked for.  used: whether the constructor needs its argument at once.
Requests ==
    [shape : Singular \cup Plural \cup Deferred \cup {"opaque"}, name : STRING, used : BOOLEAN]

\* all: whether the registration belongs to a collection; makes: what its provider returns,
\* "alien" for an object of another type; params: the requests it makes, one after the other.
Registrations ==
    [all : BOOLEAN, name : STRING, makes : {"object", "none", "alien"}, singleton : BOOLEAN,
     params : Seq(Requests)]

ASSUME WiringsAssumption ==
    /\ \A w \in Wirings : w \in Seq(Registrations)
    /\ \A request \in Wanted : request \in Requests /\ request.shape # "opaque"

VARIABLES
    wiring,      \* the registrations of this application
    tried,       \* how many of them it has made, or tried to make
    accepted,    \* those which are in `_registrations`
    frozen,
    obj,         \* registration -> the instance it keeps, or NotSet
    inCall,
    made,        \* registration -> number of instances constructed
    stack,       \* the calls under way, the application's first
    flow,        \* "idle", "run", "return" or "raise"
    val,         \* what is returned or raised, the result of the last request when idle
    lazies,      \* the `Lazy` arguments that constructors were given
    asked,       \* the last request, or NotSet
    requests, fails

containerVars ==
    <<wiring, tried, accepted, frozen, obj, inCall, made, stack, flow, val, lazies,
      asked, requests, fails>>

NotSet == [kind |-> "not set"]
Nil    == [kind |-> "none"]
Later  == [kind |-> "later"]
Instance(i, n) == [kind |-> "object", reg |-> i, n |-> n]

Missing(name) == [kind |-> "missing", name |-> name]
Error(what)   == [kind |-> what]

Regs == 1..Len(wiring)

One(name) == {i \in accepted : wiring[i].name = name /\ ~wiring[i].all}

Elements(name) == {i \in accepted : wiring[i].name = name /\ wiring[i].all}

Depth == Len(stack)
Top == stack[Depth]

\* What a call asks for: the application one thing, a provider its parameters.
Params(f) == IF f.reg = 0 THEN <<f.request>> ELSE wiring[f.reg].params

Asks(f) == f.at <= Len(Params(f))
Request(f) == Params(f)[f.at]

\* `resolver.maybe_resolve`
Maybe(request) == request.shape \in {"optional", "default"}

Frame(i, request, lazy) ==
    [reg |-> i, at |-> 1, args |-> <<>>, items |-> <<>>, item |-> 0,
     request |-> request, lazy |-> lazy]

Proceed(f, arg) ==
    stack' = [stack EXCEPT ![Depth] =
                 [f EXCEPT !.at = @ + 1, !.args = Append(@, arg), !.items = <<>>, !.item = 0]]

Raise(error) == flow' = "raise" /\ val' = error

Return(value) == flow' = "return" /\ val' = value

\* The check of an instance's type
Typed(i, value) ==
    IF wiring[i].makes = "alien" THEN Raise(Error("internal")) ELSE Return(value)

---------------------------------------------------------------------------
ContainerInit ==
    /\ wiring \in Wirings
    /\ tried = 0 /\ accepted = {} /\ frozen = FALSE
    /\ obj = [i \in Regs |-> NotSet]
    /\ inCall = [i \in Regs |-> FALSE]
    /\ made = [i \in Regs |-> 0]
    /\ stack = <<>> /\ flow = "idle" /\ val = NotSet /\ lazies = {} /\ asked = NotSet
    /\ requests = 0 /\ fails = 0

Refused(i) == frozen \/ (~wiring[i].all /\ One(wiring[i].name) # {})

Register ==
    /\ flow = "idle" /\ tried < Len(wiring)
    /\ tried' = tried + 1
    /\ accepted' = IF Refused(tried') THEN accepted ELSE accepted \cup {tried'}
    /\ UNCHANGED <<wiring, frozen, obj, inCall, made, stack, flow, val, lazies, asked,
                   requests, fails>>

Call(request, lazy) ==
    /\ frozen' = TRUE
    /\ stack' = <<Frame(0, request, lazy)>>
    /\ flow' = "run" /\ val' = NotSet

Ask(request) ==
    /\ flow = "idle" /\ requests < MaxCalls
    /\ requests' = requests + 1 /\ asked' = request
    /\ Call(request, NotSet)
    /\ UNCHANGED <<wiring, tried, accepted, obj, inCall, made, lazies, fails>>

\* `Lazy.get` of an argument of an object the application can reach
Reachable(l) == l.owner = val \/ \E i \in Regs : l.owner = obj[i]

GetLazy(l) ==
    /\ flow = "idle" /\ requests < MaxCalls
    /\ Reachable(l)
    /\ requests' = requests + 1
    /\ asked' = [shape |-> "one", name |-> l.name, used |-> TRUE]
    /\ IF l.value = NotSet THEN Call(asked', l)
       ELSE val' = l.value /\ UNCHANGED <<frozen, stack, flow>>
    /\ UNCHANGED <<wiring, tried, accepted, obj, inCall, made, lazies, fails>>

\* `get_instance`, in a call after those of st
Enter(st, i) ==
    IF obj[i] = NotSet /\ ~inCall[i]
    THEN /\ inCall' = [inCall EXCEPT ![i] = TRUE]
         /\ stack' = Append(st, Frame(i, NotSet, NotSet))
         /\ flow' = "run" /\ val' = NotSet
    ELSE /\ stack' = st /\ UNCHANGED inCall
         /\ IF obj[i] = NotSet THEN Raise([kind |-> "cycle", path |-> <<i>>])
            ELSE Typed(i, obj[i])

\* `DependencyContainer.resolve`, or `get` of a `Lazy` or a callable in a constructor
Resolve ==
    /\ flow = "run" /\ Asks(Top)
    /\ LET request == Request(Top) IN
       /\ request.shape \in Singular /\ request.used
       /\ \/ \E i \in One(request.name) : Enter(stack, i)
          \/ /\ One(request.name) = {}
             /\ Raise(Missing(request.name)) /\ UNCHANGED <<stack, inCall>>
    /\ UNCHANGED <<wiring, tried, accepted, frozen, obj, made, lazies, asked, requests, fails>>

\* The next element of a collection, or the end of it
ResolveElement ==
    /\ flow = "run" /\ Asks(Top)
    /\ LET request == Request(Top)
           rest    == {i \in Elements(request.name) : i > Top.item}
       IN  /\ request.shape \in Plural /\ request.used
           /\ \/ \E i \in rest : /\ \A j \in rest : i <= j
                                 /\ Enter([stack EXCEPT ![Depth].item = i], i)
              \/ /\ rest = {}
                 /\ Proceed(Top, [kind |-> "objects", objects |-> Top.items])
                 /\ UNCHANGED <<inCall, flow, val>>
    /\ UNCHANGED <<wiring, tried, accepted, frozen, obj, made, lazies, asked, requests, fails>>

\* A parameter whose object is not built now
Postpone ==
    /\ flow = "run" /\ Asks(Top)
    /\ Request(Top).shape \in Deferred /\ ~Request(Top).used
    /\ Proceed(Top, Later)
    /\ UNCHANGED <<wiring, tried, accepted, frozen, obj, inCall, made, flow, val, lazies,
                   asked, requests, fails>>

\* A parameter whose annotation does not name a type: fatal unless it has a default
Opaque ==
    /\ flow = "run" /\ Asks(Top)
    /\ Request(Top).shape = "opaque"
    /\ IF Request(Top).used THEN Raise(Error("wire")) /\ UNCHANGED stack
       ELSE Proceed(Top, Nil) /\ UNCHANGED <<flow, val>>
    /\ UNCHANGED <<wiring, tried, accepted, frozen, obj, inCall, made, lazies, asked, requests, fails>>

\* A provider has returned to the call that needed it.
Deliver ==
    /\ flow = "return"
    /\ LET request == Request(Top) IN
       IF request.shape \in Plural
       THEN /\ stack' = [stack EXCEPT ![Depth].items = IF val = Nil THEN @ ELSE Append(@, val)]
            /\ flow' = "run" /\ val' = NotSet
       ELSE IF val = Nil THEN Raise(Missing(request.name)) /\ UNCHANGED stack
       ELSE Proceed(Top, val) /\ flow' = "run" /\ val' = NotSet
    /\ UNCHANGED <<wiring, tried, accepted, frozen, obj, inCall, made, lazies, asked, requests, fails>>

\* The constructor runs with all its arguments.
LaziesOf(f, owner) ==
    {[owner |-> owner, at |-> k, name |-> Params(f)[k].name,
      value |-> IF Params(f)[k].used THEN f.args[k] ELSE NotSet] :
        k \in {k \in DOMAIN f.args : Params(f)[k].shape = "lazy"}}

\* Mutant. An instance is kept if somebody else was given one before.
KeptLate(i, value) == IF wiring[i].singleton /\ made[i] > 0 THEN [obj EXCEPT ![i] = value] ELSE obj

Kept(i, value) == IF wiring[i].singleton THEN [obj EXCEPT ![i] = value] ELSE obj

Construct ==
    /\ flow = "run" /\ ~Asks(Top) /\ Top.reg # 0
    /\ LET i == Top.reg
           value == IF wiring[i].makes = "none" THEN Nil ELSE Instance(i, made[i] + 1)
       IN  /\ made' = [made EXCEPT ![i] = @ + 1]
           /\ inCall' = [inCall EXCEPT ![i] = FALSE]
           /\ obj' = Kept(i, value)
           /\ lazies' = lazies \cup LaziesOf(Top, value)
           /\ stack' = SubSeq(stack, 1, Depth - 1)
           /\ Typed(i, value)
    /\ UNCHANGED <<wiring, tried, accepted, frozen, asked, requests, fails>>

\* The constructor raises an error.
ConstructFails ==
    /\ flow = "run" /\ ~Asks(Top) /\ Top.reg # 0
    /\ fails < MaxFails
    /\ fails' = fails + 1
    /\ Raise(Error("failed"))
    /\ UNCHANGED <<wiring, tried, accepted, frozen, obj, inCall, made, stack, lazies, asked,
                   requests>>

\* Mutant. `maybe_resolve` catches every missing name.
CaughtAny(f) == Asks(f) /\ Maybe(Request(f)) /\ val.kind = "missing"

\* An error passes through a call: caught by `maybe_resolve` if it is about the very name
\* it asked for, extended if it is a cycle, and out to the application at last.
Caught(f) == Asks(f) /\ Maybe(Request(f)) /\ val = Missing(Request(f).name)

Handed(f) ==
    IF f.request.shape = "config" /\ val = Missing(f.request.name)
    THEN Error("no such configuration") ELSE val

Through(i) == IF val.kind = "cycle" THEN [val EXCEPT !.path = <<i>> \o @] ELSE val

Unwind ==
    /\ flow = "raise"
    /\ IF Caught(Top) THEN Proceed(Top, Nil) /\ flow' = "run" /\ val' = NotSet /\ UNCHANGED inCall
       ELSE IF Top.reg = 0
       THEN stack' = <<>> /\ flow' = "idle" /\ val' = Handed(Top) /\ UNCHANGED inCall
       ELSE /\ inCall' = [inCall EXCEPT ![Top.reg] = FALSE]
            /\ stack' = SubSeq(stack, 1, Depth - 1)
            /\ val' = Through(Top.reg) /\ UNCHANGED flow
    /\ UNCHANGED <<wiring, tried, accepted, frozen, obj, made, lazies, asked, requests, fails>>

\* The application gets what it asked for; a `Lazy` keeps it.
Answer ==
    /\ flow = "run" /\ ~Asks(Top) /\ Top.reg = 0
    /\ flow' = "idle" /\ stack' = <<>>
    /\ val' = Top.args[1]
    /\ lazies' = IF Top.lazy = NotSet THEN lazies
                 ELSE (lazies \ {Top.lazy}) \cup {[Top.lazy EXCEPT !.value = Top.args[1]]}
    /\ UNCHANGED <<wiring, tried, accepted, frozen, obj, inCall, made, asked, requests, fails>>

ContainerNext ==
    \/ Register
    \/ \E request \in Wanted : Ask(request)
    \/ \E l \in lazies : GetLazy(l)
    \/ Resolve
    \/ ResolveElement
    \/ Postpone
    \/ Opaque
    \/ Deliver
    \/ Construct
    \/ ConstructFails
    \/ Unwind
    \/ Answer

ContainerSpec == ContainerInit /\ [][ContainerNext]_containerVars

---------------------------------------------------------------------------
\* What should come out, from the registrations alone.

Needs(request) ==
    IF ~request.used THEN {}
    ELSE IF request.shape \in Singular THEN One(request.name)
    ELSE IF request.shape \in Plural THEN Elements(request.name)
    ELSE {}

ParamsOf(i) == {wiring[i].params[k] : k \in DOMAIN wiring[i].params}

Edges(i) == UNION {Needs(request) : request \in ParamsOf(i)}

\* S and what it needs: what is in every set that holds S and what its members need.
Closed(C)  == \A j \in C : Edges(j) \subseteq C
Closure(S) == {i \in Regs : \A C \in SUBSET Regs : S \subseteq C /\ Closed(C) => i \in C}

\* No object can be had for a request that must have one.
Gap(request) ==
    /\ request.used /\ request.shape \in Singular /\ ~Maybe(request)
    /\ \A i \in One(request.name) : wiring[i].makes = "none"

Faults(i) ==
    \/ wiring[i].makes = "alien"
    \/ i \in Closure(Edges(i))
    \/ \E request \in ParamsOf(i) : Gap(request) \/ (request.shape = "opaque" /\ request.used)

Buildable(request) == ~Gap(request) /\ \A i \in Closure(Needs(request)) : ~Faults(i)

Errors == {"missing", "cycle", "internal", "wire", "failed", "no such configuration"}

RealCycle(path, request) ==
    /\ path[1] \in Needs(request)
    /\ \A k \in 1..(Len(path) - 1) : path[k + 1] \in Edges(path[k])
    /\ \E k \in 1..(Len(path) - 1) : path[k] = path[Len(path)]

\* Whatever was asked before, and whatever failed before, a request is answered as the
\* registrations say: with its object if everything that must be built can be (unless a
\* constructor fails in this very call), otherwise with an error that is there. The path of
\* a cycle is one of the registrations, from what was asked; a missing name is one that
\* something on the way needs. (`maybe_resolve` could swallow an error of a nested call,
\* and a failed call leave a registration marked as being built.)
AnsweredRight ==
    (flow = "idle" /\ asked # NotSet) =>
        LET all == Closure(Needs(asked)) IN
        /\ val.kind \notin Errors => Buildable(asked)
        /\ Buildable(asked) /\ val.kind \in Errors => val.kind = "failed"
        /\ val.kind = "object" => val.reg \in Needs(asked)
        /\ val.kind = "cycle" => RealCycle(val.path, asked)
        /\ val.kind = "missing" =>
              \E request \in {asked} \cup UNION {ParamsOf(i) : i \in all} :
                  Gap(request) /\ request.name = val.name

\* A singleton is constructed successfully once at most, whether asked for directly, by
\* several constructors, through a `Lazy` or as an element of a collection, and after errors.
OneInstance ==
    \A i \in Regs : wiring[i].singleton => made[i] <= 1
=============================================================================
