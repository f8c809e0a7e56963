------------------------------- MODULE Staff -------------------------------
(***************************************************************************)
(* The agents of a session: the graph of who may reach, read and control     *)
(* whom (roster/graph.go), and the operations of the workflow that create an *)
(* agent, register it and give it work (internal/workflow/operations.go).    *)
(* Three callers run side by side: the host that starts the session, the     *)
(* manager's tool calls, and the handler that has each submission audited.   *)
(***************************************************************************)
EXTENDS Naturals, Sequences, FiniteSets, Functions

CONSTANTS User,       \* the human, a node but never an agent
          Nobody,     \* no agent
          Agents,     \* the ids that may be minted
          Builder, Checker,  \* the roles that implement, and that audit
          Reviewer,     \* that reviews, for the four whose work a brief or a conclusion ends
          Works,      \* implementations that may be assigned
          Configurations  \* sets of roles a session may be configured with

VARIABLES agents,     \* the controller's state of each id
          nodes,      \* the registrations of the graph
          edges,      \* its edges: <<from, to, kind>>
          published,  \* the registrations in the log, in order
          mu,         \* who registers an agent under the workflow's lock
          calls,      \* what each caller is doing
          works,      \* [state, builders, auditors] of each implementation
          briefs,     \* the agents given an investigation
          staffed,    \* the agents created for an assignment or an audit
          auto,       \* the session has submissions audited itself, or leaves it to the manager
          specs,      \* the roles that are configured
          held,       \* operations are suspended
          logging     \* the log accepts events

graph == <<nodes, edges, published>>
given == <<works, briefs, staffed>>
setup == <<auto, specs>>
vars == <<agents, graph, mu, calls, given, setup, held, logging>>

Callers == {"host", "manager", "audits"}
Heads == {"manager", "agent", "debugger"}  \* the user's own agents
Workers == {Builder, Checker, Reviewer}
Idle == [op |-> "none", pc |-> "idle", role |-> "", kind |-> "", id |-> Nobody, work |-> "",
         cut |-> FALSE]

\* What a role is given to do, and who does a kind of work.
Creatable(role) == role \in Workers
WorkKinds(role) ==
  CASE role = Builder -> {"implementation", "repair"}
    [] role = Checker -> {"audit"}
    [] role = Reviewer  -> {"review"}
    [] OTHER          -> {}
Accepts(role, kind) == kind \in WorkKinds(role)
RoleFor(kind) == CHOOSE role \in Workers : Accepts(role, kind)
\* Naming a role as the assignee staffs the work, but for audits.
Staffable(role, kind) == role # Checker /\ role \in Workers /\ Accepts(role, kind)

Registration(id, parent, role) == [id |-> id, parent |-> parent, role |-> role]
OfRole(N, role) == {n \in N : n.role = role}
Registered(id) == {n \in nodes : n.id = id}

Init ==
  /\ agents = [a \in Agents |-> "none"]
  /\ nodes = {} /\ edges = {} /\ published = <<>> /\ mu = Nobody
  /\ calls = [c \in Callers |-> Idle]
  /\ works = [w \in Works |-> [state |-> "none", builders |-> {}, auditors |-> <<>>]]
  /\ briefs = {}
  /\ staffed = {} /\ auto \in BOOLEAN /\ specs \in Configurations /\ held = FALSE /\ logging = TRUE

----------------------------------------------------------------------------
(* The graph: a registration is admitted, and its edges are derived.        *)

Admits(N, r) ==
  /\ r.id # User
  /\ \A n \in N : n.id # r.id
  /\ r.role \in Heads => r.parent = User /\ OfRole(N, r.role) = {}
  /\ r.role \in Workers => \E n \in N : n.id = r.parent /\ n.role = "manager"
  /\ r.role \in Heads \cup Workers

Link(from, to, kinds) == {<<from, to, k>> : k \in kinds}

\* What the debugger is given over an agent that is there, or that comes.
Watch(d, n) ==
  IF n.role \in Workers THEN Link(d, n.id, {"read", "control"})
  ELSE Link(d, n.id, {"read", "message"}) \cup Link(n.id, d, {"message"})

Derived(N, r) ==
  (IF r.role \in Heads
   THEN Link(User, r.id, {"message"}) \cup Link(r.id, User, {"reply"})
   ELSE Link(r.parent, r.id, {"message", "control", "read"})
          \cup Link(r.id, r.parent, {"message", "reply"}))
  \cup (IF r.role = "debugger" THEN UNION {Watch(r.id, n) : n \in N}
        ELSE UNION {Watch(d.id, r) : d \in OfRole(N, "debugger")})

----------------------------------------------------------------------------
(* A message needs the edge of its kind, and the user hears only replies.    *)

EdgeFor(kind) == IF kind \in {"reply", "failure"} THEN "reply" ELSE "message"
Allows(from, to, kind) == <<from, to, kind>> \in edges
Routes(from, to, kind) == (to = User => kind = "reply") /\ Allows(from, to, EdgeFor(kind))

----------------------------------------------------------------------------
(* Calls.  An interruption or a close cuts the operations under way.        *)

Call(c, op, role, kind, work) ==
  calls' = [calls EXCEPT ![c] = [Idle EXCEPT !.op = op, !.pc = "begun", !.role = role,
                                             !.kind = kind, !.work = work]]
Goes(c, pc) == calls' = [calls EXCEPT ![c].pc = pc]
Ends(c) == calls' = [calls EXCEPT ![c] = Idle]
\* A call that fails stops the agent it created, if any.
Fails(c) == IF calls[c].id # Nobody /\ calls[c].op # "give" THEN Goes(c, "failing") ELSE Ends(c)

Begins(c) == calls[c] = Idle /\ ~held
Known == {a \in Agents : agents[a] # "none"}
Manages == mu = Nobody /\ \E n \in OfRole(nodes, "manager") : agents[n.id] = "live"

\* CreateManager, CreateSolo and CreateDebugger.
CreateHead(role) ==
  /\ Begins("host")
  /\ role = "manager" => mu = Nobody /\ OfRole(nodes, "manager") = {}
  /\ Call("host", "create", role, "", "")
  /\ UNCHANGED <<agents, graph, mu, given, setup, held, logging>>

CreateAgent(role) ==
  /\ Begins("manager") /\ Manages /\ Creatable(role) /\ role \in specs
  /\ Call("manager", "create", role, "", "")
  /\ UNCHANGED <<agents, graph, mu, given, setup, held, logging>>

\* An agent that is given work takes its kind and is running.
Able(id, kind) ==
  /\ \E n \in Registered(id) : Accepts(n.role, kind)
  /\ agents[id] = "live"

\* An assignment that names a role is staffed with a new agent, if the role takes
\* that kind of work; one that names an agent, which is looked at first, goes to it.
AssignWork(kind, w, role, id) ==
  /\ Begins("manager") /\ Manages
  /\ IF id = Nobody
     THEN Staffable(role, kind) /\ role \in specs /\ Call("manager", "staff", role, kind, w)
     ELSE /\ Able(id, kind) /\ (kind = "audit" => ~auto)
          /\ calls' = [calls EXCEPT !["manager"] =
                         [Idle EXCEPT !.op = "give", !.pc = "eligible", !.role = role,
                                      !.kind = kind, !.id = id, !.work = w]]
  /\ UNCHANGED <<agents, graph, mu, given, setup, held, logging>>

\* The handler of a submission has it audited by a new auditor.
HaveAudited(w) ==
  /\ Begins("audits") /\ auto
  /\ works[w].state = "needs_check"
  /\ Call("audits", "audit", Checker, "audit", w)
  /\ UNCHANGED <<agents, graph, mu, given, setup, held, logging>>

----------------------------------------------------------------------------
(* create: the controller starts the agent, and it is registered.           *)

Parent(c) ==
  IF c = "host" THEN User ELSE (CHOOSE n \in OfRole(nodes, "manager") : TRUE).id
Unused == {a \in Agents : agents[a] = "none"}
Minted == CHOOSE a \in Unused : TRUE

Refused(c) ==
  \/ calls[c].cut \/ held
  \/ c # "host" /\ agents[Parent(c)] # "live"

StartFails(c) ==
  /\ calls[c].pc = "begun" /\ Refused(c)
  /\ Ends(c)
  /\ UNCHANGED <<agents, graph, mu, given, setup, held, logging>>

\* An agent whose start cannot be recorded has its context cancelled and
\* never runs.
Start(c) ==
  /\ calls[c].pc = "begun" /\ ~Refused(c) /\ Unused # {}
  /\ agents' = [agents EXCEPT ![Minted] = IF logging THEN "live" ELSE "unstarted"]
  /\ IF logging
     THEN calls' = [calls EXCEPT ![c].pc = "created", ![c].id = Minted]
     ELSE Ends(c)
  /\ staffed' = IF calls[c].op = "create" THEN staffed ELSE staffed \cup {Minted}
  /\ UNCHANGED <<graph, mu, works, briefs, setup, held, logging>>

New(c) == Registration(calls[c].id, Parent(c), calls[c].role)

\* register runs under the workflow's lock: it is admitted, published, added.
Publish(c) ==
  /\ calls[c].pc = "created" /\ mu = Nobody
  /\ IF calls[c].cut \/ ~Admits(nodes, New(c)) \/ ~logging
     THEN Fails(c) /\ UNCHANGED <<published, mu>>
     ELSE /\ published' = Append(published, New(c))
          /\ mu' = calls[c].id
          /\ Goes(c, "published")
  /\ UNCHANGED <<agents, nodes, edges, given, setup, held, logging>>

Add(c) ==
  /\ calls[c].pc = "published" /\ Admits(nodes, New(c))
  /\ nodes' = nodes \cup {New(c)}
  /\ edges' = edges \cup Derived(nodes, New(c))
  /\ mu' = Nobody
  /\ IF calls[c].op = "create" THEN Ends(c) ELSE Goes(c, "registered")
  /\ UNCHANGED <<agents, published, given, setup, held, logging>>

StopCreated(c) ==
  /\ calls[c].pc = "failing"
  /\ agents' = [agents EXCEPT ![calls[c].id] = "stopped"]
  /\ Ends(c)
  /\ UNCHANGED <<graph, mu, given, setup, held, logging>>

----------------------------------------------------------------------------
(* Giving the work.                                                          *)

Eligible(c) ==
  /\ calls[c].pc = "registered" /\ c = "manager" /\ mu = Nobody
  /\ IF Able(calls[c].id, calls[c].kind) /\ ~calls[c].cut THEN Goes(c, "eligible") ELSE Fails(c)
  /\ UNCHANGED <<agents, graph, mu, given, setup, held, logging>>

HeldWork(id) ==
  id \in briefs \/ \E w \in Works : id \in works[w].builders \cup Range(works[w].auditors)
Takes(c) ==
  LET w == works[calls[c].work] IN
  CASE calls[c].kind = "implementation" -> w.state = "none"
    [] calls[c].kind = "repair"         -> w.state = "changes_requested"
    [] calls[c].kind = "audit"          -> w.state = "needs_check" /\ ~HeldWork(calls[c].id)
    [] calls[c].kind = "review"         -> TRUE

\* The ledger takes the assignment or refuses it: refuse is a refusal for a
\* reason left out here, such as a step that is reserved or a stale revision.
Give(c, refuse) ==
  LET call == calls[c] IN
  /\ call.pc = IF c = "audits" THEN "registered" ELSE "eligible"
  /\ IF Takes(c) /\ ~refuse
     THEN /\ briefs' = IF call.kind = "review" THEN briefs \cup {call.id} ELSE briefs
          /\ works' = CASE call.kind = "review" -> works
                        [] call.kind = "audit" ->
                             [works EXCEPT ![call.work].state = "checking",
                                           ![call.work].auditors = Append(@, call.id)]
                        [] OTHER ->
                             [works EXCEPT ![call.work].state = "active",
                                           ![call.work].builders = @ \cup {call.id}]
          /\ Ends(c)
     ELSE Fails(c) /\ UNCHANGED <<works, briefs>>
  /\ UNCHANGED <<agents, graph, mu, staffed, setup, held, logging>>

----------------------------------------------------------------------------
(* What happens meanwhile.                                                   *)

Submit(w) ==
  /\ works[w].state = "active"
  /\ works' = [works EXCEPT ![w].state = "needs_check"]
  /\ UNCHANGED <<agents, graph, mu, calls, briefs, staffed, setup, held, logging>>

\* The audit of a submission accepts it, or asks for changes, which a repair makes.
SubmitAudit(w, verdict) ==
  /\ works[w].state = "checking"
  /\ works' = [works EXCEPT ![w].state = verdict]
  /\ UNCHANGED <<agents, graph, mu, calls, briefs, staffed, setup, held, logging>>

\* A worker is stopped, or its own failure ends it; the user's agents are not
\* stopped before the session is.
StopAgent(n) ==
  /\ n.role \in Workers /\ agents[n.id] = "live"
  /\ agents' = [agents EXCEPT ![n.id] = "stopped"]
  /\ UNCHANGED <<graph, mu, calls, given, setup, held, logging>>

Hold ==
  /\ ~held /\ held' = TRUE
  /\ calls' = [c \in Callers |-> IF calls[c] = Idle THEN Idle ELSE [calls[c] EXCEPT !.cut = TRUE]]
  /\ UNCHANGED <<agents, graph, mu, given, setup, logging>>

Release ==
  /\ held /\ \A c \in Callers : calls[c] = Idle
  /\ held' = FALSE
  /\ UNCHANGED <<agents, graph, mu, calls, given, setup, logging>>

LogFails ==
  /\ logging /\ logging' = FALSE
  /\ UNCHANGED <<agents, graph, mu, calls, given, setup, held>>

Asks ==
  \/ \E role \in Heads : CreateHead(role)
  \/ \E role \in Workers : CreateAgent(role)
  \/ \E w \in Works, role \in Workers, id \in Known \cup {Nobody} :
       \E kind \in WorkKinds(role) : AssignWork(kind, w, role, id)
  \/ \E w \in Works : HaveAudited(w)

Runs(c) ==
  \/ StartFails(c) \/ Start(c) \/ Publish(c) \/ Add(c) \/ StopCreated(c) \/ Eligible(c)
  \/ \E refuse \in BOOLEAN : Give(c, refuse)

Next ==
  \/ Asks
  \/ \E c \in Callers : Runs(c)
  \/ \E w \in Works :
       \/ Submit(w)
       \/ \E verdict \in {"accepted", "changes_requested"} : SubmitAudit(w, verdict)
  \/ \E n \in nodes : StopAgent(n)
  \/ Hold \/ Release \/ LogFails

Spec == Init /\ [][Next]_vars

----------------------------------------------------------------------------

Is(a, R) == \E n \in nodes : n.id = a /\ n.role \in R
HavingRole(R) == {n.id : n \in {m \in nodes : m.role \in R}}

\* The table of the graph (graph.go:36-45): who may do what to whom.
Table ==
  LET debuggers == HavingRole({"debugger"})
      talkers == HavingRole({"manager", "agent"})
      workers == {n \in nodes : n.role \in Workers}
  IN
  {<<User, a, "message">> : a \in HavingRole(Heads)}
    \cup {<<a, User, "reply">> : a \in HavingRole(Heads)}
    \cup {<<n.parent, n.id, k>> : n \in workers, k \in {"message", "control", "read"}}
    \cup {<<n.id, n.parent, k>> : n \in workers, k \in {"message", "reply"}}
    \cup {<<d, a, "message">> : d \in debuggers, a \in talkers}
    \cup {<<a, d, "message">> : d \in debuggers, a \in talkers}
    \cup {e \in {<<d, n.id, "read">> : d \in debuggers, n \in nodes} : e[1] # e[2]}
    \cup {<<d, n.id, "control">> : d \in debuggers, n \in workers}

\* Whatever the order in which agents are registered, and whichever of them the
\* debugger finds there, the edges are exactly the table's.
EdgesAreTheTable == edges = Table

\* An id is registered once, each of the user's own roles is there once, and a
\* worker's parent is the manager: what makes "the debugger" and "the manager"
\* of the graph one agent.
GraphIsWellFormed ==
  /\ \A n \in nodes :
       /\ n.id \in Agents /\ n.role \in Heads \cup Workers
       /\ n.role \in Heads => n.parent = User
       /\ n.role \in Workers => \E m \in nodes : m.id = n.parent /\ m.role = "manager"
  /\ \A n, m \in nodes : (n.id = m.id \/ (n.role \in Heads /\ n.role = m.role)) => n = m

\* What a replay of the log makes of its registrations, once i of them are read.
Rebuilt ==
  LET Graph[i \in 0..Len(published)] ==
        IF i = 0 THEN [nodes |-> {}, edges |-> {}]
        ELSE LET g == Graph[i - 1] IN
             IF Admits(g.nodes, published[i])
             THEN [nodes |-> g.nodes \cup {published[i]},
                   edges |-> g.edges \cup Derived(g.nodes, published[i])]
             ELSE g
  IN Graph

\* Replaying the registrations of the log, in order, admits each and rebuilds the
\* graph, but for the one being added, which it admits too.
ReplayRebuilds ==
  LET done == IF mu = Nobody THEN Len(published) ELSE Len(published) - 1
  IN
  /\ Rebuilt[done] = [nodes |-> nodes, edges |-> edges]
  /\ mu # Nobody => Admits(nodes, published[Len(published)]) /\ published[Len(published)].id = mu

\* No agent is left running that nothing can reach or that has nothing to do: a
\* live agent is registered, or the call that created it goes on; and the agent
\* created for an assignment has it once the call is over.
NoOrphans ==
  \A a \in Agents : agents[a] = "live" =>
    \/ \E c \in Callers : calls[c].id = a /\ calls[c].op # "give"
    \/ Registered(a) # {} /\ (a \in staffed => HeldWork(a))

\* Work is with registered agents of the role for it, every audit has an auditor
\* of its own, and nobody audits what they built.
AssigneesAreAble ==
  /\ \A a \in briefs : Is(a, {Reviewer})
  /\ \A w \in Works :
       /\ works[w].state # "none" => works[w].builders # {}
       /\ works[w].state = "checking" => works[w].auditors # <<>>
       /\ \A a \in works[w].builders : Is(a, {Builder})
       /\ \A a \in Range(works[w].auditors) : Is(a, {Checker})
       /\ IsInjective(works[w].auditors)
  /\ \A v, w \in Works : v # w => Range(works[v].auditors) \cap Range(works[w].auditors) = {}

\* Whoever is given work can be told so, can answer, and can be read and stopped,
\* and only the user's own agents are heard by the user, and only in reply.
WorkCanBeDelivered ==
  /\ \A a \in Agents :
       HeldWork(a) =>
         \E m \in OfRole(nodes, "manager") :
           /\ Routes(m.id, a, "message") /\ Routes(a, m.id, "message") /\ Routes(a, m.id, "failure")
           /\ Allows(m.id, a, "control") /\ Allows(m.id, a, "read")
  /\ \A a \in Agents, kind \in {"message", "reply", "failure"} :
       Routes(a, User, kind) => Is(a, Heads) /\ kind = "reply"

StaffHolds ==
  /\ WorkCanBeDelivered
  /\ EdgesAreTheTable
  /\ GraphIsWellFormed
  /\ ReplayRebuilds
  /\ NoOrphans
  /\ AssigneesAreAble
============================================================================
