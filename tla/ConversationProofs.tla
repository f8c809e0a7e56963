-------------------------- MODULE ConversationProofs --------------------------
(***************************************************************************)
(* What a conversation keeps, proved for every number of agents and        *)
(* messages.  The invariant is ConversationInv; a lemma for each step says *)
(* that it keeps it.  Steps of one kind share a lemma: what an agent turns *)
(* to by itself (Turning), what it takes (TakesKeeps), what is routed      *)
(* (RoutesKeeps).                                                          *)
(***************************************************************************)
EXTENDS Conversation, WellFoundedInduction, TLAPS

\* What the mail is made of.
Letter == [to : Agent, kind : HostKind \cup {"instruction", "reply", "failure"},
           receipt : {"queued", "consumed", "undelivered"}]

\* A message that is queued takes the next id, and leaves the others as they were.
LEMMA MailGrows ==
  ASSUME TypeOK, NEW to \in Agent, NEW kind \in HostKind \cup {"instruction", "reply", "failure"},
         Queued(to, kind)
  PROVE  /\ mail' \in Seq(Letter) /\ Len(mail') = Len(mail) + 1 /\ Len(mail) \in Nat
         /\ mail'[Len(mail) + 1] = [to |-> to, kind |-> kind, receipt |-> "queued"]
         /\ \A m \in 1..Len(mail) : mail'[m] = mail[m]
<1> DEFINE letter == [to |-> to, kind |-> kind, receipt |-> "queued"]
<1>1. mail \in Seq(Letter) /\ letter \in Letter
  BY DEF TypeOK, Letter
<1>2. mail' = Append(mail, letter)
  BY DEF Queued
<1> HIDE DEF letter
<1>3. mail' \in Seq(Letter) /\ Len(mail') = Len(mail) + 1 /\ mail'[Len(mail) + 1] = letter
      /\ \A m \in 1..Len(mail) : mail'[m] = mail[m]
  BY <1>1, <1>2
<1> QED
  BY <1>1, <1>3 DEF letter

\* A receipt changes one message, and of that one neither the recipient nor the kind.
LEMMA MailSettles ==
  ASSUME TypeOK, NEW n \in 1..Len(mail), NEW receipt \in {"queued", "consumed", "undelivered"},
         Settled(n, receipt)
  PROVE  /\ mail' \in Seq(Letter) /\ Len(mail') = Len(mail) /\ Len(mail) \in Nat
         /\ DOMAIN mail' = 1..Len(mail)
         /\ mail'[n].receipt = receipt
         /\ \A m \in 1..Len(mail) : /\ mail'[m].to = mail[m].to /\ mail'[m].kind = mail[m].kind
                                    /\ m # n => mail'[m] = mail[m]
<1>1. mail \in Seq(Letter)
  BY DEF TypeOK, Letter
<1>2. mail[n] \in Letter
  BY <1>1
<1>3. [mail[n] EXCEPT !.receipt = receipt] \in Letter
  BY <1>2 DEF Letter
<1>4. mail' = [mail EXCEPT ![n] = [mail[n] EXCEPT !.receipt = receipt]]
  BY DEF Settled
<1>5. /\ mail' \in Seq(Letter) /\ Len(mail') = Len(mail)
      /\ mail'[n] = [mail[n] EXCEPT !.receipt = receipt]
      /\ \A m \in 1..Len(mail) : m # n => mail'[m] = mail[m]
  BY <1>1, <1>3, <1>4
<1> QED
  BY <1>1, <1>2, <1>5 DEF Letter

\* After an exchange the agent holds what it held, is asked what it was asked, and does
\* not execute; only an interruption makes it settle.
LEMMA AfterFields ==
  ASSUME NEW r \in AgentRecord, NEW dead \in BOOLEAN,
         NEW why \in {"ended", "clean", "failed", "refused"}
  PROVE  LET after == AfterExchange(r, why, dead) IN
         /\ after \in AgentRecord /\ after.interrupt = r.interrupt /\ after.held = r.held
         /\ after.phase \in {"ending", "settling", "ready"}
         /\ after.phase = "settling" => r.interrupt # "none"
<1>1. CASE dead
  BY <1>1 DEF AfterExchange, AgentRecord, Phase
<1>2. CASE ~dead /\ r.interrupt # "none"
  BY <1>2 DEF AfterExchange, AgentRecord, Phase
<1>3. CASE ~dead /\ r.interrupt = "none" /\ why = "ended"
  BY <1>3 DEF AfterExchange, AgentRecord, Phase
<1>4. CASE ~dead /\ r.interrupt = "none" /\ why # "ended"
  BY <1>4 DEF AfterExchange, AgentRecord, Phase
<1> QED
  BY <1>1, <1>2, <1>3, <1>4

\* An agent turns from one record to another: nothing it holds changes, nor any mail, and
\* it is not in the middle of a request unless its phase stays.
Turns(a, r) ==
  /\ a \in Registered /\ r \in AgentRecord
  /\ agent' = [agent EXCEPT ![a] = r]
  /\ UNCHANGED <<inbox, mail, op, fence, attempt, closing, quiesce, captured>>
  /\ watch' = watch \/ \E b \in Agent : watch' = [watch EXCEPT !.left = @ \ {b}]
  /\ cancelled' \in BOOLEAN
  /\ r.held = agent[a].held /\ (r.interrupt = "none" <=> agent[a].interrupt = "none")
  /\ agent[a].interrupt = "settled" => r.interrupt = "settled"
  /\ r.phase = "settling" => r.interrupt = "pending"
  /\ r.interrupt = "settled" => r.phase \in {"ready", "ending"} \cup Over
  /\ \/ r.phase = agent[a].phase
     \/ /\ r.phase \notin {"absent", "registered", "finishing", "gone"}
        /\ Holding("free") \/ op.agent # a
        /\ captured => /\ r.phase \notin {"starting", "joining"}
                       /\ agent[a].phase \notin {"starting", "joining"}

\* Whatever an agent turns to by itself keeps the invariant.
LEMMA Turning ==
  ASSUME ConversationInv, NEW a, NEW r, Turns(a, r)
  PROVE  ConversationInv'
<1> USE DEF ConversationInv, Turns
<1>1. a \in Agent /\ agent[a] \in AgentRecord /\ agent[a].phase # "absent" /\ r.phase # "absent"
  BY DEF Registered, TypeOK
<1>2. agent'[a] = r /\ \A b \in Agent : b # a => agent'[b] = agent[b]
  BY <1>1 DEF TypeOK
<1>3. TypeOK'
  <2>1. watch' \in [stage : {"idle", "asking", "done"}, requested : BOOLEAN, left : SUBSET Agent]
    BY DEF TypeOK
  <2> QED
    BY <1>1, <2>1 DEF TypeOK, AgentRecord
<1>4. OpFits'
  BY <1>1, <1>2 DEF OpFits, Holding, TypeOK
<1>5. Registered' = Registered
  BY <1>1, <1>2 DEF Registered
<1>6. Held'
  BY <1>1, <1>2, <1>5 DEF Held, Registered, Holding
<1>7. Addressed'
  BY <1>1, <1>2 DEF Addressed, Receptive, Holding, TypeOK
<1>8. NothingLost'
  BY <1>1, <1>2 DEF NothingLost, Places, Waits, Taken, Routed, Returning, Acknowledging, Holding,
     TypeOK
<1>9. FenceIsExact'
  BY <1>1, <1>2, <1>5 DEF FenceIsExact
<1>10. DiscardsAll' /\ DiscardsInput'
  BY DEF DiscardsAll, DiscardsInput, Holding
<1>11. ClosesFirst' /\ CloseSettlesMail'
  BY <1>5 DEF ClosesFirst, CloseSettlesMail, TypeOK
<1> QED
  BY <1>3, <1>4, <1>6, <1>7, <1>8, <1>9, <1>10, <1>11

\* An agent that is between two reports or sends is not the one a request is about.
LEMMA Unengaged ==
  ASSUME ConversationInv, NEW a \in Agent,
         agent[a].phase \in {"ready", "waiting", "working", "settling", "ending", "terminal"}
  PROVE  op.agent # a /\ a \in Registered /\ agent[a] \in AgentRecord
<1>1. a # User
  BY ConversationAssumption DEF Agent, User
<1>2. op.name \in {"free", "create", "deliver", "acknowledge", "finish", "discard"}
  BY DEF ConversationInv, TypeOK
<1> QED
  BY <1>1, <1>2 DEF ConversationInv, TypeOK, OpFits, Holding, Registered

----------------------------------------------------------------------------
(* The steps of an agent's loop. *)

\* The loop goes to its checkpoint.
LEMMA BeginExchangeKeeps ==
  ASSUME ConversationInv, NEW a \in Agent, BeginExchange(a)
  PROVE  ConversationInv'
<1> DEFINE r == IF Dead(a) THEN [agent[a] EXCEPT !.phase = "ending", !.exit = "cancelled"]
                ELSE IF agent[a].quiesced THEN [agent[a] EXCEPT !.phase = "ending", !.exit = "clean"]
                ELSE IF agent[a].interrupt = "pending" THEN [agent[a] EXCEPT !.phase = "settling"]
                ELSE [agent[a] EXCEPT !.phase = "waiting"]
<1>1. agent' = [agent EXCEPT ![a] = r]
  BY DEF BeginExchange
<1>2. op.agent # a /\ a \in Registered /\ agent[a] \in AgentRecord /\ agent[a].phase = "ready"
  BY Unengaged DEF BeginExchange
<1>3. /\ r \in AgentRecord /\ r.held = agent[a].held /\ r.interrupt = agent[a].interrupt
      /\ r.phase \in {"ending", "settling", "waiting"}
      /\ r.phase = "settling" => r.interrupt = "pending"
      /\ r.interrupt = "settled" => r.phase = "ending"
  <2>1. CASE Dead(a)
    BY <1>2, <2>1 DEF AgentRecord, Phase
  <2>2. CASE ~Dead(a) /\ agent[a].quiesced
    BY <1>2, <2>2 DEF AgentRecord, Phase
  <2>3. CASE ~Dead(a) /\ ~agent[a].quiesced /\ agent[a].interrupt = "pending"
    BY <1>2, <2>3 DEF AgentRecord, Phase
  <2>4. CASE ~Dead(a) /\ ~agent[a].quiesced /\ agent[a].interrupt # "pending"
    BY <1>2, <2>4 DEF AgentRecord, Phase, BeginExchange
  <2> QED
    BY <2>1, <2>2, <2>3, <2>4
<1> HIDE DEF r
<1>4. Turns(a, r)
  BY <1>1, <1>2, <1>3 DEF Turns, BeginExchange, controlVars, closeVars, ConversationInv, TypeOK
<1> QED
  BY <1>4, Turning

\* A control wakes the loop.
LEMMA WokenKeeps ==
  ASSUME ConversationInv, NEW a \in Agent, Woken(a)
  PROVE  ConversationInv'
<1> DEFINE r == AfterExchange(agent[a], "clean", Dead(a))
<1>1. agent' = [agent EXCEPT ![a] = r]
  BY DEF Woken
<1>2. op.agent # a /\ a \in Registered /\ agent[a] \in AgentRecord /\ agent[a].phase = "waiting"
  BY Unengaged DEF Woken
<1>3. /\ r \in AgentRecord /\ r.held = agent[a].held /\ r.interrupt = agent[a].interrupt
      /\ r.phase \in {"ending", "settling", "ready"}
      /\ r.phase = "settling" => r.interrupt # "none"
  BY <1>2, AfterFields DEF Dead, ConversationInv, TypeOK, AgentRecord
<1>4. agent[a].interrupt \in {"none", "pending"}
  BY <1>2 DEF ConversationInv, Held, AgentRecord, Over
<1> HIDE DEF r
<1>5. Turns(a, r)
  BY <1>1, <1>2, <1>3, <1>4 DEF Turns, Woken, controlVars, closeVars, ConversationInv, TypeOK
<1> QED
  BY <1>5, Turning

\* An exchange returns (Return), or its reply is refused (ReplyRefused).
LEMMA ReturnKeeps ==
  ASSUME ConversationInv, NEW a \in Agent, Return(a)
  PROVE  ConversationInv'
<1>1. op.agent # a /\ a \in Registered /\ agent[a] \in AgentRecord /\ agent[a].phase = "working"
  BY Unengaged DEF Return
<1>2. PICK why \in {"ended", "failed", "clean"} :
        agent' = [agent EXCEPT ![a] = AfterExchange(agent[a], why, Dead(a))]
  BY DEF Return
<1> DEFINE r == AfterExchange(agent[a], why, Dead(a))
<1>3. /\ r \in AgentRecord /\ r.held = agent[a].held /\ r.interrupt = agent[a].interrupt
      /\ r.phase \in {"ending", "settling", "ready"}
      /\ r.phase = "settling" => r.interrupt # "none"
  BY <1>1, AfterFields DEF Dead, ConversationInv, TypeOK, AgentRecord
<1>4. agent[a].interrupt \in {"none", "pending"}
  BY <1>1 DEF ConversationInv, Held, AgentRecord, Over
<1> HIDE DEF r
<1>5. Turns(a, r)
  BY <1>1, <1>2, <1>3, <1>4 DEF Turns, Return, controlVars, closeVars, ConversationInv, TypeOK, r
<1> QED
  BY <1>5, Turning

\* The reply of an exchange is refused.
LEMMA ReplyRefusedKeeps ==
  ASSUME ConversationInv, NEW a \in Agent, ReplyRefused(a)
  PROVE  ConversationInv'
<1> DEFINE r == AfterExchange(agent[a], "refused", Dead(a))
<1>1. agent[a].phase = "replying" /\ a \in Registered /\ agent[a] \in AgentRecord
      /\ agent' = [agent EXCEPT ![a] = r]
  BY DEF ReplyRefused, Registered, ConversationInv, TypeOK
<1>2. /\ r \in AgentRecord /\ r.held = agent[a].held /\ r.interrupt = agent[a].interrupt
      /\ r.phase \in {"ending", "settling", "ready"}
      /\ r.phase = "settling" => r.interrupt # "none"
  BY <1>1, AfterFields DEF Dead, ConversationInv, TypeOK, AgentRecord
<1>3. agent[a].interrupt \in {"none", "pending"}
  BY <1>1 DEF ConversationInv, Held, AgentRecord, Over
<1> HIDE DEF r
<1>4. Turns(a, r)
  BY <1>1, <1>2, <1>3 DEF Turns, ReplyRefused, controlVars, closeVars, ConversationInv, TypeOK
<1> QED
  BY <1>4, Turning

\* An exchange comes to its reply.
LEMMA ReplyKeeps ==
  ASSUME ConversationInv, NEW a \in Agent, Reply(a)
  PROVE  ConversationInv'
<1> DEFINE r == [agent[a] EXCEPT !.phase = "replying"]
<1>1. op.agent # a /\ a \in Registered /\ agent[a] \in AgentRecord /\ agent[a].phase = "working"
      /\ agent[a].interrupt = "none"
  BY Unengaged DEF Reply, Unasked, Cut
<1>2. r \in AgentRecord /\ r.held = agent[a].held /\ r.interrupt = "none" /\ r.phase = "replying"
  BY <1>1 DEF AgentRecord, Phase
<1>3. agent' = [agent EXCEPT ![a] = r]
  BY DEF Reply
<1> HIDE DEF r
<1>4. Turns(a, r)
  BY <1>1, <1>2, <1>3 DEF Turns, Reply, controlVars, closeVars, ConversationInv, TypeOK
<1> QED
  BY <1>4, Turning

\* An agent settles its interruption.
LEMMA SettleKeeps ==
  ASSUME ConversationInv, NEW a \in Agent, Settle(a)
  PROVE  ConversationInv'
<1> DEFINE r == IF agent[a].stop THEN [agent[a] EXCEPT !.phase = "ending", !.exit = "cancelled"]
                ELSE [agent[a] EXCEPT !.phase = "ready", !.interrupt = "settled"]
<1>1. op.agent # a /\ a \in Registered /\ agent[a] \in AgentRecord /\ agent[a].phase = "settling"
      /\ agent[a].interrupt = "pending"
  BY Unengaged DEF Settle, ConversationInv, Held
<1>2. /\ r \in AgentRecord /\ r.held = agent[a].held /\ r.interrupt \in {"pending", "settled"}
      /\ r.phase \in {"ready", "ending"}
  <2>1. CASE agent[a].stop
    BY <1>1, <2>1 DEF AgentRecord, Phase
  <2>2. CASE ~agent[a].stop
    BY <1>1, <2>2 DEF AgentRecord, Phase
  <2> QED
    BY <2>1, <2>2
<1>3. agent' = [agent EXCEPT ![a] = r]
  BY DEF Settle
<1> HIDE DEF r
<1>4. Turns(a, r)
  BY <1>1, <1>2, <1>3 DEF Turns, Settle, controlVars, closeVars, ConversationInv, TypeOK
<1> QED
  BY <1>4, Turning

\* A report of an agent is refused: the log has failed, so its mail is not accounted for.
LEMMA ReportFailsKeeps ==
  ASSUME ConversationInv, NEW a \in Agent, ReportFails(a)
  PROVE  ConversationInv'
<1> DEFINE r == [agent[a] EXCEPT !.phase = "ending", !.exit = "uncaptured"]
<1>1. a \in Registered /\ agent[a] \in AgentRecord
      /\ agent[a].phase \in {"starting", "joining", "working", "settling"}
  BY DEF ReportFails, ConversationInv, TypeOK, Registered
<1>2. op.agent # a
  <2>1. a # User
    BY ConversationAssumption DEF Agent, User
  <2>2. op.name \in {"free", "create", "deliver", "acknowledge", "finish", "discard"}
    BY DEF ConversationInv, TypeOK
  <2> QED
    BY <1>1, <2>1, <2>2 DEF ReportFails, ConversationInv, OpFits, Holding
<1>3. r \in AgentRecord /\ r.held = agent[a].held /\ r.interrupt = agent[a].interrupt
      /\ r.phase = "ending"
  BY <1>1 DEF AgentRecord, Phase
<1>4. agent' = [agent EXCEPT ![a] = r]
  BY DEF ReportFails
<1> HIDE DEF r
<1>5. Turns(a, r)
  BY <1>1, <1>2, <1>3, <1>4
  DEF Turns, ReportFails, Reported, controlVars, closeVars, ConversationInv, TypeOK
<1> QED
  BY <1>5, Turning

\* The loop reports that it is over.
LEMMA TerminateKeeps ==
  ASSUME ConversationInv, NEW a \in Agent, Terminate(a)
  PROVE  ConversationInv'
<1> DEFINE r == [agent[a] EXCEPT !.phase = "terminal"]
<1>1. op.agent # a /\ a \in Registered /\ agent[a] \in AgentRecord /\ agent[a].phase = "ending"
  BY Unengaged DEF Terminate
<1>2. r \in AgentRecord /\ r.held = agent[a].held /\ r.interrupt = agent[a].interrupt
      /\ r.phase = "terminal"
  BY <1>1 DEF AgentRecord, Phase
<1>3. agent' = [agent EXCEPT ![a] = r]
  BY DEF Terminate
<1> HIDE DEF r
<1>4. Turns(a, r)
  BY <1>1, <1>2, <1>3
  DEF Turns, Over, Terminate, Reported, controlVars, closeVars, ConversationInv, TypeOK
<1> QED
  BY <1>4, Turning

\* An agent that ends settles the interruption it was asked.
LEMMA FinishInterruptKeeps ==
  ASSUME ConversationInv, NEW a \in Agent, FinishInterrupt(a)
  PROVE  ConversationInv'
<1> DEFINE interrupt == IF agent[a].interrupt = "pending" THEN "settled" ELSE agent[a].interrupt
           r == [agent[a] EXCEPT !.phase = "exiting", !.interrupt = interrupt]
<1>1. op.agent # a /\ a \in Registered /\ agent[a] \in AgentRecord /\ agent[a].phase = "terminal"
  BY Unengaged DEF FinishInterrupt
<1>2. interrupt \in {"none", "settled"} /\ (interrupt = "none" <=> agent[a].interrupt = "none")
  BY <1>1 DEF AgentRecord
<1>3. agent' = [agent EXCEPT ![a] = r]
  BY DEF FinishInterrupt
<1> HIDE DEF interrupt
<1>4. r \in AgentRecord /\ r.held = agent[a].held /\ r.interrupt = interrupt /\ r.phase = "exiting"
  BY <1>1, <1>2 DEF AgentRecord, Phase
<1> HIDE DEF r
<1>5. Turns(a, r)
  BY <1>1, <1>2, <1>3, <1>4
  DEF Turns, Over, FinishInterrupt, controlVars, closeVars, ConversationInv, TypeOK
<1> QED
  BY <1>5, Turning

\* An agent is stopped, or asked to leave.
LEMMA StopKeeps ==
  ASSUME ConversationInv, NEW a \in Agent, StopAgent(a) \/ WatchAsks(a)
  PROVE  ConversationInv'
<1>1. a \in Registered /\ agent[a] \in AgentRecord
  BY DEF StopAgent, WatchAsks, ConversationInv, ClosesFirst, TypeOK
<1> DEFINE r == IF StopAgent(a) \/ ~watch.requested THEN [agent[a] EXCEPT !.stop = TRUE]
                ELSE [agent[a] EXCEPT !.quiesced = TRUE]
<1>2. agent' = [agent EXCEPT ![a] = r]
  BY DEF StopAgent, WatchAsks
<1>3. /\ r \in AgentRecord /\ r.held = agent[a].held /\ r.interrupt = agent[a].interrupt
      /\ r.phase = agent[a].phase
  <2>1. CASE StopAgent(a) \/ ~watch.requested
    BY <1>1, <2>1 DEF AgentRecord
  <2>2. CASE ~(StopAgent(a) \/ ~watch.requested)
    BY <1>1, <2>2 DEF AgentRecord
  <2> QED
    BY <2>1, <2>2
<1> HIDE DEF r
<1>4. /\ UNCHANGED <<inbox, mail, op, fence, attempt, closing, quiesce, captured>>
      /\ watch' = watch \/ \E b \in Agent : watch' = [watch EXCEPT !.left = @ \ {b}]
      /\ cancelled' \in BOOLEAN
  BY DEF StopAgent, WatchAsks, controlVars, closeVars, ConversationInv, TypeOK
<1>5. Turns(a, r)
  BY <1>1, <1>2, <1>3, <1>4 DEF Turns, ConversationInv, Held
<1> QED
  BY <1>5, Turning

\* The mail is a sequence of letters.
LEMMA MailTyped ==
  ASSUME TypeOK
  PROVE  /\ mail \in Seq(Letter) /\ Len(mail) \in Nat /\ DOMAIN mail = 1..Len(mail)
         /\ \A m \in 1..Len(mail) : /\ mail[m] \in Letter /\ mail[m].to \in Agent
                                    /\ mail[m].receipt \in {"queued", "consumed", "undelivered"}
<1>1. mail \in Seq(Letter)
  BY DEF TypeOK, Letter
<1>2. ASSUME NEW m \in 1..Len(mail)
      PROVE  mail[m] \in Letter
  BY <1>1
<1> QED
  BY <1>1, <1>2 DEF Letter

\* A set of ids that is not empty has an oldest.
LEMMA OldestIn ==
  ASSUME NEW S \in SUBSET Nat, S # {}
  PROVE  Oldest(S) \in S
<1>1. PICK n \in S : \A m \in S : ~ (<<m, n>> \in OpToRel(<, Nat))
  BY NatLessThanWellFounded, WFMin
<1>2. ASSUME NEW m \in S PROVE n <= m
  <2>1. ~ (m < n)
    BY <1>1, Zenon DEF OpToRel
  <2> QED
    BY <2>1
<1> QED
  BY <1>2 DEF Oldest

\* a moves messages from its mailbox to its hands (Receive, Take).
Takes(a, ms, phase) ==
  /\ a \in Agent /\ ms # {} /\ ms \subseteq inbox[a]
  /\ agent[a].phase \in {"waiting", "working"} /\ phase \in {"starting", "joining"}
  /\ phase = "starting" => ~Cut(a)
  /\ agent' = [agent EXCEPT ![a].phase = phase, ![a].held = ms]
  /\ inbox' = [inbox EXCEPT ![a] = @ \ ms]
  /\ UNCHANGED <<mail, op, controlVars, closeVars, cancelled, captured>>

\* What leaves the mailbox for the hands of its agent stays in one place.
LEMMA TakesKeeps ==
  ASSUME ConversationInv, NEW a, NEW ms, NEW phase, Takes(a, ms, phase)
  PROVE  ConversationInv'
<1> USE DEF ConversationInv, Takes, controlVars, closeVars
<1> DEFINE r == [agent[a] EXCEPT !.phase = phase, !.held = ms]
<1>1. op.agent # a /\ a \in Registered /\ agent[a] \in AgentRecord
  BY Unengaged
<1>2. /\ r \in AgentRecord /\ r.phase = phase /\ r.held = ms /\ r.interrupt = agent[a].interrupt
  BY <1>1 DEF AgentRecord, Phase, TypeOK
<1>3. agent' = [agent EXCEPT ![a] = r]
  OBVIOUS
<1>4. agent[a].interrupt # "settled"
  BY DEF Held, Over
<1> HIDE DEF r
<1>5. agent'[a] = r /\ \A b \in Agent : b # a => agent'[b] = agent[b]
  BY <1>1, <1>3 DEF TypeOK
<1>6. /\ inbox'[a] = inbox[a] \ ms /\ \A b \in Agent : b # a => inbox'[b] = inbox[b]
      /\ inbox' \in [Agent -> SUBSET (1..Len(mail))]
  BY DEF TypeOK
<1>7. TypeOK'
  <2>1. agent' \in [Agent -> AgentRecord]
    BY <1>2, <1>3 DEF TypeOK
  <2> QED
    BY <1>6, <2>1 DEF TypeOK, AgentRecord
<1>8. OpFits' /\ Registered' = Registered
  BY <1>1, <1>2, <1>5 DEF OpFits, Holding, Registered, TypeOK
<1>9. Held'
  BY <1>2, <1>4, <1>5, <1>8 DEF Held, Holding, Registered
<1>10. Addressed'
  <2> SUFFICES ASSUME captured PROVE Addressed'
    BY DEF Addressed
  <2>1. ASSUME NEW b \in Agent
        PROVE  /\ agent'[b].held # {} <=> agent'[b].phase \in {"starting", "joining"}
               /\ \A m \in inbox'[b] \cup agent'[b].held : mail[m].to = b
               /\ inbox'[b] # {} => Receptive(b)'
               /\ agent'[b].phase = "registered" => Holding("create") /\ op.agent = b
    <3>1. CASE b = a
      BY <1>2, <1>5, <1>6, <3>1 DEF Addressed, Receptive
    <3>2. CASE b # a
      BY <1>5, <1>6, <3>2 DEF Addressed, Receptive
    <3> QED
      BY <3>1, <3>2
  <2>2. \A b \in Agent : Receptive(b) => Receptive(b)'
    BY <1>2, <1>5 DEF Receptive
  <2>3. \A m \in 1..Len(mail) : mail[m].to \in Agent
    BY MailTyped
  <2>4. op.msg \in 0..Len(mail) /\ Len(mail) \in Nat /\ op.rest \subseteq 1..Len(mail)
    BY MailTyped DEF TypeOK
  <2>5. ASSUME op.name = "deliver", op.msg # 0
        PROVE  Receptive(mail[op.msg].to)'
    <3>1. op.msg \in 1..Len(mail)
      BY <2>4, <2>5
    <3>2. mail[op.msg].to \in Agent /\ Receptive(mail[op.msg].to)
      BY <2>3, <2>5, <3>1 DEF Addressed, Holding
    <3> QED
      BY <2>2, <3>2 DEF Receptive
  <2>6. \A m \in op.rest : IF Holding("finish") THEN mail[m].to = op.agent
                           ELSE Receptive(mail[m].to)'
    BY <2>2, <2>3, <2>4 DEF Addressed, Holding, Receptive
  <2> QED
    BY <2>1, <2>5, <2>6 DEF Addressed, Holding, Receptive
<1>11. NothingLost'
  <2>1. captured => agent[a].held = {}
    BY DEF Addressed
  <2>2. ASSUME captured, NEW m \in DOMAIN mail, mail[m].to = a
        PROVE  Places(m)' = Places(m)
    <3>1. m \in ms => Waits(m) /\ ~Taken(m) /\ ~Waits(m)' /\ Taken(m)'
      BY <1>2, <1>5, <1>6, <2>1, <2>2 DEF Waits, Taken
    <3>2. m \notin ms => ~Taken(m) /\ ~Taken(m)' /\ (Waits(m)' <=> Waits(m))
      BY <1>2, <1>5, <1>6, <2>1, <2>2 DEF Waits, Taken
    <3> QED
      BY <3>1, <3>2 DEF Places, Routed, Returning, Holding
  <2>3. ASSUME NEW m \in DOMAIN mail, mail[m].to # a
        PROVE  Places(m)' = Places(m)
    <3>1. mail[m].to \in Agent
      BY MailTyped
    <3> QED
      BY <1>5, <1>6, <2>3, <3>1 DEF Places, Waits, Taken, Routed, Returning, Holding
  <2> QED
    BY <2>2, <2>3 DEF NothingLost, Acknowledging, Holding
<1>12. FenceIsExact' /\ DiscardsAll' /\ DiscardsInput' /\ ClosesFirst' /\ CloseSettlesMail'
  BY <1>2, <1>5, <1>8 DEF FenceIsExact, DiscardsAll, DiscardsInput, ClosesFirst, CloseSettlesMail,
     Holding, Registered
<1> QED
  BY <1>7, <1>8, <1>9, <1>10, <1>11, <1>12

\* An exchange begins with a message, or takes those that join it.
LEMMA ReceiveKeeps ==
  ASSUME ConversationInv, NEW a \in Agent, Receive(a) \/ Take(a)
  PROVE  ConversationInv'
<1>1. CASE Receive(a)
  <2>1. Oldest(inbox[a]) \in inbox[a]
    BY <1>1, OldestIn DEF Receive, ConversationInv, TypeOK
  <2>2. Takes(a, {Oldest(inbox[a])}, "starting")
    BY <1>1, <2>1 DEF Receive, Takes
  <2> QED
    BY <2>2, TakesKeeps
<1>2. CASE Take(a)
  <2>1. Takes(a, Joining(a), "joining")
    BY <1>2 DEF Take, Takes, Joining
  <2> QED
    BY <2>1, TakesKeeps
<1> QED
  BY <1>1, <1>2

\* A message taken is acknowledged: from here on the request accounts for it.
LEMMA ConsumeKeeps ==
  ASSUME ConversationInv, TakenOnce, NEW a \in Agent, Consume(a)
  PROVE  ConversationInv'
<1> USE DEF ConversationInv, Consume, controlVars, closeVars
<1> DEFINE n == Oldest(agent[a].held)
<1>1. n \in agent[a].held /\ n \in 1..Len(mail)
  <2>1. agent[a].held # {} /\ agent[a].held \in SUBSET Nat /\ agent[a].held \subseteq 1..Len(mail)
    BY DEF TakenOnce, TypeOK, AgentRecord
  <2> QED
    BY <2>1, OldestIn
<1>2. Settled(n, "consumed")
      /\ op' = [name |-> "acknowledge", agent |-> a, msg |-> n, rest |-> {}]
  BY DEF Begun
<1> HIDE DEF n
<1>3. /\ mail' \in Seq(Letter) /\ Len(mail') = Len(mail) /\ Len(mail) \in Nat
      /\ DOMAIN mail' = 1..Len(mail) /\ mail'[n].receipt = "consumed"
      /\ \A m \in 1..Len(mail) : /\ mail'[m].to = mail[m].to /\ mail'[m].kind = mail[m].kind
                                 /\ m # n => mail'[m] = mail[m]
  BY <1>1, <1>2, MailSettles
<1>4. DOMAIN mail = 1..Len(mail) /\ op.name = "free" /\ op.rest = {}
  BY DEF TypeOK, Holding, OpFits
<1>5. TypeOK'
  BY <1>1, <1>2, <1>3 DEF TypeOK, AgentRecord, Letter
<1>6. OpFits' /\ Held'
  BY <1>1, <1>2, <1>3 DEF OpFits, Held, Holding, Registered
<1>7. Addressed'
  BY <1>1, <1>2, <1>3 DEF Addressed, Receptive, Holding, TypeOK, AgentRecord
<1>8. NothingLost'
  BY <1>1, <1>2, <1>3, <1>4 DEF NothingLost, Places, Waits, Taken, Routed, Returning, Acknowledging,
     Holding, Addressed
<1>9. FenceIsExact' /\ DiscardsAll' /\ DiscardsInput' /\ ClosesFirst' /\ CloseSettlesMail'
  BY <1>1, <1>2, <1>3, <1>4 DEF FenceIsExact, DiscardsAll, DiscardsInput, ClosesFirst,
     CloseSettlesMail, Holding, Registered
<1> QED
  BY <1>5, <1>6, <1>7, <1>8, <1>9

\* The acknowledgement is published, and the message leaves the hands of its agent.
LEMMA ConsumedKeeps ==
  ASSUME ConversationInv, Consumed
  PROVE  ConversationInv'
<1> DEFINE a == op.agent
           rest == agent[a].held \ {op.msg}
           r == [agent[a] EXCEPT !.held = rest]
           n == IF ~captured THEN [r EXCEPT !.phase = "ending", !.exit = "uncaptured"]
                ELSE IF rest # {} THEN r
                ELSE IF r.phase = "starting" /\ mail[op.msg].kind = "observation"
                THEN AfterExchange(r, "ended", Dead(a))
                ELSE [r EXCEPT !.phase = "working"]
<1>1. /\ a \in Agent /\ agent[a] \in AgentRecord /\ agent[a].phase \in {"starting", "joining"}
      /\ op.msg \in agent[a].held /\ mail[op.msg].receipt = "consumed"
      /\ op.name = "acknowledge" /\ op.rest = {} /\ captured \in BOOLEAN
  BY DEF Consumed, ConversationInv, OpFits, Holding, TypeOK
<1>2. agent[a].interrupt \in {"none", "pending"}
  BY <1>1 DEF ConversationInv, Held, AgentRecord, Over
<1>3. agent' = [agent EXCEPT ![a] = n] /\ op' = Free
  BY DEF Consumed, Done
<1>4. r \in AgentRecord /\ r.held = rest /\ r.interrupt = agent[a].interrupt
      /\ r.phase = agent[a].phase
  BY <1>1 DEF AgentRecord
<1>5. Dead(a) \in BOOLEAN
  BY <1>1 DEF Dead, ConversationInv, TypeOK, AgentRecord
<1> HIDE DEF r
<1>6. /\ n \in AgentRecord /\ n.held = rest /\ n.interrupt = agent[a].interrupt
      /\ captured => (n.held # {} <=> n.phase \in {"starting", "joining"})
      /\ n.phase \in {"starting", "joining", "working", "ending", "settling", "ready"}
      /\ n.phase = "settling" => n.interrupt = "pending"
  <2>0. CASE ~captured
    BY <1>4, <2>0 DEF AgentRecord, Phase
  <2>1. CASE captured /\ rest # {}
    BY <1>1, <1>4, <2>1
  <2>2. CASE captured /\ rest = {} /\ r.phase = "starting" /\ mail[op.msg].kind = "observation"
    <3>1. n = AfterExchange(r, "ended", Dead(a))
      BY <2>2
    <3> HIDE DEF n
    <3>2. /\ n \in AgentRecord /\ n.interrupt = r.interrupt /\ n.held = r.held
          /\ n.phase \in {"ending", "settling", "ready"}
          /\ n.phase = "settling" => r.interrupt # "none"
      BY <1>4, <1>5, <3>1, AfterFields
    <3> QED
      BY <1>2, <1>4, <2>2, <3>2
  <2>3. CASE captured /\ rest = {} /\ ~(r.phase = "starting" /\ mail[op.msg].kind = "observation")
    BY <1>4, <2>3 DEF AgentRecord, Phase
  <2> QED
    BY <1>1, <2>0, <2>1, <2>2, <2>3
<1>7. /\ UNCHANGED <<inbox, mail, fence, attempt, closing, quiesce, watch, captured>>
      /\ cancelled' \in BOOLEAN
  BY DEF Consumed, Reported, controlVars, closeVars, ConversationInv, TypeOK
<1> HIDE DEF n
<1>8. agent'[a] = n /\ \A b \in Agent : b # a => agent'[b] = agent[b]
  BY <1>1, <1>3 DEF ConversationInv, TypeOK
<1> USE DEF ConversationInv
<1>9. TypeOK' /\ Registered' = Registered
  <2>1. agent' \in [Agent -> AgentRecord]
    BY <1>3, <1>6 DEF TypeOK
  <2>2. op' \in [name : {"free", "create", "deliver", "acknowledge", "finish", "discard"},
                 agent : Agent \cup {User}, msg : 0..Len(mail), rest : SUBSET (1..Len(mail))]
    BY <1>3, MailTyped DEF Free
  <2>3. Registered' = Registered
    BY <1>1, <1>6, <1>8 DEF Registered
  <2> QED
    BY <1>7, <2>1, <2>2, <2>3 DEF TypeOK, AgentRecord
<1>10. OpFits'
  BY <1>3 DEF OpFits, Holding, Free
<1>11. Held'
  BY <1>1, <1>2, <1>3, <1>6, <1>7, <1>8, <1>9 DEF Held, Holding, Free
<1>12. Addressed'
  BY <1>1, <1>3, <1>6, <1>7, <1>8 DEF Addressed, Receptive, Holding, Free
<1>13. NothingLost'
  <2>1. ASSUME captured, NEW m \in DOMAIN mail
        PROVE  Places(m)' = IF mail[m].receipt = "queued" THEN 1 ELSE 0
    <3>1. mail[m].to \in Agent /\ m \in Nat
      BY MailTyped
    <3>2. Places(m) = IF mail[m].receipt = "queued" \/ m = op.msg THEN 1 ELSE 0
      BY <1>1, <2>1 DEF NothingLost, Acknowledging, Holding
    <3>3. ~Routed(m) /\ ~Returning(m) /\ ~Routed(m)' /\ ~Returning(m)'
      BY <1>1, <1>3 DEF Routed, Returning, Holding, Free
    <3>4. Waits(m)' <=> Waits(m)
      BY <1>7 DEF Waits
    <3>5. CASE m = op.msg
      <4>1. mail[m].to = a /\ Taken(m)
        BY <1>1, <2>1, <3>5 DEF Addressed, Taken
      <4>2. ~Taken(m)' /\ ~Waits(m)
        BY <1>6, <1>7, <1>8, <3>2, <3>3, <3>5, <4>1 DEF Taken, Places
      <4> QED
        BY <1>1, <3>3, <3>4, <3>5, <4>2 DEF Places
    <3>6. CASE m # op.msg
      <4>1. Taken(m)' <=> Taken(m)
        BY <1>6, <1>7, <1>8, <3>1, <3>6 DEF Taken
      <4> QED
        BY <3>2, <3>3, <3>4, <3>6, <4>1 DEF Places
    <3> QED
      BY <3>5, <3>6
  <2> QED
    BY <1>3, <1>7, <2>1 DEF NothingLost, Acknowledging, Holding, Free
<1>14. FenceIsExact' /\ DiscardsAll' /\ DiscardsInput' /\ ClosesFirst' /\ CloseSettlesMail'
  BY <1>3, <1>6, <1>7, <1>8, <1>9
  DEF FenceIsExact, DiscardsAll, DiscardsInput, ClosesFirst, CloseSettlesMail, Holding, Free
<1> QED
  BY <1>9, <1>10, <1>11, <1>12, <1>13, <1>14

----------------------------------------------------------------------------
(* Creation. *)

\* An agent is registered: nothing is held, and none can be while the fence is down.
LEMMA CreateAgentKeeps ==
  ASSUME ConversationInv, NEW a \in Agent, NEW parent \in Agent \cup {User}, CreateAgent(a, parent)
  PROVE  ConversationInv'
<1> USE DEF ConversationInv
<1> DEFINE r == [agent[a] EXCEPT !.phase = "registered", !.parent = parent]
<1>1. agent[a] \in AgentRecord /\ agent[a] = Absent /\ ~fence /\ op.name = "free" /\ op.rest = {}
      /\ ~closing /\ a # User
  BY ConversationAssumption
  DEF CreateAgent, TypeOK, Registered, Held, OpFits, Holding, Agent, User, Closed
<1>2. r \in AgentRecord /\ r.phase = "registered" /\ r.held = {} /\ r.interrupt = "none"
  <2>1. agent[a].held = {} /\ agent[a].interrupt = "none" /\ agent[a] \in AgentRecord
    BY <1>1 DEF Absent
  <2> QED
    BY <2>1 DEF AgentRecord, Phase
<1>3. agent' = [agent EXCEPT ![a] = r]
      /\ op' = [name |-> "create", agent |-> a, msg |-> 0, rest |-> {}]
  BY DEF CreateAgent, Begun
<1>4. UNCHANGED <<inbox, mail, fence, attempt, closing, quiesce, watch, cancelled, captured>>
  BY DEF CreateAgent, controlVars, closeVars
<1> HIDE DEF r
<1>5. agent'[a] = r /\ \A b \in Agent : b # a => agent'[b] = agent[b]
  BY <1>1, <1>3 DEF TypeOK
<1>6. Registered' = Registered \cup {a}
  BY <1>2, <1>5 DEF Registered
<1>7. TypeOK'
  <2>1. agent' \in [Agent -> AgentRecord]
    BY <1>2, <1>3 DEF TypeOK
  <2>2. op' \in [name : {"free", "create", "deliver", "acknowledge", "finish", "discard"},
                 agent : Agent \cup {User}, msg : 0..Len(mail), rest : SUBSET (1..Len(mail))]
    BY <1>3, MailTyped
  <2> QED
    BY <1>4, <2>1, <2>2 DEF TypeOK, AgentRecord
<1>8. OpFits'
  BY <1>2, <1>3, <1>5 DEF OpFits, Holding
<1>9. Held'
  BY <1>1, <1>2, <1>3, <1>4, <1>5, <1>6 DEF Held, Holding
<1>10. Addressed'
  BY <1>1, <1>2, <1>3, <1>4, <1>5 DEF Addressed, Receptive, Holding, Absent
<1>11. NothingLost'
  <2>1. ASSUME NEW m \in DOMAIN mail
        PROVE  Places(m)' = Places(m)
    BY <1>1, <1>2, <1>3, <1>4, <1>5, MailTyped
    DEF Places, Waits, Taken, Routed, Returning, Holding, Absent
  <2> QED
    BY <1>1, <1>3, <1>4, <2>1 DEF NothingLost, Acknowledging, Holding
<1>12. FenceIsExact' /\ DiscardsAll' /\ DiscardsInput' /\ ClosesFirst' /\ CloseSettlesMail'
  BY <1>1, <1>2, <1>3, <1>4, <1>5, <1>6
  DEF FenceIsExact, DiscardsAll, DiscardsInput, ClosesFirst, CloseSettlesMail, Holding, Absent
<1> QED
  BY <1>7, <1>8, <1>9, <1>10, <1>11, <1>12

\* Its loop starts, unless the log has failed.
LEMMA CreatedKeeps ==
  ASSUME ConversationInv, Created
  PROVE  ConversationInv'
<1> USE DEF ConversationInv
<1> DEFINE a == op.agent
           r == IF captured THEN [agent[a] EXCEPT !.phase = "ready"]
                ELSE [agent[a] EXCEPT !.stop = TRUE]
<1>1. /\ a \in Agent /\ agent[a] \in AgentRecord /\ agent[a].phase = "registered"
      /\ op.name = "create" /\ op.rest = {}
  BY DEF Created, OpFits, Holding, TypeOK
<1>2. /\ r \in AgentRecord /\ r.held = agent[a].held /\ r.interrupt = agent[a].interrupt
      /\ r.phase = IF captured THEN "ready" ELSE "registered"
  <2>1. CASE captured
    BY <1>1, <2>1 DEF AgentRecord, Phase
  <2>2. CASE ~captured
    BY <1>1, <2>2 DEF AgentRecord
  <2> QED
    BY <2>1, <2>2
<1>3. agent' = [agent EXCEPT ![a] = r] /\ op' = Free
  BY DEF Created, Done
<1>4. UNCHANGED <<inbox, mail, fence, attempt, closing, quiesce, watch, captured>>
      /\ cancelled' \in BOOLEAN
  BY DEF Created, controlVars, closeVars, Reported, TypeOK
<1> HIDE DEF r
<1>5. agent'[a] = r /\ \A b \in Agent : b # a => agent'[b] = agent[b]
  BY <1>1, <1>3 DEF TypeOK
<1>6. Registered' = Registered /\ a \in Registered
  BY <1>1, <1>2, <1>5 DEF Registered
<1>7. TypeOK'
  <2>1. agent' \in [Agent -> AgentRecord]
    BY <1>2, <1>3 DEF TypeOK
  <2>2. op' \in [name : {"free", "create", "deliver", "acknowledge", "finish", "discard"},
                 agent : Agent \cup {User}, msg : 0..Len(mail), rest : SUBSET (1..Len(mail))]
    BY <1>3, MailTyped DEF Free
  <2> QED
    BY <1>4, <2>1, <2>2 DEF TypeOK, AgentRecord
<1>8. OpFits'
  BY <1>3 DEF OpFits, Holding, Free
<1>9. Held'
  BY <1>1, <1>2, <1>3, <1>4, <1>5, <1>6 DEF Held, Holding, Free
<1>10. Addressed'
  BY <1>1, <1>2, <1>3, <1>4, <1>5 DEF Addressed, Receptive, Holding, Free
<1>11. NothingLost'
  <2>1. ASSUME NEW m \in DOMAIN mail
        PROVE  Places(m)' = Places(m)
    BY <1>1, <1>2, <1>3, <1>4, <1>5, MailTyped
    DEF Places, Waits, Taken, Routed, Returning, Holding, Free
  <2> QED
    BY <1>1, <1>3, <1>4, <2>1 DEF NothingLost, Acknowledging, Holding, Free
<1>12. FenceIsExact' /\ DiscardsAll' /\ DiscardsInput' /\ ClosesFirst' /\ CloseSettlesMail'
  BY <1>1, <1>2, <1>3, <1>4, <1>5, <1>6
  DEF FenceIsExact, DiscardsAll, DiscardsInput, ClosesFirst, CloseSettlesMail, Holding, Free
<1> QED
  BY <1>7, <1>8, <1>9, <1>10, <1>11, <1>12

\* What holds the emission lock.
Op == [name : {"free", "create", "deliver", "acknowledge", "finish", "discard"},
       agent : Agent \cup {User}, msg : 0..Len(mail), rest : SUBSET (1..Len(mail))]

----------------------------------------------------------------------------
(* Ends, interruptions and closes. *)

\* An agent that ends leaves its mailbox to the request that ends it.
LEMMA FinishKeeps ==
  ASSUME ConversationInv, NEW a \in Agent, Finish(a)
  PROVE  ConversationInv'
<1> USE DEF ConversationInv
<1> DEFINE r == [agent[a] EXCEPT !.phase = "finishing", !.stop = TRUE]
<1>1. /\ agent[a] \in AgentRecord /\ agent[a].phase = "exiting" /\ op.name = "free" /\ op.rest = {}
      /\ a \in Registered
  BY DEF Finish, TypeOK, Registered, OpFits, Holding
<1>2. /\ r \in AgentRecord /\ r.held = agent[a].held /\ r.interrupt = agent[a].interrupt
      /\ r.phase = "finishing"
  BY <1>1 DEF AgentRecord, Phase
<1>3. agent' = [agent EXCEPT ![a] = r]
      /\ op' = [name |-> "finish", agent |-> a, msg |-> 0, rest |-> inbox[a]]
  BY DEF Finish, Begun
<1>4. UNCHANGED <<mail, fence, attempt, closing, quiesce, watch, cancelled, captured>>
  BY DEF Finish, controlVars, closeVars
<1> HIDE DEF r
<1>5. agent'[a] = r /\ \A b \in Agent : b # a => agent'[b] = agent[b]
  BY <1>1, <1>3 DEF TypeOK
<1>6. /\ inbox'[a] = {} /\ \A b \in Agent : b # a => inbox'[b] = inbox[b]
      /\ inbox' \in [Agent -> SUBSET (1..Len(mail))]
  BY DEF Finish, TypeOK
<1>7. Registered' = Registered
  BY <1>1, <1>2, <1>5 DEF Registered
<1>8. TypeOK'
  <2>1. agent' \in [Agent -> AgentRecord]
    BY <1>2, <1>3 DEF TypeOK
  <2>2. op' \in Op
    BY <1>3, MailTyped DEF TypeOK, Op
  <2> QED
    BY <1>4, <1>6, <2>1, <2>2 DEF TypeOK, AgentRecord, Op
<1>9. OpFits'
  BY <1>2, <1>3, <1>5 DEF OpFits, Holding
<1>10. Held'
  BY <1>1, <1>2, <1>3, <1>4, <1>5, <1>7 DEF Held, Holding, Over
<1>11. Addressed'
  BY <1>1, <1>2, <1>3, <1>4, <1>5, <1>6 DEF Addressed, Receptive, Holding
<1>12. NothingLost'
  <2>1. ASSUME captured, NEW m \in DOMAIN mail
        PROVE  Places(m)' = Places(m)
    <3>1. mail[m].to \in Agent
      BY MailTyped
    <3>2. CASE mail[m].to = a
      BY <1>1, <1>2, <1>3, <1>4, <1>5, <1>6, <3>2
      DEF Places, Waits, Taken, Routed, Returning, Holding
    <3>3. CASE mail[m].to # a
      BY <1>1, <1>2, <1>3, <1>4, <1>5, <1>6, <2>1, <3>1, <3>3
      DEF Places, Waits, Taken, Routed, Returning, Holding, Addressed
    <3> QED
      BY <3>2, <3>3
  <2> QED
    BY <1>1, <1>3, <1>4, <2>1 DEF NothingLost, Acknowledging, Holding
<1>13. FenceIsExact' /\ DiscardsAll' /\ DiscardsInput' /\ ClosesFirst' /\ CloseSettlesMail'
  BY <1>1, <1>2, <1>3, <1>4, <1>5, <1>7
  DEF FenceIsExact, DiscardsAll, DiscardsInput, ClosesFirst, CloseSettlesMail, Holding
<1> QED
  BY <1>8, <1>9, <1>10, <1>11, <1>12, <1>13

\* A message left is returned, and leaves the request.
LEMMA UndeliverKeeps ==
  ASSUME ConversationInv, Undeliver
  PROVE  ConversationInv'
<1> USE DEF ConversationInv
<1>1. PICK n \in op.rest : Settled(n, "undelivered") /\ op' = [op EXCEPT !.rest = @ \ {n}]
  BY DEF Undeliver
<1>2. n \in 1..Len(mail) /\ op \in Op /\ op.name \in {"finish", "discard"}
  BY DEF TypeOK, Undeliver, Op
<1>3. /\ mail' \in Seq(Letter) /\ Len(mail') = Len(mail) /\ Len(mail) \in Nat
      /\ DOMAIN mail' = 1..Len(mail) /\ mail'[n].receipt = "undelivered"
      /\ \A m \in 1..Len(mail) : /\ mail'[m].to = mail[m].to /\ mail'[m].kind = mail[m].kind
                                 /\ m # n => mail'[m] = mail[m]
  BY <1>1, <1>2, MailSettles
<1>4. /\ op' \in Op /\ op'.name = op.name /\ op'.agent = op.agent /\ op'.msg = op.msg
      /\ op'.rest = op.rest \ {n}
  BY <1>1, <1>2 DEF Op
<1>5. UNCHANGED <<agent, inbox, fence, attempt, closing, quiesce, watch, captured>>
      /\ cancelled' \in BOOLEAN
  BY DEF Undeliver, controlVars, closeVars, Reported, TypeOK
<1>6. TypeOK' /\ Registered' = Registered
  BY <1>3, <1>4, <1>5 DEF TypeOK, AgentRecord, Letter, Op, Registered
<1>7. OpFits' /\ Held'
  BY <1>2, <1>4, <1>5, <1>6 DEF OpFits, Held, Holding
<1>8. Addressed'
  <2>1. \A b \in Agent : inbox[b] \subseteq 1..Len(mail) /\ agent[b].held \subseteq 1..Len(mail)
    BY DEF TypeOK, AgentRecord
  <2>2. op.rest \subseteq 1..Len(mail)
    BY DEF TypeOK
  <2> QED
    BY <1>2, <1>3, <1>4, <1>5, <2>1, <2>2 DEF Addressed, Receptive, Holding
<1>9. NothingLost'
  <2>1. ASSUME captured, NEW m \in 1..Len(mail)
        PROVE  Places(m)' = IF mail'[m].receipt = "queued" THEN 1 ELSE 0
    <3>1. /\ ~Routed(m) /\ ~Routed(m)' /\ (Waits(m)' <=> Waits(m)) /\ (Taken(m)' <=> Taken(m))
          /\ (Returning(m)' <=> Returning(m) /\ m # n)
      BY <1>2, <1>3, <1>4, <1>5 DEF Routed, Waits, Taken, Returning, Holding
    <3>2. Places(m) = IF mail[m].receipt = "queued" THEN 1 ELSE 0
      BY <1>2, <2>1, MailTyped DEF NothingLost, Acknowledging, Holding
    <3>3. CASE m = n
      <4>1. Returning(m) /\ ~Waits(m) /\ ~Taken(m)
        BY <3>1, <3>2, <3>3 DEF Places, Returning
      <4> QED
        BY <1>3, <3>1, <3>3, <4>1 DEF Places
    <3>4. CASE m # n
      BY <1>3, <3>1, <3>2, <3>4 DEF Places
    <3> QED
      BY <3>3, <3>4
  <2> QED
    BY <1>2, <1>3, <1>4, <1>5, <2>1 DEF NothingLost, Acknowledging, Holding
<1>10. FenceIsExact' /\ DiscardsAll' /\ DiscardsInput' /\ ClosesFirst' /\ CloseSettlesMail'
  BY <1>2, <1>3, <1>4, <1>5, <1>6, MailTyped
  DEF FenceIsExact, DiscardsAll, DiscardsInput, ClosesFirst, CloseSettlesMail, Holding
<1> QED
  BY <1>6, <1>7, <1>8, <1>9, <1>10

\* The fence goes up before any agent holds an interruption: each holds one after.
LEMMA InterruptKeeps ==
  ASSUME ConversationInv, Interrupt
  PROVE  ConversationInv'
<1> USE DEF ConversationInv
<1>1. /\ fence' = TRUE /\ attempt' = "waiting" /\ attempt = "none" /\ ~fence
      /\ UNCHANGED <<inbox, mail, op, closing, quiesce, watch, cancelled, captured>>
  BY DEF Interrupt, closeVars, Held
<1>2. \A a \in Registered : agent[a].interrupt = "none"
  BY <1>1 DEF FenceIsExact
<1>3. ASSUME NEW a \in Agent
      PROVE  /\ agent'[a] \in AgentRecord /\ agent'[a].phase = agent[a].phase
             /\ agent'[a].held = agent[a].held
             /\ a \notin Registered => agent'[a] = agent[a]
             /\ a \in Registered =>
                  agent'[a].interrupt = IF agent[a].phase \in Over THEN "settled" ELSE "pending"
  <2>1. agent[a] \in AgentRecord
    BY DEF TypeOK
  <2>2. CASE a \in Registered
    <3>1. agent'[a] = [agent[a] EXCEPT !.interrupt = IF agent[a].phase \in Over THEN "settled"
                                                     ELSE "pending"]
      BY <1>2, <2>2 DEF Interrupt, Interrupted
    <3>2. CASE agent[a].phase \in Over
      BY <2>1, <2>2, <3>1, <3>2 DEF AgentRecord
    <3>3. CASE agent[a].phase \notin Over
      BY <2>1, <2>2, <3>1, <3>3 DEF AgentRecord
    <3> QED
      BY <3>2, <3>3
  <2>3. CASE a \notin Registered
    BY <2>1, <2>3 DEF Interrupt
  <2> QED
    BY <2>2, <2>3
<1>4. Registered' = Registered
  BY <1>3 DEF Registered
<1>5. TypeOK'
  <2>1. agent' \in [Agent -> AgentRecord]
    BY <1>3 DEF Interrupt
  <2> QED
    BY <1>1, <2>1 DEF TypeOK, AgentRecord
<1>6. OpFits'
  BY <1>1, <1>3 DEF OpFits, Holding, TypeOK
<1>7. Held'
  <2>1. ~Holding("discard")
    BY <1>1 DEF Held
  <2>2. ASSUME NEW a \in Agent
        PROVE  /\ agent'[a].phase = "absent" => agent'[a] = Absent
               /\ agent'[a].phase = "settling" => agent'[a].interrupt = "pending"
               /\ agent'[a].interrupt = "settled" => agent'[a].phase \in {"ready", "ending"} \cup Over
    BY <1>2, <1>3 DEF Held, Registered, Over
  <2> QED
    BY <1>1, <2>1, <2>2 DEF Held, Holding
<1>8. Addressed'
  BY <1>1, <1>3, MailTyped DEF Addressed, Receptive, Holding, TypeOK
<1>9. NothingLost'
  BY <1>1, <1>3, MailTyped DEF NothingLost, Places, Waits, Taken, Routed, Returning,
     Acknowledging, Holding
<1>10. FenceIsExact' /\ DiscardsAll' /\ DiscardsInput' /\ ClosesFirst' /\ CloseSettlesMail'
  BY <1>1, <1>3, <1>4
  DEF FenceIsExact, DiscardsAll, DiscardsInput, ClosesFirst, CloseSettlesMail, Holding, Registered
<1> QED
  BY <1>5, <1>6, <1>7, <1>8, <1>9, <1>10

\* Once every agent holds its interruption none has a message in its hands, and none is
\* being routed: the mailboxes hold all that is queued.
LEMMA DiscardKeeps ==
  ASSUME ConversationInv, Discard
  PROVE  ConversationInv'
<1> USE DEF ConversationInv
<1> DEFINE left == UNION {inbox[a] : a \in Agent}
<1>1. /\ attempt = "waiting" /\ op.name = "free" /\ op.rest = {}
      /\ \A a \in Registered : agent[a].interrupt = "settled"
      /\ op' = [name |-> "discard", agent |-> User, msg |-> 0, rest |-> left]
      /\ \A a \in Agent : inbox'[a] = {}
      /\ inbox' \in [Agent -> SUBSET (1..Len(mail))]
      /\ UNCHANGED <<agent, mail, fence, attempt, closing, quiesce, watch, cancelled, captured>>
  BY DEF Discard, Begun, controlVars, closeVars, OpFits, Holding
<1>2. left \subseteq 1..Len(mail)
  BY DEF TypeOK
<1>3. \A m : m \in left <=> \E a \in Agent : m \in inbox[a]
  OBVIOUS
<1> HIDE DEF left
<1>4. captured => \A a \in Agent : agent[a].held = {}
  BY <1>1 DEF Addressed, Held, Registered, Over, TypeOK
<1>5. TypeOK' /\ Registered' = Registered
  <2>1. op' \in Op
    BY <1>1, <1>2, MailTyped DEF Op
  <2> QED
    BY <1>1, <2>1 DEF TypeOK, AgentRecord, Op, Registered
<1>6. OpFits' /\ Held'
  BY <1>1, <1>5 DEF OpFits, Held, Holding
<1>7. Addressed'
  BY <1>1, <1>2, <1>3 DEF Addressed, Receptive, Holding
<1>8. ASSUME captured, NEW m \in 1..Len(mail)
      PROVE  (Places(m)' = IF mail[m].receipt = "queued" THEN 1 ELSE 0)
             /\ (mail[m].receipt = "queued" => m \in left)
  <2>1. mail[m].to \in Agent
    BY MailTyped
  <2>2. Places(m) = IF mail[m].receipt = "queued" THEN 1 ELSE 0
    BY <1>1, <1>8, MailTyped DEF NothingLost, Acknowledging, Holding
  <2>3. ~Taken(m) /\ ~Routed(m) /\ ~Returning(m) /\ ~Taken(m)' /\ ~Routed(m)' /\ ~Waits(m)'
    BY <1>1, <1>4, <1>8, <2>1 DEF Taken, Routed, Returning, Waits, Holding
  <2>4. Waits(m) <=> m \in left
    BY <1>3, <1>8, <2>1 DEF Waits, Addressed
  <2>5. Returning(m)' <=> m \in left
    BY <1>1 DEF Returning
  <2> QED
    BY <2>2, <2>3, <2>4, <2>5 DEF Places
<1>9. NothingLost' /\ DiscardsAll'
  BY <1>1, <1>8, MailTyped DEF NothingLost, DiscardsAll, Acknowledging, Holding
<1>10. FenceIsExact' /\ DiscardsInput' /\ ClosesFirst' /\ CloseSettlesMail'
  BY <1>1, <1>5 DEF FenceIsExact, DiscardsInput, ClosesFirst, CloseSettlesMail
<1> QED
  BY <1>5, <1>6, <1>7, <1>9, <1>10

\* When all of it is returned, the interruption is done and nothing is queued.
LEMMA DiscardedKeeps ==
  ASSUME ConversationInv, Discarded
  PROVE  ConversationInv'
<1> USE DEF ConversationInv
<1>1. /\ op.name = "discard" /\ op.rest = {} /\ attempt' = "done" /\ op' = Free /\ attempt = "waiting"
      /\ UNCHANGED <<agent, inbox, mail, fence, closing, quiesce, watch, cancelled, captured>>
  BY DEF Discarded, Done, Holding, closeVars, Held
<1>2. TypeOK' /\ Registered' = Registered
  <2>1. op' \in Op
    BY <1>1, MailTyped DEF Op, Free
  <2> QED
    BY <1>1, <2>1 DEF TypeOK, AgentRecord, Op, Registered
<1>3. OpFits' /\ Held' /\ Addressed'
  BY <1>1, <1>2 DEF OpFits, Held, Addressed, Receptive, Holding, Free
<1>4. NothingLost'
  BY <1>1 DEF NothingLost, Places, Waits, Taken, Routed, Returning, Acknowledging, Holding, Free
<1>5. FenceIsExact' /\ DiscardsAll' /\ DiscardsInput' /\ ClosesFirst' /\ CloseSettlesMail'
  BY <1>1, <1>2
  DEF FenceIsExact, DiscardsAll, DiscardsInput, ClosesFirst, CloseSettlesMail, Holding, Free
<1> QED
  BY <1>2, <1>3, <1>4, <1>5

\* Requests, and the failure of the log, move no message.
LEMMA RequestsKeep ==
  ASSUME ConversationInv, Close \/ Cancel \/ WatchWakes \/ CaptureFails
  PROVE  ConversationInv'
<1> USE DEF ConversationInv
<1>1. /\ UNCHANGED <<agent, inbox, mail, op, fence, attempt>>
      /\ quiesce' \in BOOLEAN /\ cancelled' \in BOOLEAN /\ closing' \in BOOLEAN
      /\ captured' \in BOOLEAN /\ (captured' => captured)
      /\ \/ watch' = watch /\ closing' = closing
         \/ /\ closing' /\ watch'.stage = "asking" /\ watch'.left = Registered
            /\ watch' \in [stage : {"idle", "asking", "done"}, requested : BOOLEAN, left : SUBSET Agent]
  <2>1. CASE Close
    BY <2>1 DEF Close, controlVars, TypeOK
  <2>4. CASE Cancel
    BY <2>4 DEF Cancel, controlVars, closeVars, TypeOK
  <2>2. CASE CaptureFails
    BY <2>2 DEF CaptureFails, controlVars, closeVars, TypeOK
  <2>3. CASE WatchWakes
    <3>1. PICK requested \in BOOLEAN :
            watch' = [stage |-> "asking", requested |-> requested, left |-> Registered]
      BY <2>3 DEF WatchWakes
    <3>2. Registered \subseteq Agent
      BY DEF Registered
    <3> QED
      BY <2>3, <3>1, <3>2 DEF WatchWakes, controlVars, TypeOK
  <2> QED
    BY <2>1, <2>2, <2>3, <2>4
<1>2. TypeOK' /\ Registered' = Registered
  BY <1>1 DEF TypeOK, AgentRecord, Registered
<1>3. OpFits' /\ Held' /\ Addressed'
  BY <1>1, <1>2 DEF OpFits, Held, Addressed, Receptive, Holding
<1>4. NothingLost'
  BY <1>1 DEF NothingLost, Places, Waits, Taken, Routed, Returning, Acknowledging, Holding
<1>5. FenceIsExact' /\ DiscardsAll' /\ DiscardsInput' /\ ClosesFirst' /\ CloseSettlesMail'
  BY <1>1, <1>2
  DEF FenceIsExact, DiscardsAll, DiscardsInput, ClosesFirst, CloseSettlesMail, Holding
<1> QED
  BY <1>2, <1>3, <1>4, <1>5

\* When every loop that started is gone, every place a message can be in is empty.
LEMMA WatchDoneKeeps ==
  ASSUME ConversationInv, WatchDone
  PROVE  ConversationInv'
<1> USE DEF ConversationInv
<1>1. /\ UNCHANGED <<agent, inbox, mail, op, fence, attempt, closing, quiesce, cancelled, captured>>
      /\ watch.stage = "asking" /\ watch' = [watch EXCEPT !.stage = "done"]
      /\ \A a \in Agent : agent[a].phase \in {"absent", "registered", "gone"}
  BY DEF WatchDone, controlVars
<1>2. TypeOK' /\ Registered' = Registered
  BY <1>1 DEF TypeOK, AgentRecord, Registered
<1>3. OpFits' /\ Held' /\ Addressed'
  BY <1>1, <1>2 DEF OpFits, Held, Addressed, Receptive, Holding
<1>4. NothingLost'
  BY <1>1 DEF NothingLost, Places, Waits, Taken, Routed, Returning, Acknowledging, Holding
<1>5. FenceIsExact' /\ DiscardsAll' /\ DiscardsInput' /\ ClosesFirst'
  BY <1>1, <1>2 DEF FenceIsExact, DiscardsAll, DiscardsInput, ClosesFirst, Holding, TypeOK
<1>6. ASSUME captured, NEW m \in 1..Len(mail), mail[m].receipt = "queued"
      PROVE  FALSE
  <2>1. mail[m].to \in Agent
    BY MailTyped
  <2>2. Places(m) = 1
    BY <1>6, MailTyped DEF NothingLost
  <2>3. ~Waits(m) /\ ~Taken(m)
    BY <1>1, <1>6, <2>1 DEF Waits, Taken, Addressed, Receptive
  <2>4. ~Routed(m)
    <3>1. ASSUME Holding("deliver"), op.msg = m PROVE FALSE
      <4>1. m # 0
        OBVIOUS
      <4> QED
        BY <1>1, <1>6, <2>1, <3>1, <4>1 DEF Addressed, Receptive
    <3> QED
      BY <3>1 DEF Routed
  <2>5. ~Returning(m)
    <3>1. ASSUME m \in op.rest PROVE FALSE
      BY <1>1, <1>6, <2>1, <3>1 DEF Addressed, Receptive, OpFits, Holding
    <3> QED
      BY <3>1 DEF Returning
  <2> QED
    BY <2>2, <2>3, <2>4, <2>5 DEF Places
<1>7. CloseSettlesMail'
  BY <1>1, <1>6, MailTyped DEF CloseSettlesMail
<1> QED
  BY <1>2, <1>3, <1>4, <1>5, <1>7

----------------------------------------------------------------------------
(* Routing. *)

\* A message is routed (Send, Deliver, ToolSend, ReplySend, the failure of Exited): the
\* sender and the release of an interruption change nothing that a mailbox depends on.
Routes(from, to, kind) ==
  /\ from \in Agent \cup {User} /\ to \in Agent \cup {User} /\ ~closing
  /\ kind \in HostKind \cup {"instruction", "reply", "failure"}
  /\ op.name \in {"free", "finish"} /\ op.rest = {} /\ Routing(from, to, kind)
  /\ agent' \in [Agent -> AgentRecord]
  /\ \A b \in Agent :
       /\ agent[b].phase = "absent" => agent'[b] = agent[b]
       /\ agent'[b].held = agent[b].held
       /\ \/ agent'[b].phase = agent[b].phase
          \/ agent[b].phase = "working" /\ agent'[b].phase = "sending"
  /\ \/ attempt' = attempt /\ fence' = fence /\ \A b \in Agent : agent'[b].interrupt = agent[b].interrupt
     \/ /\ attempt = "done" /\ attempt' = "none" /\ fence' = FALSE
        /\ \A b \in Agent : agent'[b].interrupt = "none"
  /\ from = User \/ agent'[from].phase \in {"sending", "replying", "finishing"}
  /\ attempt' = "done" => kind = "failure"
  /\ UNCHANGED <<inbox, closing, quiesce, watch, captured>> /\ cancelled' \in BOOLEAN

\* A message that is routed is in one place, and its recipient can be given it.
LEMMA RoutesKeeps ==
  ASSUME ConversationInv, NEW from, NEW to, NEW kind, Routes(from, to, kind)
  PROVE  ConversationInv'
<1> USE DEF ConversationInv
<1>0. PICK n : n = IF to = User THEN 0 ELSE Len(mail) + 1
  OBVIOUS
<1>1. /\ from \in Agent \cup {User} /\ to \in Agent \cup {User} /\ ~closing
      /\ kind \in HostKind \cup {"instruction", "reply", "failure"}
      /\ op.name \in {"free", "finish"} /\ op.rest = {}
      /\ UNCHANGED <<inbox, closing, quiesce, watch, captured>> /\ cancelled' \in BOOLEAN
      /\ agent' \in [Agent -> AgentRecord]
  BY DEF Routes
<1>2. \A b \in Agent : /\ agent[b].phase = "absent" => agent'[b] = agent[b]
                       /\ agent'[b].held = agent[b].held
                       /\ \/ agent'[b].phase = agent[b].phase
                          \/ agent[b].phase = "working" /\ agent'[b].phase = "sending"
  BY DEF Routes
<1>3. Active(to) /\ op' = [name |-> "deliver", agent |-> from, msg |-> n, rest |-> {}]
      /\ (to = User => mail' = mail) /\ (to # User => to \in Agent /\ Queued(to, kind))
  BY <1>0 DEF Routes, Routing, Begun
<1>4. /\ mail' \in Seq(Letter) /\ Len(mail) \in Nat /\ n \in 0..Len(mail')
      /\ Len(mail') \in Nat /\ Len(mail) <= Len(mail')
      /\ \A m \in 1..Len(mail) : mail'[m] = mail[m] /\ m \in 1..Len(mail') /\ m # n
      /\ \A m \in 1..Len(mail') : m \in 1..Len(mail) \/ m = n
      /\ n # 0 => /\ to \in Agent /\ n \in 1..Len(mail')
                  /\ mail'[n] = [to |-> to, kind |-> kind, receipt |-> "queued"]
  <2>1. CASE to = User
    BY <1>0, <1>3, <2>1, MailTyped
  <2>2. CASE to # User
    <3>1. /\ mail' \in Seq(Letter) /\ Len(mail') = Len(mail) + 1 /\ Len(mail) \in Nat
          /\ mail'[Len(mail) + 1] = [to |-> to, kind |-> kind, receipt |-> "queued"]
          /\ \A m \in 1..Len(mail) : mail'[m] = mail[m]
      BY <1>1, <1>3, <2>2, MailGrows
    <3> QED
      BY <1>0, <1>3, <2>2, <3>1
  <2> QED
    BY <2>1, <2>2
<1>5. \/ /\ attempt' = attempt /\ fence' = fence
         /\ \A b \in Agent : agent'[b].interrupt = agent[b].interrupt
      \/ /\ attempt = "done" /\ attempt' = "none" /\ fence' = FALSE
         /\ \A b \in Agent : agent'[b].interrupt = "none"
  BY DEF Routes
<1>6. Registered' = Registered
  BY <1>2 DEF Registered
<1>7. captured => n = 0 \/ Receptive(to)
  BY <1>0, <1>1, <1>3 DEF Active, Receptive, Addressed, Holding, Registered, Over, User
<1>8. /\ \A a \in Agent : inbox[a] \subseteq 1..Len(mail) /\ agent[a].held \subseteq 1..Len(mail)
      /\ \A m \in 1..Len(mail) : mail[m].to \in Agent
  BY MailTyped DEF TypeOK, AgentRecord
<1>9. TypeOK'
  <2>1. op' \in [name : {"free", "create", "deliver", "acknowledge", "finish", "discard"},
                 agent : Agent \cup {User}, msg : 0..Len(mail'), rest : SUBSET (1..Len(mail'))]
    BY <1>1, <1>3, <1>4
  <2>2. agent' \in [Agent -> AgentRecord']
    <3>1. \A b \in Agent : agent'[b] \in AgentRecord'
      BY <1>1, <1>2, <1>4, <1>8 DEF AgentRecord
    <3> QED
      BY <1>1, <3>1
  <2>3. inbox' \in [Agent -> SUBSET (1..Len(mail'))]
    BY <1>1, <1>4, <1>8 DEF TypeOK
  <2>4. fence' \in BOOLEAN /\ attempt' \in {"none", "waiting", "done"}
    BY <1>5 DEF TypeOK
  <2> QED
    BY <1>1, <1>4, <2>1, <2>2, <2>3, <2>4 DEF TypeOK, Letter
<1>10. OpFits'
  <2>1. from = User \/ agent'[from].phase \in {"sending", "replying", "finishing"}
    BY DEF Routes
  <2> QED
    BY <1>3, <2>1 DEF OpFits, Holding
<1>11. Held'
  <2>1. (fence' <=> attempt' # "none") /\ ~Holding("discard")'
    BY <1>3, <1>5 DEF Held, Holding
  <2>2. attempt' = "done" => \A a \in Registered : agent'[a].interrupt = "settled"
    BY <1>5 DEF Held, Registered
  <2>3. ASSUME NEW a \in Agent
        PROVE  /\ agent'[a].phase = "absent" => agent'[a] = Absent
               /\ agent'[a].phase = "settling" => agent'[a].interrupt = "pending"
               /\ agent'[a].interrupt = "settled" => agent'[a].phase \in {"ready", "ending"} \cup Over
    <3>1. /\ agent[a].phase = "absent" => agent[a] = Absent
          /\ agent[a].phase = "settling" => agent[a].interrupt = "pending"
          /\ agent[a].interrupt = "settled" => agent[a].phase \in {"ready", "ending"} \cup Over
          /\ attempt = "done" => agent[a].phase # "settling"
      BY DEF Held, Registered
    <3> QED
      BY <1>2, <1>5, <3>1 DEF Over
  <2> QED
    BY <1>6, <2>1, <2>2, <2>3 DEF Held
<1>12. Addressed'
  <2>1. \A a \in Agent : Receptive(a) => Receptive(a)'
    BY <1>2 DEF Receptive
  <2>2. ASSUME captured, NEW a \in Agent
        PROVE  /\ agent'[a].held # {} <=> agent'[a].phase \in {"starting", "joining"}
               /\ \A m \in inbox'[a] \cup agent'[a].held : mail'[m].to = a
               /\ inbox'[a] # {} => Receptive(a)'
               /\ agent'[a].phase # "registered"
    <3>1. /\ agent[a].held # {} <=> agent[a].phase \in {"starting", "joining"}
          /\ \A m \in inbox[a] \cup agent[a].held : mail[m].to = a
          /\ inbox[a] # {} => Receptive(a)
          /\ agent[a].phase # "registered"
      BY <1>1, <2>2 DEF Addressed, Holding
    <3> QED
      BY <1>1, <1>2, <1>4, <1>8, <2>1, <3>1
  <2>3. ASSUME captured, n # 0
        PROVE  agent'[mail'[n].to].phase \notin {"absent", "registered", "finishing", "gone"}
    <3>1. mail'[n].to = to /\ to \in Agent /\ Receptive(to)
      BY <1>4, <1>7, <2>3
    <3> QED
      BY <2>1, <3>1 DEF Receptive
  <2>4. op'.name = "deliver" /\ op'.msg = n /\ op'.rest = {}
    BY <1>3
  <2> QED
    BY <1>1, <2>2, <2>3, <2>4 DEF Addressed, Holding, Receptive
<1>13. NothingLost'
  <2>1. ASSUME captured, NEW m \in 1..Len(mail)
        PROVE  Places(m)' = Places(m) /\ (Places(m) = IF mail'[m].receipt = "queued" THEN 1 ELSE 0)
    <3>1. Places(m) = IF mail'[m].receipt = "queued" THEN 1 ELSE 0
      BY <1>1, <1>4, <2>1, MailTyped DEF NothingLost, Acknowledging, Holding
    <3>2. /\ Waits(m)' <=> Waits(m)
          /\ Taken(m)' <=> Taken(m)
          /\ ~Routed(m) /\ ~Routed(m)' /\ ~Returning(m) /\ ~Returning(m)'
      BY <1>1, <1>2, <1>3, <1>4, <1>8 DEF Waits, Taken, Routed, Returning, Holding
    <3> QED
      BY <3>1, <3>2 DEF Places
  <2>2. ASSUME captured, n # 0
        PROVE  Places(n)' = 1 /\ mail'[n].receipt = "queued"
    <3>1. n \notin 1..Len(mail) /\ mail'[n].to = to /\ to \in Agent
      BY <1>4, <2>2
    <3>2. n \notin inbox'[to] /\ n \notin agent'[to].held
      BY <1>1, <1>2, <1>8, <3>1
    <3>3. ~Waits(n)' /\ ~Taken(n)' /\ Routed(n)' /\ ~Returning(n)'
      BY <1>3, <3>1, <3>2 DEF Waits, Taken, Routed, Returning, Holding
    <3> QED
      BY <1>4, <2>2, <3>3 DEF Places
  <2>3. DOMAIN mail' = 1..Len(mail') /\ 0 \notin 1..Len(mail')
    BY <1>4
  <2>4. ASSUME captured, NEW m \in 1..Len(mail')
        PROVE  Places(m)' = IF mail'[m].receipt = "queued" THEN 1 ELSE 0
    <3>1. CASE m \in 1..Len(mail)
      BY <2>1, <2>4, <3>1
    <3>2. CASE m \notin 1..Len(mail)
      <4>1. m = n /\ n # 0
        BY <1>4, <2>3, <3>2
      <4> QED
        BY <2>2, <2>4, <4>1
    <3> QED
      BY <3>1, <3>2
  <2> QED
    BY <1>1, <1>3, <2>3, <2>4 DEF NothingLost, Acknowledging, Holding
<1>14. FenceIsExact'
  BY <1>1, <1>5, <1>6 DEF FenceIsExact, Registered
<1>15. DiscardsAll' /\ DiscardsInput'
  <2>1. attempt' = "done" => kind = "failure" /\ attempt = "done"
    BY <1>5 DEF Routes
  <2>2. DOMAIN mail' = 1..Len(mail') /\ 0 \notin 1..Len(mail')
    BY <1>4
  <2> QED
    BY <1>1, <1>3, <1>4, <2>1, <2>2, MailTyped DEF DiscardsAll, DiscardsInput, Holding
<1>16. ClosesFirst' /\ CloseSettlesMail'
  BY <1>1, <1>6 DEF ClosesFirst, CloseSettlesMail, TypeOK
<1> QED
  BY <1>9, <1>10, <1>11, <1>12, <1>13, <1>14, <1>15, <1>16

\* The message of the user releases the agents, and is routed.
LEMMA SendKeeps ==
  ASSUME ConversationInv, NEW to \in Agent, Send(to)
  PROVE  ConversationInv'
<1>1. /\ op.name = "free" /\ op.rest = {} /\ ~closing /\ attempt # "waiting"
      /\ Routing(User, to, "instruction") /\ ReleaseInterruption
      /\ UNCHANGED <<inbox, closing, quiesce, watch, captured, cancelled>>
  BY DEF Send, Holding, Closed, closeVars, ConversationInv, OpFits
<1>2. CASE fence
  <2>1. ASSUME NEW b \in Agent
        PROVE  /\ agent'[b] \in AgentRecord /\ agent'[b].interrupt = "none"
               /\ agent'[b].phase = agent[b].phase /\ agent'[b].held = agent[b].held
               /\ agent[b].phase = "absent" => agent'[b] = agent[b]
    <3>1. agent[b] \in AgentRecord /\ agent'[b] = Released(agent[b])
      BY <1>1, <1>2 DEF ReleaseInterruption, ConversationInv, TypeOK
    <3>2. CASE b \in Registered
      <4>1. agent[b].interrupt = "settled"
        BY <1>1, <1>2, <3>2 DEF ConversationInv, Held, TypeOK
      <4> QED
        BY <3>1, <3>2, <4>1 DEF Released, AgentRecord, Registered
    <3>3. CASE b \notin Registered
      <4>1. agent[b].interrupt = "none"
        BY <3>3 DEF ConversationInv, Held, Registered, Absent
      <4>2. agent'[b] = agent[b]
        BY <3>1, <4>1 DEF Released, AgentRecord
      <4> QED
        BY <3>1, <4>1, <4>2
    <3> QED
      BY <3>2, <3>3
  <2>2. /\ attempt = "done" /\ attempt' = "none" /\ fence' = FALSE
        /\ agent' \in [Agent -> AgentRecord]
    BY <1>1, <1>2, <2>1 DEF ReleaseInterruption, ConversationInv, TypeOK, Held
  <2>3. Routes(User, to, "instruction")
    BY <1>1, <2>1, <2>2 DEF Routes, ConversationInv, TypeOK
  <2> QED
    BY <2>3, RoutesKeeps
<1>3. CASE ~fence
  <2>1. UNCHANGED <<fence, attempt, agent>> /\ attempt = "none"
    BY <1>1, <1>3 DEF ReleaseInterruption, controlVars, ConversationInv, Held
  <2>2. Routes(User, to, "instruction")
    BY <1>1, <2>1 DEF Routes, ConversationInv, TypeOK
  <2> QED
    BY <2>2, RoutesKeeps
<1> QED
  BY <1>2, <1>3

\* The application delivers a message.
LEMMA DeliverKeeps ==
  ASSUME ConversationInv, NEW to \in Agent, NEW kind \in HostKind, Deliver(to, kind)
  PROVE  ConversationInv'
<1>1. Routes(User, to, kind)
  BY DEF Deliver, Routes, Holding, Closed, controlVars, closeVars, ConversationInv, OpFits, Held,
     TypeOK
<1> QED
  BY <1>1, RoutesKeeps

\* A tool of an agent sends a message.
LEMMA ToolSendKeeps ==
  ASSUME ConversationInv, NEW a \in Agent, NEW to \in Agent, ToolSend(a, to)
  PROVE  ConversationInv'
<1> DEFINE r == [agent[a] EXCEPT !.phase = "sending"]
<1>1. /\ agent[a] \in AgentRecord /\ agent[a].phase = "working" /\ ~fence /\ ~closing
      /\ op.name = "free" /\ op.rest = {} /\ attempt = "none"
      /\ agent' = [agent EXCEPT ![a] = r]
      /\ Routing(a, to, "instruction")
      /\ UNCHANGED <<inbox, fence, attempt, closing, quiesce, watch, captured, cancelled>>
  BY DEF ToolSend, Sendable, Closed, Holding, controlVars, closeVars, ConversationInv, TypeOK,
     OpFits, Held
<1>2. /\ r \in AgentRecord /\ r.held = agent[a].held /\ r.interrupt = agent[a].interrupt
      /\ r.phase = "sending"
  BY <1>1 DEF AgentRecord, Phase
<1> HIDE DEF r
<1>3. agent' \in [Agent -> AgentRecord] /\ agent'[a] = r
      /\ \A b \in Agent : b # a => agent'[b] = agent[b]
  BY <1>1, <1>2 DEF ConversationInv, TypeOK
<1>4. cancelled' \in BOOLEAN
  BY <1>1 DEF ConversationInv, TypeOK
<1>5. Routes(a, to, "instruction")
  BY <1>1, <1>2, <1>3, <1>4 DEF Routes
<1> QED
  BY <1>5, RoutesKeeps

\* An agent sends its reply.
LEMMA ReplySendKeeps ==
  ASSUME ConversationInv, NEW a \in Agent, ReplySend(a)
  PROVE  ConversationInv'
<1>1. agent[a].parent \in Agent \cup {User}
  BY DEF ConversationInv, TypeOK, AgentRecord
<1>2. Routes(a, agent[a].parent, "reply")
  BY <1>1 DEF ReplySend, Sendable, Routes, Holding, Closed, controlVars, closeVars,
     ConversationInv, OpFits,
     Held, TypeOK
<1> QED
  BY <1>2, RoutesKeeps

\* A message that is published goes from the request to the mailbox of its recipient.
LEMMA DeliveredKeeps ==
  ASSUME ConversationInv, Delivered
  PROVE  ConversationInv'
<1> USE DEF ConversationInv
<1>0. PICK n, a : n = op.msg /\ a = op.agent
  OBVIOUS
<1>1. /\ op.name = "deliver" /\ op.rest = {} /\ op' = Free /\ n \in 0..Len(mail)
      /\ a \in Agent \cup {User}
      /\ UNCHANGED <<mail, fence, attempt, closing, quiesce, watch, captured>>
      /\ cancelled' \in BOOLEAN
  BY <1>0 DEF Delivered, Done, Reported, Holding, controlVars, closeVars, OpFits, TypeOK
<1>2. /\ \A b \in Agent : inbox'[b] = IF captured /\ n # 0 /\ mail[n].to = b
                                      THEN inbox[b] \cup {n} ELSE inbox[b]
      /\ inbox' \in [Agent -> SUBSET (1..Len(mail))]
  <2>1. \A b \in Agent : inbox'[b] = IF captured /\ n # 0 /\ mail[n].to = b
                                     THEN inbox[b] \cup {n} ELSE inbox[b]
    BY <1>0 DEF Delivered
  <2>2. \A b \in Agent : inbox'[b] \in SUBSET (1..Len(mail))
    <3>1. n # 0 => n \in 1..Len(mail)
      BY <1>1, MailTyped
    <3>2. \A b \in Agent : inbox[b] \in SUBSET (1..Len(mail))
      BY DEF TypeOK
    <3> QED
      BY <2>1, <3>1, <3>2
  <2>4. inbox' = [b \in Agent |-> inbox'[b]]
    BY DEF Delivered
  <2> QED
    BY <2>1, <2>2, <2>4
<1>3. /\ agent' \in [Agent -> AgentRecord]
      /\ \A b \in Agent :
           /\ agent'[b].held = agent[b].held /\ agent'[b].interrupt = agent[b].interrupt
           /\ agent[b].phase = "absent" => agent'[b] = agent[b]
           /\ \/ agent'[b] = agent[b]
              \/ /\ agent[b].phase \in {"sending", "replying", "finishing"}
                 /\ agent'[b].phase \in {"working", "ending", "settling", "ready", "gone"}
                 /\ agent[b].phase # "finishing" => agent'[b].phase # "gone"
                 /\ agent'[b].phase = "settling" => agent[b].interrupt # "none"
                 /\ agent[b].phase = "finishing" => agent'[b].phase = "gone"
  <2>1. CASE a = User
    BY <1>0, <2>1 DEF Delivered, TypeOK
  <2>2. CASE a # User
    <3>2. PICK dead \in BOOLEAN : dead = (cancelled \/ ~captured \/ agent[a].stop)
      OBVIOUS
    <3> DEFINE r == Answered(agent[a], dead)
    <3>1. /\ a \in Agent /\ agent[a] \in AgentRecord
          /\ agent[a].phase \in {"sending", "replying", "finishing"}
          /\ agent' = [agent EXCEPT ![a] = r]
      BY <1>0, <1>1, <2>2, <3>2 DEF Delivered, OpFits, Holding, TypeOK
    <3>3. /\ r \in AgentRecord /\ r.held = agent[a].held /\ r.interrupt = agent[a].interrupt
          /\ r.phase \in {"working", "ending", "settling", "ready", "gone"}
          /\ r.phase = "gone" <=> agent[a].phase = "finishing"
          /\ r.phase = "settling" => agent[a].interrupt # "none"
      <4>1. CASE agent[a].phase = "sending"
        BY <3>1, <4>1 DEF Answered, AgentRecord, Phase
      <4>2. CASE agent[a].phase = "finishing"
        BY <3>1, <4>2 DEF Answered, AgentRecord, Phase
      <4>3. CASE agent[a].phase = "replying"
        <5>1. PICK why \in {"ended", "refused"} : r = AfterExchange(agent[a], why, dead)
          BY <4>3 DEF Answered
        <5> HIDE DEF r
        <5>2. LET x == AfterExchange(agent[a], why, dead) IN
              /\ x \in AgentRecord /\ x.interrupt = agent[a].interrupt /\ x.held = agent[a].held
              /\ x.phase \in {"ending", "settling", "ready"}
              /\ x.phase = "settling" => agent[a].interrupt # "none"
          <6>1. agent[a] \in AgentRecord /\ why \in {"ended", "clean", "failed", "refused"}
            BY <3>1
          <6> QED
            BY <6>1, AfterFields
        <5> QED
          BY <4>3, <5>1, <5>2
      <4> QED
        BY <3>1, <4>1, <4>2, <4>3
    <3> HIDE DEF r
    <3>4. agent'[a] = r /\ \A b \in Agent : b # a => agent'[b] = agent[b]
      BY <3>1 DEF TypeOK
    <3>5. agent' \in [Agent -> AgentRecord]
      BY <3>1, <3>3 DEF TypeOK
    <3> QED
      BY <3>1, <3>3, <3>4, <3>5
  <2> QED
    BY <2>1, <2>2
<1>4. Registered' = Registered
  BY <1>3 DEF Registered
<1>5. TypeOK'
  <2>1. op' \in Op
    BY <1>1, MailTyped DEF Op, Free
  <2> QED
    BY <1>1, <1>2, <1>3, <2>1 DEF TypeOK, AgentRecord, Op
<1>6. OpFits'
  BY <1>1 DEF OpFits, Holding, Free
<1>7. Held'
  <2>1. ASSUME NEW b \in Agent
        PROVE  /\ agent'[b].phase = "absent" => agent'[b] = Absent
               /\ agent'[b].phase = "settling" => agent'[b].interrupt = "pending"
               /\ agent'[b].interrupt = "settled" => agent'[b].phase \in {"ready", "ending"} \cup Over
    <3>1. /\ agent[b].phase = "absent" => agent[b] = Absent
          /\ agent[b].phase = "settling" => agent[b].interrupt = "pending"
          /\ agent[b].interrupt = "settled" => agent[b].phase \in {"ready", "ending"} \cup Over
          /\ agent[b].interrupt \in {"none", "pending", "settled"}
      BY DEF Held, TypeOK, AgentRecord
    <3> QED
      BY <1>3, <3>1 DEF Over
  <2> QED
    BY <1>1, <1>3, <1>4, <2>1 DEF Held, Holding, Free, Registered
<1>8. captured /\ n # 0 => mail[n].to \in Agent /\ Receptive(mail[n].to)
  BY <1>0, <1>1, MailTyped DEF Addressed, Holding
<1>9. \A b \in Agent : Receptive(b) => Receptive(b)'
  BY <1>3 DEF Receptive
<1>10. Addressed'
  <2>1. ASSUME captured, NEW b \in Agent
        PROVE  /\ agent'[b].held # {} <=> agent'[b].phase \in {"starting", "joining"}
               /\ \A m \in inbox'[b] \cup agent'[b].held : mail[m].to = b
               /\ inbox'[b] # {} => Receptive(b)'
               /\ agent'[b].phase # "registered"
    <3>1. /\ agent[b].held # {} <=> agent[b].phase \in {"starting", "joining"}
          /\ \A m \in inbox[b] \cup agent[b].held : mail[m].to = b
          /\ inbox[b] # {} => Receptive(b)
          /\ agent[b].phase # "registered"
      BY <1>1, <2>1 DEF Addressed, Holding
    <3> QED
      BY <1>2, <1>3, <1>8, <1>9, <2>1, <3>1
  <2> QED
    BY <1>1, <2>1 DEF Addressed, Holding, Receptive, Free
<1>11. NothingLost'
  <2>1. ASSUME captured, NEW m \in 1..Len(mail)
        PROVE  Places(m)' = IF mail[m].receipt = "queued" THEN 1 ELSE 0
    <3>1. mail[m].to \in Agent /\ m # 0
      BY MailTyped
    <3>2. Places(m) = IF mail[m].receipt = "queued" THEN 1 ELSE 0
      BY <1>1, <2>1, MailTyped DEF NothingLost, Acknowledging, Holding
    <3>3. /\ Taken(m)' <=> Taken(m)
          /\ Routed(m) <=> m = n
          /\ ~Routed(m)' /\ ~Returning(m) /\ ~Returning(m)'
      BY <1>0, <1>1, <1>3, <3>1 DEF Taken, Routed, Returning, Holding, Free
    <3>4. CASE m = n
      <4>1. Waits(m)' /\ ~Waits(m)
        BY <1>1, <1>2, <2>1, <3>1, <3>2, <3>3, <3>4 DEF Waits, Places
      <4> QED
        BY <3>2, <3>3, <3>4, <4>1 DEF Places
    <3>5. CASE m # n
      <4>1. Waits(m)' <=> Waits(m)
        BY <1>1, <1>2, <3>1, <3>5 DEF Waits
      <4> QED
        BY <3>2, <3>3, <3>5, <4>1 DEF Places
    <3> QED
      BY <3>4, <3>5
  <2> QED
    BY <1>1, <2>1, MailTyped DEF NothingLost, Acknowledging, Holding, Free
<1>12. FenceIsExact' /\ DiscardsAll' /\ DiscardsInput' /\ ClosesFirst' /\ CloseSettlesMail'
  BY <1>1, <1>3, <1>4
  DEF FenceIsExact, DiscardsAll, DiscardsInput, ClosesFirst, CloseSettlesMail, Holding, Free,
      Registered
<1> QED
  BY <1>5, <1>6, <1>7, <1>10, <1>11, <1>12

\* An agent that has returned its mail is gone, or reports its failure first.
LEMMA ExitedKeeps ==
  ASSUME ConversationInv, Exited
  PROVE  ConversationInv'
<1> USE DEF ConversationInv
<1>0. PICK a : a = op.agent
  OBVIOUS
<1>1. /\ op.name = "finish" /\ op.rest = {} /\ a \in Agent /\ agent[a] \in AgentRecord
      /\ agent[a].phase = "finishing" /\ a \in Registered
      /\ UNCHANGED <<inbox, fence, attempt, closing, quiesce, watch, captured>>
      /\ cancelled' \in BOOLEAN
  BY <1>0 DEF Exited, Holding, OpFits, Reported, controlVars, closeVars, TypeOK, Registered
<1>2. CASE TellsParent(a) /\ ~Closed /\ Active(agent[a].parent)
  <2>1. /\ ~closing /\ UNCHANGED agent /\ Routing(a, agent[a].parent, "failure")
        /\ agent[a].parent \in Agent \cup {User}
    BY <1>0, <1>1, <1>2 DEF Exited, Closed, AgentRecord
  <2>2. agent' \in [Agent -> AgentRecord]
    BY <2>1 DEF TypeOK
  <2>3. Routes(a, agent[a].parent, "failure")
    BY <1>1, <2>1, <2>2 DEF Routes
  <2> QED
    BY <2>3, RoutesKeeps
<1>3. CASE ~(TellsParent(a) /\ ~Closed /\ Active(agent[a].parent))
  <2> DEFINE r == [agent[a] EXCEPT !.phase = "gone"]
  <2>1. op' = Free /\ agent' = [agent EXCEPT ![a] = r] /\ UNCHANGED mail
    BY <1>0, <1>3 DEF Exited, Done
  <2>2. r \in AgentRecord /\ r.held = agent[a].held /\ r.interrupt = agent[a].interrupt
        /\ r.phase = "gone"
    BY <1>1 DEF AgentRecord, Phase
  <2> HIDE DEF r
  <2>3. /\ agent'[a] = r /\ \A b \in Agent : b # a => agent'[b] = agent[b]
        /\ agent' \in [Agent -> AgentRecord]
    BY <1>1, <2>1, <2>2 DEF TypeOK
  <2>4. Registered' = Registered
    BY <1>1, <2>2, <2>3 DEF Registered
  <2>5. TypeOK'
    <3>1. op' \in Op
      BY <2>1, MailTyped DEF Op, Free
    <3> QED
      BY <1>1, <2>1, <2>3, <3>1 DEF TypeOK, AgentRecord, Op
  <2>6. OpFits'
    BY <2>1 DEF OpFits, Holding, Free
  <2>7. Held'
    BY <1>1, <2>1, <2>2, <2>3, <2>4 DEF Held, Holding, Free, Over
  <2>8. Addressed'
    BY <1>1, <2>1, <2>2, <2>3 DEF Addressed, Receptive, Holding, Free
  <2>9. NothingLost'
    <3>1. ASSUME NEW m \in DOMAIN mail
          PROVE  Places(m)' = Places(m)
      BY <1>1, <2>1, <2>2, <2>3, MailTyped
      DEF Places, Waits, Taken, Routed, Returning, Holding, Free
    <3> QED
      BY <1>1, <2>1, <3>1 DEF NothingLost, Acknowledging, Holding, Free
  <2>10. FenceIsExact' /\ DiscardsAll' /\ DiscardsInput' /\ ClosesFirst' /\ CloseSettlesMail'
    BY <1>1, <2>1, <2>2, <2>3, <2>4
    DEF FenceIsExact, DiscardsAll, DiscardsInput, ClosesFirst, CloseSettlesMail, Holding, Free
  <2> QED
    BY <2>5, <2>6, <2>7, <2>8, <2>9, <2>10
<1> QED
  BY <1>2, <1>3

----------------------------------------------------------------------------
(* What waits is undecided, and is there once. *)

\* A step that leaves the mail alone, and asks for no return, keeps it.
LEMMA QuietUndecided ==
  ASSUME Undecided, UNCHANGED <<inbox, mail>>,
         op' = op \/ (op'.rest = {} /\ op'.name # "deliver")
  PROVE  Undecided'
BY DEF Undecided, Holding

\* A message that is routed is new.
LEMMA RoutingUndecided ==
  ASSUME ConversationInv, Undecided, NEW from, NEW to \in Agent \cup {User},
         NEW kind \in HostKind \cup {"instruction", "reply", "failure"},
         Routing(from, to, kind), op.rest = {}, inbox' = inbox
  PROVE  Undecided'
<1> USE DEF ConversationInv
<1>1. \A b \in Agent : inbox[b] \subseteq 1..Len(mail)
  BY DEF TypeOK
<1>2. CASE to = User
  <2>1. mail' = mail /\ op'.name = "deliver" /\ op'.msg = 0 /\ op'.rest = {}
    BY <1>2 DEF Routing, Begun
  <2> QED
    BY <2>1 DEF Undecided, Holding
<1>3. CASE to # User
  <2>1. to \in Agent /\ Queued(to, kind) /\ op'.msg = Len(mail) + 1 /\ op'.rest = {}
    BY <1>3 DEF Routing, Begun
  <2>2. /\ Len(mail) \in Nat
        /\ mail'[Len(mail) + 1] = [to |-> to, kind |-> kind, receipt |-> "queued"]
        /\ \A m \in 1..Len(mail) : mail'[m] = mail[m]
    BY <2>1, MailGrows
  <2>3. Len(mail) + 1 \notin 1..Len(mail)
    BY <2>2
  <2> QED
    BY <1>1, <2>1, <2>2, <2>3 DEF Undecided, Holding
<1> QED
  BY <1>2, <1>3

\* An agent acknowledges only what it has taken, which is in no mailbox.
LEMMA LoopUndecided ==
  ASSUME ConversationInv, Undecided, TakenOnce, NEW a \in Agent, Loop(a) \/ Model(a)
  PROVE  Undecided'
<1> USE DEF ConversationInv
<1>1. CASE BeginExchange(a) \/ Woken(a) \/ ReplyRefused(a) \/ Settle(a) \/ ReportFails(a) \/ Terminate(a)
           \/ FinishInterrupt(a) \/ Return(a) \/ Reply(a)
  BY <1>1, QuietUndecided
  DEF BeginExchange, Woken, ReplyRefused, Settle, ReportFails, Terminate, FinishInterrupt, Return,
     Reply
<1>2. CASE Receive(a) \/ Take(a)
  <2>1. /\ mail' = mail /\ op' = op
        /\ \A b \in Agent : inbox'[b] \subseteq inbox[b]
    BY <1>2 DEF Receive, Take, TypeOK
  <2> QED
    BY <2>1 DEF Undecided, Holding
<1>3. CASE Finish(a)
  <2>1. /\ op.name = "free" /\ op.rest = {} /\ mail' = mail /\ op'.rest = inbox[a]
        /\ op'.name = "finish" /\ inbox'[a] = {} /\ \A b \in Agent : b # a => inbox'[b] = inbox[b]
    BY <1>3 DEF Finish, Begun, Holding, OpFits, TypeOK
  <2> QED
    BY <2>1 DEF Undecided, Holding
<1>4. CASE Consume(a)
  <2> DEFINE n == Oldest(agent[a].held)
  <2>1. /\ agent[a].held # {} /\ agent[a].held \in SUBSET Nat /\ agent[a].held \subseteq 1..Len(mail)
        /\ op.name = "free" /\ op.rest = {}
    BY <1>4 DEF Consume, TakenOnce, TypeOK, AgentRecord, Holding, OpFits
  <2>2. n \in agent[a].held
    BY <2>1, OldestIn
  <2>3. Settled(n, "consumed") /\ op'.name = "acknowledge" /\ op'.rest = {} /\ inbox' = inbox
    BY <1>4 DEF Consume, Begun
  <2> HIDE DEF n
  <2>4. n \in 1..Len(mail) /\ mail[n].to = a /\ n \notin inbox[a]
    BY <1>4, <2>1, <2>2 DEF TakenOnce, Consume
  <2>6. \A b \in Agent : n \notin inbox[b] /\ inbox[b] \subseteq 1..Len(mail)
    BY <2>4 DEF Undecided, TypeOK
  <2>7. \A m \in 1..Len(mail) : /\ mail'[m].to = mail[m].to /\ mail'[m].kind = mail[m].kind
                                /\ m # n => mail'[m] = mail[m]
    BY <2>3, <2>4, MailSettles
  <2> QED
    BY <2>3, <2>6, <2>7 DEF Undecided, Holding
<1>5. CASE ReplySend(a)
  <2>1. /\ op.name = "free" /\ op.rest = {} /\ inbox' = inbox
        /\ Routing(a, agent[a].parent, "reply") /\ agent[a].parent \in Agent \cup {User}
    BY <1>5 DEF ReplySend, Holding, OpFits, TypeOK, AgentRecord
  <2> QED
    BY <2>1, RoutingUndecided
<1>6. ASSUME NEW to \in Agent, ToolSend(a, to)
      PROVE  Undecided'
  <2>1. op.name = "free" /\ op.rest = {} /\ inbox' = inbox /\ Routing(a, to, "instruction")
    BY <1>6 DEF ToolSend, Holding, OpFits
  <2> QED
    BY <2>1, RoutingUndecided
<1> QED
  BY <1>1, <1>2, <1>3, <1>4, <1>5, <1>6 DEF Loop, Model

\* Every step keeps what is undecided so.
LEMMA StepUndecided ==
  ASSUME ConversationInv, Undecided, TakenOnce, [Next]_vars
  PROVE  Undecided'
<1> USE DEF ConversationInv
<1>1. CASE \E a \in Agent : Loop(a) \/ Model(a)
  BY <1>1, LoopUndecided
<1>2. CASE Consumed \/ Created \/ Discarded
  BY <1>2, QuietUndecided DEF Consumed, Created, Discarded, Done, Free
<1>3. CASE Delivered
  <2>1. PICK n : n = op.msg
    OBVIOUS
  <2>2. /\ mail' = mail /\ op'.rest = {} /\ op'.name = "free" /\ op.name = "deliver"
        /\ \A b \in Agent : inbox'[b] = IF captured /\ n # 0 /\ mail[n].to = b
                                       THEN inbox[b] \cup {n} ELSE inbox[b]
    BY <1>3, <2>1 DEF Delivered, Done, Free, Holding
  <2>3. n # 0 => mail[n].receipt = "queued"
    BY <2>1, <2>2 DEF Undecided, Holding
  <2>4. ASSUME NEW b \in Agent, NEW m \in inbox'[b]
        PROVE  mail[m].to = b /\ mail[m].receipt = "queued"
    <3>1. CASE m \in inbox[b]
      BY <3>1 DEF Undecided
    <3>2. CASE m \notin inbox[b]
      <4>1. m = n /\ n # 0 /\ mail[n].to = b
        BY <2>2, <2>4, <3>2
      <4> QED
        BY <2>3, <4>1
    <3> QED
      BY <3>1, <3>2
  <2> QED
    BY <2>2, <2>4 DEF Undecided, Holding
<1>4. CASE Undeliver
  <2>1. PICK n \in op.rest : Settled(n, "undelivered") /\ op' = [op EXCEPT !.rest = @ \ {n}]
    BY <1>4 DEF Undeliver
  <2>2. n \in 1..Len(mail) /\ op.name \in {"finish", "discard"} /\ inbox' = inbox
        /\ op'.rest = op.rest \ {n} /\ op'.name = op.name
    BY <1>4, <2>1 DEF Undeliver, TypeOK
  <2>3. \A m \in 1..Len(mail) : /\ mail'[m].to = mail[m].to /\ mail'[m].kind = mail[m].kind
                                /\ m # n => mail'[m] = mail[m]
    BY <2>1, <2>2, MailSettles
  <2>4. op.rest \subseteq 1..Len(mail) /\ \A b \in Agent : inbox[b] \subseteq 1..Len(mail)
    BY DEF TypeOK
  <2> QED
    BY <2>1, <2>2, <2>3, <2>4 DEF Undecided, Holding
<1>5. CASE Exited
  <2>1. inbox' = inbox /\ op.rest = {} /\ op.agent \in Agent
    BY <1>5 DEF Exited, OpFits, Holding
  <2>2. agent[op.agent].parent \in Agent \cup {User}
    BY <2>1 DEF TypeOK, AgentRecord
  <2>3. CASE Routing(op.agent, agent[op.agent].parent, "failure")
    BY <2>1, <2>2, <2>3, RoutingUndecided
  <2>4. CASE Done /\ UNCHANGED mail
    BY <2>1, <2>4, QuietUndecided DEF Done, Free
  <2> QED
    BY <1>5, <2>3, <2>4 DEF Exited
<1>6. CASE Discard
  <2>1. /\ op.name = "free" /\ op.rest = {} /\ mail' = mail /\ op'.name = "discard"
        /\ op'.rest = UNION {inbox[a] : a \in Agent} /\ \A a \in Agent : inbox'[a] = {}
    BY <1>6 DEF Discard, Begun, Holding, OpFits
  <2> QED
    BY <2>1 DEF Undecided, Holding
<1>7. ASSUME NEW a \in Agent, Send(a) \/ \E kind \in HostKind : Deliver(a, kind)
      PROVE  Undecided'
  <2>1. op.name = "free" /\ op.rest = {} /\ inbox' = inbox
    BY <1>7 DEF Send, Deliver, Holding, OpFits
  <2>2. PICK kind \in HostKind \cup {"instruction", "reply", "failure"} : Routing(User, a, kind)
    BY <1>7 DEF Send, Deliver
  <2> QED
    BY <2>1, <2>2, RoutingUndecided
<1>8. ASSUME NEW a \in Agent,
             StopAgent(a) \/ WatchAsks(a) \/ \E parent \in Agent \cup {User} : CreateAgent(a, parent)
      PROVE  Undecided'
  BY <1>8, QuietUndecided DEF StopAgent, WatchAsks, CreateAgent, Begun
<1>9. CASE Interrupt \/ Close \/ Cancel \/ WatchWakes \/ WatchDone \/ CaptureFails \/ UNCHANGED vars
  BY <1>9, QuietUndecided DEF Interrupt, Close, Cancel, WatchWakes, WatchDone, CaptureFails, vars
<1> QED
  BY <1>1, <1>2, <1>3, <1>4, <1>5, <1>6, <1>7, <1>8, <1>9 DEF Next, Going, Requests, Watching

\* A step that leaves the mail alone, takes nothing, and returns only what waits, keeps what is
\* taken as it is.
LEMMA QuietTaken ==
  ASSUME ConversationInv, Undecided, TakenOnce, mail' = mail,
         \A b \in Agent : inbox'[b] \subseteq inbox[b],
         \/ op' = op
         \/ /\ op.name # "acknowledge" /\ op'.name # "deliver"
            /\ \A m \in op'.rest : m \in op.rest \/ \E c \in Agent : m \in inbox[c],
         \A b \in Agent : agent'[b].phase \in {"starting", "joining"} =>
           agent[b].phase \in {"starting", "joining"} /\ agent'[b].held = agent[b].held
  PROVE  TakenOnce'
<1>1. ASSUME NEW b \in Agent, agent'[b].phase \in {"starting", "joining"}, NEW m \in agent[b].held
      PROVE  /\ mail'[m].to = b /\ (mail'[m].receipt = "queued" \/ Acknowledging(m)')
             /\ m \notin inbox'[b] /\ m \notin op'.rest /\ ~Routed(m)'
  <2>1. /\ mail[m].to = b /\ (mail[m].receipt = "queued" \/ Acknowledging(m))
        /\ m \notin inbox[b] /\ m \notin op.rest /\ ~Routed(m)
    BY <1>1 DEF TakenOnce
  <2>2. \A c \in Agent : m \notin inbox[c]
    BY <2>1 DEF Undecided
  <2> QED
    BY <2>1, <2>2 DEF Acknowledging, Routed, Holding
<1> QED
  BY <1>1 DEF TakenOnce

\* A message that is routed is in nobody's hands.
LEMMA RoutingTaken ==
  ASSUME ConversationInv, TakenOnce, NEW from, NEW to \in Agent \cup {User},
         NEW kind \in HostKind \cup {"instruction", "reply", "failure"},
         Routing(from, to, kind), op.name # "acknowledge", inbox' = inbox,
         \A b \in Agent : agent'[b].phase \in {"starting", "joining"} =>
           agent[b].phase \in {"starting", "joining"} /\ agent'[b].held = agent[b].held
  PROVE  TakenOnce'
<1> USE DEF ConversationInv
<1>1. op'.rest = {} /\ op'.name = "deliver" /\ (op'.msg = 0 \/ op'.msg = Len(mail) + 1)
  BY DEF Routing, Begun
<1>2. Len(mail) \in Nat /\ \A m \in 1..Len(mail) : mail'[m] = mail[m]
  <2>1. CASE to = User
    BY <2>1, MailTyped DEF Routing
  <2>2. CASE to # User
    BY <2>2, MailGrows DEF Routing
  <2> QED
    BY <2>1, <2>2
<1>3. ASSUME NEW b \in Agent, agent'[b].phase \in {"starting", "joining"}, NEW m \in agent[b].held
      PROVE  /\ mail'[m].to = b /\ mail'[m].receipt = "queued"
             /\ m \notin inbox'[b] /\ m \notin op'.rest /\ ~Routed(m)'
  <2>1. m \in 1..Len(mail)
    BY DEF TypeOK, AgentRecord
  <2>2. /\ mail[m].to = b /\ (mail[m].receipt = "queued" \/ Acknowledging(m))
        /\ m \notin inbox[b] /\ m \notin op.rest /\ ~Routed(m)
    BY <1>3 DEF TakenOnce
  <2>3. m # 0 /\ m # Len(mail) + 1
    BY <1>2, <2>1
  <2> QED
    BY <1>1, <1>2, <2>1, <2>2, <2>3 DEF Acknowledging, Routed, Holding
<1> QED
  BY <1>3 DEF TakenOnce

\* What a loop takes was undecided, and what it acknowledges is its own.
LEMMA LoopTaken ==
  ASSUME ConversationInv, Undecided, TakenOnce, NEW a \in Agent, Loop(a) \/ Model(a)
  PROVE  TakenOnce'
<1> USE DEF ConversationInv
<1>0. agent[a] \in AgentRecord /\ DOMAIN agent = Agent /\ Dead(a) \in BOOLEAN
  BY DEF TypeOK, Dead, AgentRecord
<1>1. ASSUME UNCHANGED <<inbox, mail, op>>, \A b \in Agent : b # a => agent'[b] = agent[b],
             agent'[a].phase \notin {"starting", "joining"}
      PROVE  TakenOnce'
  <2>1. \A b \in Agent : agent'[b].phase \in {"starting", "joining"} =>
          agent[b].phase \in {"starting", "joining"} /\ agent'[b].held = agent[b].held
    BY <1>1
  <2> QED
    BY <1>1, <2>1, QuietTaken
<1>2. CASE Woken(a) \/ ReplyRefused(a) \/ Return(a)
  <2>1. PICK why \in {"ended", "clean", "failed", "refused"} :
          agent' = [agent EXCEPT ![a] = AfterExchange(agent[a], why, Dead(a))]
    BY <1>2 DEF Woken, ReplyRefused, Return
  <2>2. AfterExchange(agent[a], why, Dead(a)).phase \in {"ending", "settling", "ready"}
    BY <1>0, AfterFields
  <2>3. agent'[a].phase \notin {"starting", "joining"} /\ \A b \in Agent : b # a => agent'[b] = agent[b]
    BY <1>0, <2>1, <2>2
  <2> QED
    BY <1>1, <1>2, <2>3 DEF Woken, ReplyRefused, Return
<1>3. CASE BeginExchange(a)
  <2>1. agent'[a].phase \notin {"starting", "joining"} /\ \A b \in Agent : b # a => agent'[b] = agent[b]
    BY <1>0, <1>3 DEF BeginExchange, AgentRecord
  <2> QED
    BY <1>1, <1>3, <2>1 DEF BeginExchange
<1>4. CASE Settle(a) \/ ReportFails(a) \/ Terminate(a) \/ FinishInterrupt(a) \/ Reply(a)
  <2>1. agent'[a].phase \notin {"starting", "joining"} /\ \A b \in Agent : b # a => agent'[b] = agent[b]
    BY <1>0, <1>4 DEF Settle, ReportFails, Terminate, FinishInterrupt, Reply, AgentRecord
  <2> QED
    BY <1>1, <1>4, <2>1 DEF Settle, ReportFails, Terminate, FinishInterrupt, Reply
<1>5. CASE Receive(a) \/ Take(a)
  <2>1. PICK ms \in SUBSET inbox[a] :
          /\ ms # {} /\ UNCHANGED <<mail, op>> /\ inbox'[a] = inbox[a] \ ms
          /\ agent'[a].held = ms /\ \A b \in Agent : b # a => agent'[b] = agent[b] /\ inbox'[b] = inbox[b]
    <3>1. CASE Receive(a)
      <4>1. Oldest(inbox[a]) \in inbox[a]
        BY <3>1, OldestIn DEF Receive, TypeOK
      <4>2. /\ agent' = [agent EXCEPT ![a] = [agent[a] EXCEPT !.phase = "starting", !.held = {Oldest(inbox[a])}]]
            /\ inbox' = [inbox EXCEPT ![a] = inbox[a] \ {Oldest(inbox[a])}] /\ UNCHANGED <<mail, op>>
        BY <3>1 DEF Receive
      <4>3. agent'[a].held = {Oldest(inbox[a])} /\ \A b \in Agent : b # a => agent'[b] = agent[b]
        BY <1>0, <4>2 DEF AgentRecord
      <4>4. inbox'[a] = inbox[a] \ {Oldest(inbox[a])} /\ \A b \in Agent : b # a => inbox'[b] = inbox[b]
        BY <4>2 DEF TypeOK
      <4> QED
        BY <4>1, <4>2, <4>3, <4>4
    <3>2. CASE Take(a)
      <4>1. /\ agent' = [agent EXCEPT ![a] = [agent[a] EXCEPT !.phase = "joining", !.held = Joining(a)]]
            /\ inbox' = [inbox EXCEPT ![a] = inbox[a] \ Joining(a)] /\ UNCHANGED <<mail, op>>
            /\ Joining(a) # {} /\ Joining(a) \subseteq inbox[a]
        BY <3>2 DEF Take, Joining
      <4>2. agent'[a].held = Joining(a) /\ \A b \in Agent : b # a => agent'[b] = agent[b]
        BY <1>0, <4>1 DEF AgentRecord
      <4>3. inbox'[a] = inbox[a] \ Joining(a) /\ \A b \in Agent : b # a => inbox'[b] = inbox[b]
        BY <4>1 DEF TypeOK
      <4> QED
        BY <4>1, <4>2, <4>3
    <3> QED
      BY <1>5, <3>1, <3>2
  <2>2. ASSUME NEW m \in ms
        PROVE  /\ mail'[m].to = a /\ mail'[m].receipt = "queued"
               /\ m \notin inbox'[a] /\ m \notin op'.rest /\ ~Routed(m)'
    <3>1. m \in inbox[a] /\ m # 0
      BY <2>1 DEF TypeOK
    <3> QED
      BY <2>1, <2>2, <3>1 DEF Undecided, Routed, Holding
  <2>3. ASSUME NEW b \in Agent, b # a, agent[b].phase \in {"starting", "joining"}
        PROVE  /\ agent[b].held # {}
               /\ \A m \in agent[b].held :
                    /\ mail'[m].to = b /\ (mail'[m].receipt = "queued" \/ Acknowledging(m)')
                    /\ m \notin inbox'[b] /\ m \notin op'.rest /\ ~Routed(m)'
    BY <2>1, <2>3 DEF TakenOnce, Acknowledging, Routed, Holding
  <2> QED
    BY <2>1, <2>2, <2>3 DEF TakenOnce
<1>6. CASE Consume(a)
  <2>1. PICK n : n = Oldest(agent[a].held)
    OBVIOUS
  <2>2. /\ agent[a].held # {} /\ agent[a].held \in SUBSET Nat /\ agent[a].phase \in {"starting", "joining"}
        /\ \A m \in agent[a].held : mail[m].to = a
    BY <1>6 DEF Consume, TakenOnce, TypeOK, AgentRecord
  <2>3. n \in agent[a].held /\ n \in 1..Len(mail) /\ mail[n].to = a
    BY <2>1, <2>2, OldestIn DEF TypeOK, AgentRecord
  <2>4. /\ Settled(n, "consumed") /\ op.name = "free" /\ op' = [name |-> "acknowledge", agent |-> a, msg |-> n, rest |-> {}]
        /\ UNCHANGED <<agent, inbox>>
    BY <1>6, <2>1 DEF Consume, Begun, Holding
  <2>5. \A m \in 1..Len(mail) : /\ mail'[m].to = mail[m].to
                                /\ m # n => mail'[m] = mail[m]
    BY <2>3, <2>4, MailSettles
  <2>6. ASSUME NEW b \in Agent, agent[b].phase \in {"starting", "joining"}, NEW m \in agent[b].held
        PROVE  /\ mail'[m].to = b /\ (mail'[m].receipt = "queued" \/ Acknowledging(m)')
               /\ m \notin inbox'[b] /\ m \notin op'.rest /\ ~Routed(m)'
    <3>1. m \in 1..Len(mail)
      BY DEF TypeOK, AgentRecord
    <3>2. mail[m].to = b /\ (mail[m].receipt = "queued" \/ Acknowledging(m)) /\ m \notin inbox[b]
      BY <2>6 DEF TakenOnce
    <3> QED
      BY <2>4, <2>5, <3>1, <3>2 DEF Acknowledging, Routed, Holding
  <2> QED
    BY <2>4, <2>6 DEF TakenOnce
<1>7. CASE ReplySend(a)
  <2>1. op.name = "free" /\ UNCHANGED <<agent, inbox>> /\ Routing(a, agent[a].parent, "reply")
        /\ agent[a].parent \in Agent \cup {User}
    BY <1>0, <1>7 DEF ReplySend, Holding, AgentRecord
  <2> QED
    BY <2>1, RoutingTaken
<1>8. ASSUME NEW to \in Agent, ToolSend(a, to)
      PROVE  TakenOnce'
  <2>1. op.name = "free" /\ inbox' = inbox /\ Routing(a, to, "instruction")
    BY <1>8 DEF ToolSend, Holding
  <2>2. \A b \in Agent : agent'[b].phase \in {"starting", "joining"} =>
          agent[b].phase \in {"starting", "joining"} /\ agent'[b].held = agent[b].held
    BY <1>0, <1>8 DEF ToolSend, AgentRecord
  <2> QED
    BY <2>1, <2>2, RoutingTaken
<1>9. CASE Finish(a)
  <2>1. /\ op.name = "free" /\ mail' = mail /\ op'.rest = inbox[a] /\ op'.name = "finish"
        /\ \A b \in Agent : inbox'[b] \subseteq inbox[b]
    BY <1>9 DEF Finish, Begun, Holding, TypeOK
  <2>2. \A b \in Agent : agent'[b].phase \in {"starting", "joining"} =>
          agent[b].phase \in {"starting", "joining"} /\ agent'[b].held = agent[b].held
    BY <1>0, <1>9 DEF Finish, AgentRecord
  <2> QED
    BY <2>1, <2>2, QuietTaken
<1> QED
  BY <1>2, <1>3, <1>4, <1>5, <1>6, <1>7, <1>8, <1>9 DEF Loop, Model

\* Every step keeps what is taken so.
LEMMA StepTaken ==
  ASSUME ConversationInv, Undecided, TakenOnce, [Next]_vars
  PROVE  TakenOnce'
<1> USE DEF ConversationInv
<1> DEFINE Same == \A b \in Agent : agent'[b].phase \in {"starting", "joining"} =>
                     agent[b].phase \in {"starting", "joining"} /\ agent'[b].held = agent[b].held
<1>0. DOMAIN agent = Agent /\ \A b \in Agent : agent[b] \in AgentRecord
  BY DEF TypeOK
<1>1. CASE \E a \in Agent : Loop(a) \/ Model(a)
  BY <1>1, LoopTaken
<1>2. CASE Consumed
  <2>1. PICK a \in Agent : a = op.agent
    BY <1>2 DEF Consumed, OpFits
  <2>2. PICK n : n = op.msg
    OBVIOUS
  <2>3. /\ op.name = "acknowledge" /\ agent[a].phase \in {"starting", "joining"} /\ n \in agent[a].held
        /\ op' = Free /\ UNCHANGED <<mail, inbox>> /\ \A b \in Agent : b # a => agent'[b] = agent[b]
    BY <1>0, <1>2, <2>1, <2>2 DEF Consumed, OpFits, Holding, Done
  <2>4. mail[n].to = a
    BY <2>3 DEF TakenOnce
  <2>5. agent'[a].phase \in {"starting", "joining"} =>
          agent'[a].held = agent[a].held \ {n} /\ agent'[a].held # {}
    <3> DEFINE r == [agent[a] EXCEPT !.held = agent[a].held \ {n}]
    <3>1. r \in AgentRecord /\ r.held = agent[a].held \ {n} /\ Dead(a) \in BOOLEAN
      BY <1>0 DEF AgentRecord, TypeOK, Dead
    <3>2. AfterExchange(r, "ended", Dead(a)).phase \in {"ending", "settling", "ready"}
      BY <3>1, AfterFields
    <3>3. agent'[a] = IF ~captured THEN [r EXCEPT !.phase = "ending", !.exit = "uncaptured"]
                      ELSE IF agent[a].held \ {n} # {} THEN r
                      ELSE IF r.phase = "starting" /\ mail[n].kind = "observation"
                      THEN AfterExchange(r, "ended", Dead(a))
                      ELSE [r EXCEPT !.phase = "working"]
      BY <1>0, <1>2, <2>1, <2>2 DEF Consumed
    <3> HIDE DEF r
    <3>4. CASE ~captured
      BY <3>1, <3>3, <3>4 DEF AgentRecord
    <3>5. CASE captured /\ agent[a].held \ {n} # {}
      BY <3>1, <3>3, <3>5
    <3>6. CASE captured /\ agent[a].held \ {n} = {} /\ ~(r.phase = "starting" /\ mail[n].kind = "observation")
      BY <3>1, <3>3, <3>6 DEF AgentRecord
    <3>7. CASE captured /\ agent[a].held \ {n} = {} /\ r.phase = "starting" /\ mail[n].kind = "observation"
      BY <3>2, <3>3, <3>7
    <3> QED
      BY <3>4, <3>5, <3>6, <3>7
  <2>6. ASSUME NEW b \in Agent, agent[b].phase \in {"starting", "joining"}, NEW m \in agent[b].held,
               b = a => m # n
        PROVE  /\ mail'[m].to = b /\ mail'[m].receipt = "queued"
               /\ m \notin inbox'[b] /\ m \notin op'.rest /\ ~Routed(m)'
    <3>1. /\ mail[m].to = b /\ (mail[m].receipt = "queued" \/ Acknowledging(m))
          /\ m \notin inbox[b]
      BY <2>6 DEF TakenOnce
    <3>2. m # n
      BY <2>4, <2>6, <3>1
    <3> QED
      BY <2>2, <2>3, <3>1, <3>2 DEF Acknowledging, Routed, Holding, Free
  <2>7. \A b \in Agent : b # a /\ agent[b].phase \in {"starting", "joining"} => agent[b].held # {}
    BY DEF TakenOnce
  <2> QED
    BY <2>3, <2>5, <2>6, <2>7 DEF TakenOnce
<1>3. CASE Created
  <2>1. /\ op.name = "create" /\ op' = Free /\ UNCHANGED <<mail, inbox>>
        /\ op.agent \in Agent /\ agent[op.agent].phase = "registered"
    BY <1>3 DEF Created, OpFits, Holding, Done
  <2>2. Same
    BY <1>0, <1>3, <2>1 DEF Created, AgentRecord
  <2> QED
    BY <2>1, <2>2, QuietTaken DEF Free
<1>4. CASE Discarded
  <2>1. op.name = "discard" /\ op' = Free /\ UNCHANGED <<mail, inbox, agent>>
    BY <1>4 DEF Discarded, Holding, Done
  <2> QED
    BY <2>1, QuietTaken DEF Free
<1>5. CASE Delivered
  <2>1. PICK n : n = op.msg
    OBVIOUS
  <2>2. /\ mail' = mail /\ op' = Free /\ op.name = "deliver"
        /\ \A b \in Agent : inbox'[b] \subseteq inbox[b] \cup {n}
    BY <1>5, <2>1 DEF Delivered, Done, Holding
  <2>3. Same
    <3>1. CASE op.agent = User
      BY <1>5, <3>1 DEF Delivered
    <3>2. CASE op.agent # User
      <4>1. op.agent \in Agent /\ agent[op.agent].phase \in {"sending", "replying", "finishing"}
        BY <1>5, <3>2 DEF Delivered, OpFits, Holding, TypeOK
      <4>2. PICK dead \in BOOLEAN :
              agent' = [agent EXCEPT ![op.agent] = Answered(agent[op.agent], dead)]
        BY <1>0, <1>5, <3>2, <4>1 DEF Delivered, TypeOK, AgentRecord
      <4>3. \A b \in Agent : b # op.agent => agent'[b] = agent[b]
        BY <1>0, <4>1, <4>2
      <4>4. AfterExchange(agent[op.agent], IF captured THEN "ended" ELSE "refused", dead).phase
              \in {"ending", "settling", "ready"}
        BY <1>0, <4>1, <4>2, AfterFields
      <4>5. agent'[op.agent] = Answered(agent[op.agent], dead)
        BY <1>0, <4>1, <4>2
      <4>6. agent'[op.agent].phase \notin {"starting", "joining"}
        BY <1>0, <4>1, <4>4, <4>5 DEF Answered, AgentRecord
      <4> QED
        BY <4>3, <4>6
    <3> QED
      BY <3>1, <3>2
  <2>4. ASSUME NEW b \in Agent, agent'[b].phase \in {"starting", "joining"}, NEW m \in agent[b].held
        PROVE  /\ mail'[m].to = b /\ mail'[m].receipt = "queued"
               /\ m \notin inbox'[b] /\ m \notin op'.rest /\ ~Routed(m)'
    <3>1. /\ mail[m].to = b /\ (mail[m].receipt = "queued" \/ Acknowledging(m))
          /\ m \notin inbox[b] /\ ~Routed(m)
      BY <2>3, <2>4 DEF TakenOnce
    <3> QED
      BY <2>1, <2>2, <3>1 DEF Acknowledging, Routed, Holding, Free
  <2>5. \A b \in Agent : agent'[b].phase \in {"starting", "joining"} =>
          agent'[b].held = agent[b].held /\ agent[b].held # {}
    BY <2>3 DEF TakenOnce
  <2> QED
    BY <2>4, <2>5 DEF TakenOnce
<1>6. CASE Undeliver
  <2>1. PICK n \in op.rest : Settled(n, "undelivered") /\ op' = [op EXCEPT !.rest = @ \ {n}]
    BY <1>6 DEF Undeliver
  <2>2. n \in 1..Len(mail) /\ op.name \in {"finish", "discard"} /\ UNCHANGED <<inbox, agent>>
        /\ op'.rest = op.rest \ {n} /\ op'.name = op.name
    BY <1>6, <2>1 DEF Undeliver, TypeOK
  <2>3. \A m \in 1..Len(mail) : mail'[m].to = mail[m].to /\ (m # n => mail'[m] = mail[m])
    BY <2>1, <2>2, MailSettles
  <2>4. ASSUME NEW b \in Agent, agent[b].phase \in {"starting", "joining"}, NEW m \in agent[b].held
        PROVE  /\ mail'[m].to = b /\ mail'[m].receipt = "queued"
               /\ m \notin inbox'[b] /\ m \notin op'.rest /\ ~Routed(m)'
    <3>1. m \in 1..Len(mail)
      BY <1>0 DEF AgentRecord
    <3>2. /\ mail[m].to = b /\ (mail[m].receipt = "queued" \/ Acknowledging(m))
          /\ m \notin inbox[b] /\ m \notin op.rest
      BY <2>4 DEF TakenOnce
    <3> QED
      BY <2>1, <2>2, <2>3, <3>1, <3>2 DEF Acknowledging, Routed, Holding
  <2>5. \A b \in Agent : agent[b].phase \in {"starting", "joining"} => agent[b].held # {}
    BY DEF TakenOnce
  <2> QED
    BY <2>2, <2>4, <2>5 DEF TakenOnce
<1>7. CASE Exited
  <2>1. inbox' = inbox /\ op.name = "finish" /\ op.rest = {} /\ op.agent \in Agent
        /\ agent[op.agent].parent \in Agent \cup {User}
    BY <1>0, <1>7 DEF Exited, OpFits, Holding, AgentRecord
  <2>2. CASE Routing(op.agent, agent[op.agent].parent, "failure") /\ UNCHANGED agent
    BY <2>1, <2>2, RoutingTaken
  <2>3. CASE Done /\ agent' = [agent EXCEPT ![op.agent].phase = "gone"] /\ UNCHANGED mail
    <3>1. Same
      BY <1>0, <2>1, <2>3 DEF AgentRecord
    <3> QED
      BY <2>1, <2>3, <3>1, QuietTaken DEF Done, Free
  <2> QED
    BY <1>7, <2>2, <2>3 DEF Exited
<1>8. CASE Discard
  <2>1. /\ op.name = "free" /\ mail' = mail /\ op'.name = "discard" /\ agent' = agent
        /\ op'.rest = UNION {inbox[a] : a \in Agent} /\ \A a \in Agent : inbox'[a] = {}
    BY <1>8 DEF Discard, Begun, Holding
  <2> QED
    BY <2>1, QuietTaken
<1>9. ASSUME NEW a \in Agent, Send(a) \/ \E kind \in HostKind : Deliver(a, kind)
      PROVE  TakenOnce'
  <2>1. op.name = "free" /\ inbox' = inbox
    BY <1>9 DEF Send, Deliver, Holding
  <2>2. PICK kind \in HostKind \cup {"instruction", "reply", "failure"} : Routing(User, a, kind)
    BY <1>9 DEF Send, Deliver
  <2>3. Same
    BY <1>0, <1>9 DEF Send, Deliver, ReleaseInterruption, Released, AgentRecord
  <2> QED
    BY <2>1, <2>2, <2>3, RoutingTaken
<1>10. ASSUME NEW a \in Agent, StopAgent(a) \/ WatchAsks(a)
       PROVE  TakenOnce'
  <2>1. Same
    BY <1>0, <1>10 DEF StopAgent, WatchAsks, AgentRecord
  <2> QED
    BY <1>10, <2>1, QuietTaken DEF StopAgent, WatchAsks
<1>11. ASSUME NEW a \in Agent, NEW parent \in Agent \cup {User}, CreateAgent(a, parent)
       PROVE  TakenOnce'
  <2>1. /\ op.name = "free" /\ UNCHANGED <<mail, inbox>>
        /\ op' = [name |-> "create", agent |-> a, msg |-> 0, rest |-> {}]
    BY <1>11 DEF CreateAgent, Begun, Holding
  <2>2. Same
    BY <1>0, <1>11 DEF CreateAgent, AgentRecord
  <2> QED
    BY <2>1, <2>2, QuietTaken
<1>12. CASE Interrupt
  <2>1. Same
    BY <1>0, <1>12 DEF Interrupt, Interrupted, AgentRecord
  <2> QED
    BY <1>12, <2>1, QuietTaken DEF Interrupt
<1>13. CASE Close \/ Cancel \/ WatchWakes \/ WatchDone \/ CaptureFails \/ UNCHANGED vars
  BY <1>13, QuietTaken DEF Close, Cancel, WatchWakes, WatchDone, CaptureFails, vars
<1> QED
  BY <1>1, <1>2, <1>3, <1>4, <1>5, <1>6, <1>7, <1>8, <1>9, <1>10, <1>11, <1>12, <1>13
  DEF Next, Going, Requests, Watching

----------------------------------------------------------------------------
(* The invariant, and what follows from it. *)

\* The conversation begins with no agent and no message.
LEMMA InitConversationInv ==
  ASSUME Init
  PROVE  ConversationInv
<1> USE DEF Init
<1>1. TypeOK
  <2>1. Absent \in AgentRecord
    BY DEF Absent, AgentRecord, Phase
  <2>2. agent \in [Agent -> AgentRecord] /\ inbox \in [Agent -> SUBSET (1..Len(mail))]
    BY <2>1
  <2>3. op \in [name : {"free", "create", "deliver", "acknowledge", "finish", "discard"},
                agent : Agent \cup {User}, msg : 0..Len(mail), rest : SUBSET (1..Len(mail))]
    BY DEF Free
  <2>4. mail \in Seq(Letter)
    OBVIOUS
  <2> QED
    BY <2>2, <2>3, <2>4 DEF TypeOK, Letter
<1>2. Registered = {}
  BY DEF Registered, Absent
<1>3. OpFits /\ Held
  BY <1>2 DEF OpFits, Held, Holding, Free, Absent
<1>4. Addressed /\ NothingLost /\ DiscardsAll /\ DiscardsInput /\ CloseSettlesMail
  BY DEF Addressed, Receptive, NothingLost, DiscardsAll, DiscardsInput, CloseSettlesMail,
     Holding, Free, Absent
<1>5. FenceIsExact /\ ClosesFirst
  BY <1>2 DEF FenceIsExact, ClosesFirst
<1> QED
  BY <1>1, <1>3, <1>4, <1>5 DEF ConversationInv

\* Every step keeps the invariant.
LEMMA NextConversationInv ==
  ASSUME ConversationInv, TakenOnce, [Next]_vars
  PROVE  ConversationInv'
<1>1. ASSUME NEW a \in Agent, Loop(a)
      PROVE  ConversationInv'
  BY <1>1, BeginExchangeKeeps, WokenKeeps, ReceiveKeeps, ConsumeKeeps, ReplySendKeeps,
     ReplyRefusedKeeps, SettleKeeps, ReportFailsKeeps, TerminateKeeps, FinishInterruptKeeps,
     FinishKeeps DEF Loop
<1>2. ASSUME NEW a \in Agent, Model(a)
      PROVE  ConversationInv'
  BY <1>2, ReceiveKeeps, ReturnKeeps, ReplyKeeps, ToolSendKeeps DEF Model
<1>3. CASE Going \/ Discard
  BY <1>3, ConsumedKeeps, CreatedKeeps, DeliveredKeeps, UndeliverKeeps, ExitedKeeps,
     DiscardedKeeps, DiscardKeeps DEF Going
<1>4. CASE Requests
  BY <1>4, CreateAgentKeeps, SendKeeps, DeliverKeeps, InterruptKeeps, StopKeeps, RequestsKeep
  DEF Requests
<1>5. CASE Watching \/ CaptureFails
  <2>1. ASSUME NEW a \in Agent, WatchAsks(a)
        PROVE  ConversationInv'
    BY <2>1, StopKeeps
  <2> QED
    BY <1>5, <2>1, RequestsKeep, WatchDoneKeeps DEF Watching
<1>6. CASE UNCHANGED vars
  <2>1. UNCHANGED <<agent, inbox, mail, op, fence, attempt, closing, quiesce, watch, cancelled,
                    captured>>
    BY <1>6 DEF vars, controlVars, closeVars
  <2>2. TypeOK' /\ OpFits' /\ Held' /\ Addressed'
    BY <2>1 DEF ConversationInv, TypeOK, AgentRecord, OpFits, Held, Addressed, Receptive, Holding,
       Registered
  <2>3. NothingLost'
    BY <2>1 DEF ConversationInv, NothingLost, Places, Waits, Taken, Routed, Returning,
       Acknowledging,
       Holding
  <2>4. DiscardsAll' /\ ClosesFirst' /\ FenceIsExact' /\ DiscardsInput' /\ CloseSettlesMail'
    BY <2>1 DEF ConversationInv, FenceIsExact, DiscardsAll, DiscardsInput, ClosesFirst,
       CloseSettlesMail, Holding, Registered
  <2> QED
    BY <2>2, <2>3, <2>4 DEF ConversationInv
<1> QED
  BY <1>1, <1>2, <1>3, <1>4, <1>5, <1>6 DEF Next

\* Every state of a conversation satisfies the invariant, for any number of agents and
\* messages, whatever is asked and in whatever order.
THEOREM ConversationInvariant == Spec => [](ConversationInv /\ Undecided /\ TakenOnce)
<1>1. Init => ConversationInv
  BY InitConversationInv
<1>2. Init => Undecided /\ TakenOnce
  BY DEF Init, Undecided, TakenOnce, Holding, Free, Absent
<1>3. ConversationInv /\ Undecided /\ TakenOnce /\ [Next]_vars
        => (ConversationInv /\ Undecided /\ TakenOnce)'
  BY NextConversationInv, StepUndecided, StepTaken
<1> QED
  BY <1>1, <1>2, <1>3, PTL DEF Spec

\* Every message and every fence is accounted for (InputAccounted): what is queued for an
\* agent is in exactly one place, the fence stands exactly while every agent holds an
\* interruption, and an interruption that is done leaves nothing but failures to read.
THEOREM InputAlwaysAccounted == Spec => []InputAccounted
<1>1. ConversationInv /\ Undecided /\ TakenOnce => InputAccounted
  BY DEF ConversationInv, InputAccounted
<1> QED
  BY <1>1, ConversationInvariant, PTL

\* When a conversation is closed no message is left without its receipt (CloseSettlesMail).
THEOREM CloseAlwaysSettlesMail == Spec => []CloseSettlesMail
<1>1. ConversationInv => CloseSettlesMail
  BY DEF ConversationInv
<1> QED
  BY <1>1, ConversationInvariant, PTL

----------------------------------------------------------------------------
(* The fence. *)

\* The phase of one agent changes, and it does not begin an exchange.
LEMMA Leaving ==
  ASSUME TypeOK, NEW a \in Agent, attempt' = attempt,
         \A b \in Agent : b # a => agent'[b].phase = agent[b].phase,
         agent'[a].phase \in Executing => agent[a].phase \in Executing
  PROVE  [Fence!Next]_(Fence!vars)
<1> DEFINE active == {b \in Agent : agent[b].phase \in Executing}
<1>1. CASE agent'[a].phase \in Executing \/ agent[a].phase \notin Executing
  <2>1. active' = active
    BY <1>1
  <2> QED
    BY <2>1 DEF Fence!vars
<1>2. CASE ~(agent'[a].phase \in Executing \/ agent[a].phase \notin Executing)
  <2>1. active' = active \ {a}
    BY <1>2
  <2> QED
    BY <2>1 DEF Fence!Next, Fence!End
<1> QED
  BY <1>1, <1>2

\* A loop enters an exchange only while it holds no interruption, so while the gate is open.
LEMMA LoopFenced ==
  ASSUME ConversationInv, NEW a \in Agent, Loop(a) \/ Model(a)
  PROVE  [Fence!Next]_(Fence!vars)
<1> USE DEF ConversationInv
<1>1. CASE Receive(a)
  <2>1. /\ attempt' = attempt /\ agent[a].phase = "waiting" /\ agent[a].interrupt = "none"
        /\ agent' = [agent EXCEPT ![a] = [agent[a] EXCEPT !.phase = "starting", !.held = {Oldest(inbox[a])}]]
    BY <1>1 DEF Receive, controlVars, Cut
  <2>2. attempt = "none" /\ attempt' = "none"
    BY <2>1 DEF FenceIsExact, Held, Registered, TypeOK
  <2>3. agent'[a].phase = "starting" /\ \A b \in Agent : b # a => agent'[b] = agent[b]
    BY <2>1 DEF TypeOK, AgentRecord
  <2>4. {b \in Agent : agent[b].phase \in Executing}'
          = {b \in Agent : agent[b].phase \in Executing} \cup {a}
    BY <2>3 DEF Executing
  <2> QED
    BY <2>2, <2>4 DEF Fence!Next, Fence!Begin
<1>2. CASE ~Receive(a)
  <2>1. agent[a] \in AgentRecord /\ DOMAIN agent = Agent
    BY DEF TypeOK
  <2>2. attempt' = attempt /\ \A b \in Agent : b # a => agent'[b].phase = agent[b].phase
    BY <1>2, <2>1 DEF Loop, Model, BeginExchange, Woken, Consume, ReplySend, ReplyRefused, Settle,
       ReportFails, Terminate, FinishInterrupt, Finish, Take, Return, Reply, ToolSend, controlVars
  <2>3. agent'[a].phase \in Executing => agent[a].phase \in Executing
    <3>1. ASSUME NEW why, NEW dead \in BOOLEAN
          PROVE  AfterExchange(agent[a], why, dead).phase \notin Executing
      BY <2>1 DEF AfterExchange, AgentRecord, Executing
    <3>2. Dead(a) \in BOOLEAN
      BY <2>1 DEF Dead, TypeOK, AgentRecord
    <3>3. CASE BeginExchange(a)
      BY <2>1, <3>3 DEF BeginExchange, AgentRecord, Executing
    <3>7. CASE FinishInterrupt(a)
      BY <2>1, <3>7 DEF FinishInterrupt, AgentRecord, Executing
    <3>9. CASE Settle(a)
      <4>1. agent'[a].phase \in {"ready", "ending"}
        BY <2>1, <3>9 DEF Settle, AgentRecord
      <4> QED
        BY <4>1 DEF Executing
    <3>8. CASE ReportFails(a) \/ Terminate(a) \/ Finish(a)
      BY <2>1, <3>8 DEF ReportFails, Terminate, Finish, AgentRecord, Executing
    <3>4. CASE Woken(a) \/ Return(a) \/ ReplyRefused(a)
      BY <2>1, <3>1, <3>2, <3>4 DEF Woken, Return, ReplyRefused
    <3>5. CASE Consume(a) \/ ReplySend(a)
      BY <3>5 DEF Consume, ReplySend
    <3>6. CASE Take(a) \/ Reply(a) \/ \E to \in Agent \ {a} : ToolSend(a, to)
      BY <3>6 DEF Take, Reply, ToolSend, Executing
    <3> QED
      BY <1>2, <3>3, <3>4, <3>5, <3>6, <3>7, <3>8, <3>9 DEF Loop, Model
  <2> QED
    BY <2>2, <2>3, Leaving
<1> QED
  BY <1>1, <1>2

\* An interruption is done only while every agent holds it, so while none executes.
LEMMA GoingFenced ==
  ASSUME ConversationInv, Going
  PROVE  [Fence!Next]_(Fence!vars)
<1> USE DEF ConversationInv
<1>1. CASE Discarded
  <2>1. attempt = "waiting" /\ attempt' = "done" /\ agent' = agent
    BY <1>1 DEF Discarded, Held
  <2>2. \A a \in Agent : agent[a].phase \notin Executing
    BY <1>1 DEF Discarded, Held, Registered, Executing, Over
  <2> QED
    BY <2>1, <2>2 DEF Fence!Next, Fence!Settle
<1>2. CASE Undeliver
  BY <1>2 DEF Undeliver, controlVars, Fence!vars
<1>3. CASE Consumed
  <2>1. op.agent \in Agent /\ agent[op.agent] \in AgentRecord
        /\ agent[op.agent].phase \in {"starting", "joining"}
    BY <1>3 DEF Consumed, OpFits, TypeOK
  <2>2. attempt' = attempt /\ \A b \in Agent : b # op.agent => agent'[b].phase = agent[b].phase
    BY <1>3, <2>1 DEF Consumed, controlVars, TypeOK
  <2> QED
    BY <2>1, <2>2, Leaving DEF Executing
<1>4. CASE Created
  <2>1. op.agent \in Agent /\ agent[op.agent] \in AgentRecord
        /\ agent[op.agent].phase = "registered"
    BY <1>4 DEF Created, OpFits, TypeOK
  <2>2. attempt' = attempt /\ \A b \in Agent : b # op.agent => agent'[b].phase = agent[b].phase
    BY <1>4, <2>1 DEF Created, controlVars, TypeOK
  <2>3. agent'[op.agent].phase \in {"ready", "registered"}
    BY <1>4, <2>1 DEF Created, TypeOK, AgentRecord
  <2> QED
    BY <2>1, <2>2, <2>3, Leaving DEF Executing
<1>5. CASE Exited
  <2>1. op.agent \in Agent /\ agent[op.agent] \in AgentRecord
        /\ agent[op.agent].phase = "finishing"
    BY <1>5 DEF Exited, OpFits, TypeOK
  <2>2. attempt' = attempt /\ \A b \in Agent : b # op.agent => agent'[b].phase = agent[b].phase
    BY <1>5, <2>1 DEF Exited, controlVars, TypeOK
  <2>3. agent'[op.agent].phase \in {"finishing", "gone"}
    BY <1>5, <2>1 DEF Exited, TypeOK, AgentRecord
  <2> QED
    BY <2>1, <2>2, <2>3, Leaving DEF Executing
<1>6. CASE Delivered
  <2>1. attempt' = attempt
    BY <1>6 DEF Delivered, controlVars
  <2>2. CASE op.agent = User
    BY <1>6, <2>1, <2>2 DEF Delivered, Fence!vars
  <2>3. CASE op.agent # User
    <3>1. op.agent \in Agent /\ agent[op.agent] \in AgentRecord
          /\ agent[op.agent].phase \in {"sending", "replying", "finishing"}
      BY <1>6, <2>3 DEF Delivered, OpFits, TypeOK
    <3>2. \A b \in Agent : b # op.agent => agent'[b].phase = agent[b].phase
      BY <1>6, <2>3, <3>1 DEF Delivered, TypeOK
    <3>3. agent[op.agent].phase = "finishing" => agent'[op.agent].phase = "gone"
      BY <1>6, <2>3, <3>1 DEF Delivered, Answered, TypeOK, AgentRecord
    <3> QED
      BY <2>1, <3>1, <3>2, <3>3, Leaving DEF Executing
  <2> QED
    BY <2>2, <2>3
<1> QED
  BY <1>1, <1>2, <1>3, <1>4, <1>5, <1>6 DEF Going

\* A request closes the gate, a message of the user opens it, and neither makes an agent
\* execute.
LEMMA RequestsFenced ==
  ASSUME ConversationInv, Requests
  PROVE  [Fence!Next]_(Fence!vars)
<1> USE DEF ConversationInv
<1>1. ASSUME NEW a \in Agent, NEW parent \in Agent \cup {User}, CreateAgent(a, parent)
      PROVE  [Fence!Next]_(Fence!vars)
  <2>1. /\ attempt' = attempt /\ agent'[a].phase = "registered"
        /\ \A b \in Agent : b # a => agent'[b].phase = agent[b].phase
    BY <1>1 DEF CreateAgent, controlVars, TypeOK, AgentRecord
  <2> QED
    BY <2>1, Leaving DEF Executing
<1>2. ASSUME NEW a \in Agent, Send(a)
      PROVE  [Fence!Next]_(Fence!vars)
  <2>1. CASE ~fence
    BY <1>2, <2>1 DEF Send, ReleaseInterruption, controlVars, Fence!vars
  <2>2. CASE fence
    <3>1. attempt = "done" /\ attempt' = "none" /\ agent' = [b \in Agent |-> Released(agent[b])]
      BY <1>2, <2>2 DEF Send, ReleaseInterruption, Held, TypeOK
    <3>2. \A b \in Agent : agent'[b].phase = agent[b].phase
      BY <3>1 DEF Released, TypeOK, AgentRecord
    <3>3. {b \in Agent : agent[b].phase \in Executing}' = {b \in Agent : agent[b].phase \in Executing}
      BY <3>2
    <3> QED
      BY <3>1, <3>3 DEF Fence!Next, Fence!Release
  <2> QED
    BY <2>1, <2>2
<1>3. ASSUME NEW a \in Agent, NEW kind \in HostKind, Deliver(a, kind)
      PROVE  [Fence!Next]_(Fence!vars)
  BY <1>3 DEF Deliver, controlVars, Fence!vars
<1>4. CASE Interrupt
  <2>1. attempt = "none" /\ attempt' = "waiting"
    BY <1>4 DEF Interrupt
  <2>2. \A b \in Agent : agent'[b].phase = agent[b].phase
    BY <1>4 DEF Interrupt, Interrupted, TypeOK, AgentRecord
  <2>3. {b \in Agent : agent[b].phase \in Executing}' = {b \in Agent : agent[b].phase \in Executing}
    BY <2>2
  <2> QED
    BY <2>1, <2>3 DEF Fence!Next, Fence!Interrupt
<1>5. ASSUME NEW a \in Agent, StopAgent(a)
      PROVE  [Fence!Next]_(Fence!vars)
  <2>1. attempt' = attempt /\ \A b \in Agent : agent'[b].phase = agent[b].phase
    BY <1>5 DEF StopAgent, controlVars, TypeOK, AgentRecord
  <2> QED
    BY <2>1, Leaving
<1>6. CASE Close \/ Cancel
  BY <1>6 DEF Close, Cancel, controlVars, Fence!vars
<1> QED
  BY <1>1, <1>2, <1>3, <1>4, <1>5, <1>6 DEF Requests

\* Every step of the conversation is a step of the fence, or changes neither its gate nor
\* who executes.
LEMMA StepFenced ==
  ASSUME ConversationInv, [Next]_vars
  PROVE  [Fence!Next]_(Fence!vars)
<1> USE DEF ConversationInv
<1>1. CASE \E a \in Agent : Loop(a) \/ Model(a)
  BY <1>1, LoopFenced
<1>2. CASE Going
  BY <1>2, GoingFenced
<1>3. CASE Requests
  BY <1>3, RequestsFenced
<1>4. CASE Discard \/ CaptureFails \/ WatchWakes \/ WatchDone \/ UNCHANGED vars
  BY <1>4 DEF Discard, CaptureFails, WatchWakes, WatchDone, vars, controlVars, Fence!vars
<1>5. ASSUME NEW a \in Agent, WatchAsks(a)
      PROVE  [Fence!Next]_(Fence!vars)
  <2>1. attempt' = attempt /\ \A b \in Agent : agent'[b].phase = agent[b].phase
    BY <1>5 DEF WatchAsks, controlVars, TypeOK, AgentRecord
  <2> QED
    BY <2>1, Leaving
<1> QED
  BY <1>1, <1>2, <1>3, <1>4, <1>5 DEF Next, Watching

\* The conversation implements the fence: an interruption cuts off input, is done only when
\* no agent executes, and holds until a message of the user (FencesExecution).
THEOREM ExecutionAlwaysFenced == Spec => FencesExecution
<1>1. Init => Fence!Init
  BY DEF Init, Fence!Init, Absent, Executing
<1>2. ConversationInv /\ [Next]_vars => [Fence!Next]_(Fence!vars)
  BY StepFenced
<1> QED
  BY <1>1, <1>2, ConversationInvariant, PTL DEF Spec, FencesExecution, Fence!Spec

----------------------------------------------------------------------------
(* Receipts. *)

\* A step may settle the receipt of a message that is queued, and no other.
LEMMA StepKeepsReceipts ==
  ASSUME ConversationInv, Undecided, TakenOnce, [Next]_vars, NEW m \in DOMAIN mail,
         mail[m].receipt # "queued"
  PROVE  mail'[m] = mail[m]
<1> USE DEF ConversationInv
<1>1. m \in 1..Len(mail) /\ Len(mail) \in Nat /\ mail \in Seq(Letter)
  BY MailTyped
<1>2. ASSUME NEW n \in 1..Len(mail), NEW receipt \in {"consumed", "undelivered"},
             Settled(n, receipt), mail[n].receipt = "queued"
      PROVE  mail'[m] = mail[m]
  BY <1>1, <1>2, MailSettles
<1>3. ASSUME NEW to \in Agent \cup {User}, NEW from,
             NEW kind \in HostKind \cup {"instruction", "reply", "failure"}, Routing(from, to, kind)
      PROVE  mail'[m] = mail[m]
  <2>1. CASE to = User
    BY <1>3, <2>1 DEF Routing
  <2>2. CASE to # User
    BY <1>1, <1>3, <2>2, MailGrows DEF Routing
  <2> QED
    BY <2>1, <2>2
<1>4. ASSUME NEW a \in Agent, Consume(a)
      PROVE  mail'[m] = mail[m]
  <2>1. /\ agent[a].held # {} /\ agent[a].held \in SUBSET Nat /\ agent[a].held \subseteq 1..Len(mail)
        /\ op.name = "free" /\ op.rest = {}
    BY <1>4 DEF Consume, TakenOnce, TypeOK, AgentRecord, Holding, OpFits
  <2>2. PICK n \in agent[a].held : n = Oldest(agent[a].held)
    BY <2>1, OldestIn
  <2>3. n \in 1..Len(mail) /\ mail[n].receipt = "queued"
    BY <1>4, <2>1, <2>2 DEF TakenOnce, Consume, Acknowledging, Holding
  <2> QED
    BY <1>2, <1>4, <2>2, <2>3 DEF Consume
<1>5. ASSUME Undeliver
      PROVE  mail'[m] = mail[m]
  <2>1. PICK n \in op.rest : Settled(n, "undelivered")
    BY <1>5 DEF Undeliver
  <2>2. n \in 1..Len(mail) /\ op.name \in {"finish", "discard"}
    BY <1>5 DEF Undeliver, TypeOK
  <2>3. mail[n].receipt = "queued"
    BY DEF Undecided
  <2> QED
    BY <1>2, <2>1, <2>2, <2>3
<1>6. ASSUME NEW a \in Agent, Loop(a) \/ Model(a)
      PROVE  mail'[m] = mail[m]
  <2>1. CASE UNCHANGED mail
    BY <2>1
  <2>2. CASE Consume(a)
    BY <1>4, <2>2
  <2>3. CASE ReplySend(a)
    BY <1>3, <2>3 DEF ReplySend, TypeOK, AgentRecord
  <2>4. CASE \E to \in Agent \ {a} : ToolSend(a, to)
    BY <1>3, <2>4 DEF ToolSend
  <2> QED
    BY <1>6, <2>1, <2>2, <2>3, <2>4 DEF Loop, Model, BeginExchange, Woken, Receive, ReplyRefused,
       Settle, ReportFails, Terminate, FinishInterrupt, Finish, Take, Return, Reply
<1>7. CASE Going
  <2>1. CASE Exited
    <3>1. op.agent \in Agent
      BY <2>1 DEF Exited, OpFits
    <3>2. agent[op.agent].parent \in Agent \cup {User}
      BY <3>1 DEF TypeOK, AgentRecord
    <3> QED
      BY <1>3, <2>1, <3>2 DEF Exited
  <2>2. CASE Consumed \/ Created \/ Delivered \/ Discarded
    BY <2>2 DEF Consumed, Created, Delivered, Discarded
  <2> QED
    BY <1>5, <1>7, <2>1, <2>2 DEF Going
<1>8. CASE Requests
  <2>1. ASSUME NEW a \in Agent, Send(a) \/ \E kind \in HostKind : Deliver(a, kind)
        PROVE  mail'[m] = mail[m]
    BY <1>3, <2>1 DEF Send, Deliver
  <2>2. CASE UNCHANGED mail
    BY <2>2
  <2> QED
    BY <1>8, <2>1, <2>2 DEF Requests, CreateAgent, Interrupt, StopAgent, Close, Cancel
<1>9. CASE Discard \/ Watching \/ CaptureFails \/ UNCHANGED vars
  BY <1>9 DEF Discard, Watching, WatchWakes, WatchAsks, WatchDone, CaptureFails, vars
<1> QED
  BY <1>6, <1>7, <1>8, <1>9 DEF Next

\* A receipt that is settled is never changed, even if the log fails (ReceiptsAreFinal).
THEOREM ReceiptsAlwaysFinal == Spec => ReceiptsAreFinal
<1>1. ConversationInv /\ Undecided /\ TakenOnce /\ [Next]_vars
        => [\A m \in DOMAIN mail : mail[m].receipt # "queued" => mail'[m] = mail[m]]_vars
  BY StepKeepsReceipts
<1> QED
  BY <1>1, ConversationInvariant, PTL DEF Spec, ReceiptsAreFinal
=============================================================================
