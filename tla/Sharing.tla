-------------------------------- MODULE Sharing --------------------------------
(***************************************************************************)
(* The sharing of a terminal's screen with the support staff.  A terminal  *)
(* (Compartilhamento.java) connects to the server, sends its key, gets a   *)
(* session number and sends its screen, then for each batch of output a    *)
(* REFRESH of some columns of some lines (which ones: TerminalRegion).     *)
(* The server (Central.java) has one thread that accepts connections and   *)
(* waits for what the peer sends first, and one thread for each terminal   *)
(* (Agente.java); the support's connection (AgenteSuporte.java) is served  *)
(* in a constructor, that is, by the accepting thread.                     *)
(*                                                                         *)
(* A cell of the screen is the number of its last change, the access key   *)
(* of a session the terminal itself.  What is written to a socket arrives  *)
(* in order; "lost", "left" and "gone" close it.                           *)
(***************************************************************************)
EXTENDS Naturals, Sequences, FiniteSets, SequencesExt

CONSTANTS
    Clients, Supports,
    Lines, Cols,    \* lines are 1 .. Lines, columns 0 .. Cols - 1
    Regions,        \* the regions of the screen that a batch of output may have
    Casts           \* who takes part, and how many batches of output there are

None == "none"

ASSUME SizeAssumption == Lines \in Nat \ {0} /\ Cols \in Nat \ {0}

ASSUME RegionAssumption ==
    \A r \in Regions : /\ r.y1 \in 1 .. Lines /\ r.y2 \in r.y1 .. Lines
                      /\ r.x1 \in 0 .. Cols - 1 /\ r.x2 \in r.x1 .. Cols - 1

\* There are finitely many terminals, each with a connection of its own.
ASSUME PartiesAssumption ==
    IsFiniteSet(Clients) /\ Clients \cap Supports = {} /\ None \notin Clients \cup Supports

VARIABLES
    client,         \* off, connecting, waiting, answered, sharing; lost, gone
    sessao,         \* the session number each client was given
    screen,         \* the cells of each terminal, as last sent
    toAgent,        \* what the terminal wrote and its Agente is still to read
    agent,          \* the Agente: none, running, adding, writing, dead
    dados, pendentes, sockSuporte,  \* its fields
    agentes,        \* Central.agentes: session -> client
    queue,          \* connections not accepted yet
    pc, who, sup, pos, size,        \* the accepting thread
    support,        \* off, dialing, asking, connected, refused, left
    asked, view,    \* the session and key it sent; its screen
    draws,          \* batches of output still to come
    freed,          \* history: a session number has been taken out of the map
    direct,         \* history: cells refreshed past pendentes
    doubt           \* history: cells the present support may see out of date

clientVars  == <<client, sessao, screen, draws>>
agentVars   == <<agent, dados, pendentes, sockSuporte>>
centralVars == <<pc, who, sup, pos, size>>
supportVars == <<support, asked, view>>
vars == <<clientVars, toAgent, agentVars, agentes, queue, centralVars, supportVars,
          freed, direct, doubt>>

Sessions == 1 .. Cardinality(Clients)
Rows == 1 .. Lines
Columns == 0 .. Cols - 1
Cells == Rows \X Columns
Row(l) == {l} \X Columns

Init ==
    /\ \E cast \in Casts :
           /\ client = [c \in Clients |-> IF c \in cast.clients THEN "off" ELSE "gone"]
           /\ support = [s \in Supports |-> IF s \in cast.supports THEN "off" ELSE "left"]
           /\ draws = cast.draws
    /\ sessao = [c \in Clients |-> 0]
    /\ screen = [c \in Clients |-> [p \in Cells |-> 1]]
    /\ toAgent = [c \in Clients |-> <<>>]
    /\ agent = [c \in Clients |-> "none"]
    /\ dados = [c \in Clients |-> [p \in Cells |-> 0]]
    /\ pendentes = [c \in Clients |-> <<>>]
    /\ sockSuporte = [c \in Clients |-> None]
    /\ agentes = [n \in Sessions |-> None]
    /\ queue = <<>>
    /\ pc = "accept" /\ who = None /\ sup = None /\ pos = 0 /\ size = 0
    /\ asked = [s \in Supports |-> <<>>]
    /\ view = [s \in Supports |-> [p \in Cells |-> 0]]
    /\ freed = FALSE /\ direct = [c \in Clients |-> {}] /\ doubt = {}

--------------------------------------------------------------------------------
(* The terminal: Compartilhamento                                          *)

\* A command with the cells S of the screen v.
Message(cmd, v, S) == [cmd |-> cmd, v |-> [p \in S |-> v[p]]]

\* f, and for the cells of g what g has.
Over(f, g) == [p \in DOMAIN f |-> IF p \in DOMAIN g THEN g[p] ELSE f[p]]

\* Terminal.atualiza: a batch of output whose region is r.  Its lines are sent one
\* by one; where it leaves the screen an exception ends it, and the part of it
\* before that is the region.
Draw(c, r) ==
    LET box(l1, l2) == (l1 .. l2) \X (r.x1 .. r.x2)
        new  == [p \in Cells |-> IF p \in box(r.y1, r.y2) THEN screen[c][p] + 1 ELSE screen[c][p]]
        msgs == [i \in 1 .. r.y2 - r.y1 + 1 |->
                    Message("REFRESH", new, box(r.y1 + i - 1, r.y1 + i - 1))]
    IN  /\ client[c] = "sharing" /\ draws > 0
        /\ draws' = draws - 1
        /\ screen' = [screen EXCEPT ![c] = new]
        /\ toAgent' = [toAgent EXCEPT ![c] = IF agent[c] = "dead" THEN @ ELSE @ \o msgs]
        /\ UNCHANGED <<client, sessao, agentVars, agentes, queue, centralVars, supportVars,
                       freed, direct, doubt>>

\* new Socket, which the server's system accepts by itself, then the key.
Connect(c) ==
    /\ client[c] = "off"
    /\ client' = [client EXCEPT ![c] = "connecting"]
    /\ queue' = Append(queue, c)
    /\ UNCHANGED <<sessao, screen, draws, toAgent, agentVars, agentes, centralVars,
                   supportVars, freed, direct, doubt>>

SendKey(c) ==
    /\ client[c] = "connecting"
    /\ client' = [client EXCEPT ![c] = "waiting"]
    /\ UNCHANGED <<sessao, screen, draws, toAgent, agentVars, agentes, queue, centralVars,
                   supportVars, freed, direct, doubt>>

\* The session and the key are shown, then the whole screen is sent.
compartilha(c) ==
    /\ client[c] = "answered"
    /\ client' = [client EXCEPT ![c] = "sharing"]
    /\ toAgent' = [toAgent EXCEPT ![c] =
                       [l \in Rows |-> Message("DADOS", screen[c], Row(l))]]
    /\ UNCHANGED <<sessao, screen, draws, agentVars, agentes, queue, centralVars, supportVars,
                   freed, direct, doubt>>

\* fecha sends STOP; a terminal that dies only closes its socket, whatever it
\* was waiting for.
Close(c, how) ==
    /\ \/ client[c] = "sharing"
       \/ how = "EOF" /\ client[c] \in {"connecting", "waiting", "answered"}
    /\ client' = [client EXCEPT ![c] = IF @ = "connecting" THEN "lost" ELSE "gone"]
    /\ toAgent' = [toAgent EXCEPT ![c] =
                       IF agent[c] = "dead" THEN @ ELSE Append(@, Message(how, screen[c], {}))]
    /\ UNCHANGED <<sessao, screen, draws, agentVars, agentes, queue, centralVars,
                   supportVars, freed, direct, doubt>>

--------------------------------------------------------------------------------
(* Agente.run                                                              *)

Reads(c, state, cmd) ==
    /\ agent[c] = state
    /\ toAgent[c] # <<>> /\ Head(toAgent[c]).cmd = cmd

Pops(c) == toAgent' = [toAgent EXCEPT ![c] = Tail(@)]
AgentBecomes(c, state) == agent' = [agent EXCEPT ![c] = state]

AgentDados(c) ==
    /\ Reads(c, "running", "DADOS") /\ Pops(c)
    /\ dados' = [dados EXCEPT ![c] = Over(@, Head(toAgent[c]).v)]
    /\ UNCHANGED <<clientVars, agent, pendentes, sockSuporte, agentes, queue, centralVars,
                   supportVars, freed, direct, doubt>>

\* if (sockSuporte != null) ... else ...
AgentRefresh(c) ==
    /\ Reads(c, "running", "REFRESH")
    /\ AgentBecomes(c, IF sockSuporte[c] = None THEN "adding" ELSE "writing")
    /\ UNCHANGED <<clientVars, toAgent, dados, pendentes, sockSuporte, agentes, queue,
                   centralVars, supportVars, freed, direct, doubt>>

\* Mutant: only the last REFRESH is kept.
Kept_Last(seq, m) == <<m>>
Kept(seq, m) == Append(seq, m)

\* A support that came in the meantime does not get it.
AgentAdd(c) ==
    LET m == Head(toAgent[c])
    IN  /\ Reads(c, "adding", "REFRESH") /\ Pops(c)
        /\ AgentBecomes(c, "running")
        /\ pendentes' = [pendentes EXCEPT ![c] = Kept(@, m)]
        /\ doubt' = IF who = c THEN doubt \cup DOMAIN m.v ELSE doubt
        /\ UNCHANGED <<clientVars, dados, sockSuporte, agentes, queue, centralVars,
                       supportVars, freed, direct>>

\* What the accepting thread has still to replay to the support.
ToReplay(c) ==
    IF pc = "replay" /\ who = c
    THEN UNION {DOMAIN pendentes[c][i].v : i \in pos .. Len(pendentes[c])} ELSE {}

AgentWrite(c) ==
    LET m == Head(toAgent[c])
        s == sockSuporte[c]
    IN  /\ Reads(c, "writing", "REFRESH")
        /\ direct' = [direct EXCEPT ![c] = @ \cup DOMAIN m.v]
        /\ \/ /\ support[s] = "connected" /\ Pops(c) /\ AgentBecomes(c, "running")
              /\ view' = [view EXCEPT ![s] = Over(@, m.v)]
              /\ doubt' = IF who # c THEN doubt
                          ELSE (doubt \ DOMAIN m.v) \cup (DOMAIN m.v \cap ToReplay(c))
           \/ /\ support[s] = "left" /\ Pops(c) /\ AgentBecomes(c, "running")
              /\ UNCHANGED <<view, doubt>>
           \/ /\ support[s] = "left" /\ AgentBecomes(c, "dead")
              /\ toAgent' = [toAgent EXCEPT ![c] = <<>>]
              /\ UNCHANGED <<view, doubt>>
        /\ UNCHANGED <<clientVars, dados, pendentes, sockSuporte, agentes, queue, centralVars,
                       support, asked, freed>>

\* Central.getAgentes().remove(sessao), whoever has the number now.
AgentStop(c) ==
    /\ Reads(c, "running", "STOP") /\ Pops(c)
    /\ AgentBecomes(c, "dead")
    /\ agentes' = [agentes EXCEPT ![sessao[c]] = None]
    /\ freed' = TRUE
    /\ UNCHANGED <<clientVars, dados, pendentes, sockSuporte, queue, centralVars, supportVars,
                   direct, doubt>>

\* n != 18: the terminal died, or read() gave only part of a header.  The map
\* keeps the Agente.
AgentReturns(c) ==
    /\ agent[c] = "running" /\ toAgent[c] # <<>>
    /\ AgentBecomes(c, "dead")
    /\ toAgent' = [toAgent EXCEPT ![c] = <<>>]
    /\ UNCHANGED <<clientVars, dados, pendentes, sockSuporte, agentes, queue, centralVars,
                   supportVars, freed, direct, doubt>>

Agente(c) ==
    AgentDados(c) \/ AgentRefresh(c) \/ AgentAdd(c) \/ AgentWrite(c) \/ AgentStop(c)
    \/ AgentReturns(c)

--------------------------------------------------------------------------------
(* Central.main                                                            *)

AcceptAgain ==
    pc' = "accept" /\ who' = None /\ sup' = None /\ pos' = 0 /\ size' = 0 /\ doubt' = {}

\* accept, then read: the thread waits for what the head of the queue sends.
Accepts(S) == pc = "accept" /\ queue # <<>> /\ Head(queue) \in S /\ queue' = Tail(queue)

\* Mutant: the sessions of terminals that died are not counted.
NewSession_Live ==
    Cardinality({n \in Sessions : agentes[n] # None /\ agent[agentes[n]] # "dead"}) + 1

\* agentes.size() + 1
NewSession == Cardinality({n \in Sessions : agentes[n] # None}) + 1

\* The answer is on its way and the Agente runs before it is in the map.
AcceptClient ==
    LET c == Head(queue)
    IN  /\ Accepts(Clients) /\ client[c] \in {"waiting", "gone"}
        /\ who' = c /\ pc' = "put"
        /\ sessao' = [sessao EXCEPT ![c] = NewSession]
        /\ client' = [client EXCEPT ![c] = IF @ = "waiting" THEN "answered" ELSE @]
        /\ AgentBecomes(c, "running")
        /\ UNCHANGED <<screen, draws, toAgent, dados, pendentes, sockSuporte, agentes, sup,
                       pos, size, supportVars, freed, direct, doubt>>

\* Mutant: run() in the place of start().
Put_Waits ==
    /\ pc = "put" /\ agent[who] = "dead"
    /\ AcceptAgain
    /\ agentes' = [agentes EXCEPT ![sessao[who]] = who]
    /\ UNCHANGED <<clientVars, toAgent, agentVars, queue, supportVars, freed, direct>>

Put ==
    /\ pc = "put"
    /\ AcceptAgain
    /\ agentes' = [agentes EXCEPT ![sessao[who]] = who]
    /\ UNCHANGED <<clientVars, toAgent, agentVars, queue, supportVars, freed, direct>>

\* "verifica a chave": the session is looked up, then its key compared.  A
\* support that sent them may have left since.
AcceptSupport ==
    LET s == Head(queue)
        Answer(a) == support' = [support EXCEPT ![s] = IF @ = "asking" THEN a ELSE @]
    IN  /\ Accepts(Supports) /\ support[s] \in {"asking", "left"} /\ asked[s] # <<>>
        /\ IF agentes[asked[s][1]] # asked[s][2]
           THEN Answer("refused") /\ UNCHANGED <<pc, who, sup, pos>>
           ELSE /\ Answer("connected")
                /\ pc' = "send" /\ who' = asked[s][2] /\ sup' = s /\ pos' = 1
        /\ UNCHANGED <<clientVars, toAgent, agentVars, agentes, size, asked, view, freed,
                       direct, doubt>>

\* What was read is no number (nothing was sent, a part of it came, something else
\* was typed), or the answer cannot be written: nothing catches the exception.
AcceptFails ==
    /\ Accepts(Clients \cup Supports)
    /\ IF Head(queue) \in Clients THEN client[Head(queue)] # "connecting"
                               ELSE support[Head(queue)] # "dialing"
    /\ pc' = "dead"
    /\ UNCHANGED <<clientVars, toAgent, agentVars, agentes, who, sup, pos, size, supportVars,
                   freed, direct, doubt>>

\* A write to the support: it arrives, or is lost, or fails when the support has left.
Shows(v) ==
    IF support[sup] = "connected" THEN view' = [view EXCEPT ![sup] = Over(@, v)] ELSE UNCHANGED view

CentralOnly == UNCHANGED <<clientVars, toAgent, agent, dados, pendentes, agentes, queue,
                           support, asked, freed, direct>>

\* AgenteSuporte: the screen as the terminal sent it first.  A line that has not
\* come yet is a NullPointerException, which nothing catches.
SendLine ==
    /\ pc = "send" /\ pos <= Lines
    /\ IF \E p \in Row(pos) : dados[who][p] = 0 THEN pc' = "dead" /\ UNCHANGED <<pos, view>>
       ELSE /\ Shows(Message("DADOS", dados[who], Row(pos)).v)
            /\ pos' = pos + 1 /\ UNCHANGED pc
    /\ UNCHANGED <<who, sup, size, sockSuporte, doubt>> /\ CentralOnly

\* setSockSuporte.  What went to an earlier support is in no list.
SetSock ==
    /\ pc = "send" /\ pos > Lines
    /\ sockSuporte' = [sockSuporte EXCEPT ![who] = sup]
    /\ pc' = "replay" /\ pos' = 1 /\ size' = Len(pendentes[who])
    /\ doubt' = direct[who]
    /\ UNCHANGED <<who, sup, view>> /\ CentralOnly

\* The iterator of an ArrayList to which the Agente has added in the meantime:
\* ConcurrentModificationException.
Replay ==
    /\ pc = "replay" /\ pos # Len(pendentes[who]) + 1
    /\ IF size # Len(pendentes[who]) THEN pc' = "dead" /\ UNCHANGED <<pos, view>>
       ELSE Shows(pendentes[who][pos].v) /\ pos' = pos + 1 /\ UNCHANGED pc
    /\ UNCHANGED <<who, sup, size, sockSuporte, doubt>> /\ CentralOnly

Replayed ==
    /\ pc = "replay" /\ pos = Len(pendentes[who]) + 1
    /\ pc' = "relay" /\ pos' = 0 /\ size' = 0
    /\ UNCHANGED <<who, sup, view, sockSuporte, doubt>> /\ CentralOnly

\* A write that failed ends the constructor, or the replay.
SendFails ==
    /\ pc \in {"send", "replay"} /\ support[sup] = "left"
    /\ IF pc = "send" THEN AcceptAgain
       ELSE pc' = "relay" /\ pos' = 0 /\ size' = 0 /\ UNCHANGED <<who, sup, doubt>>
    /\ UNCHANGED <<view, sockSuporte>> /\ CentralOnly

\* The thread reads what the support types until the support leaves.
RelayEnds ==
    /\ pc = "relay" /\ support[sup] = "left"
    /\ AcceptAgain
    /\ UNCHANGED <<view, sockSuporte>> /\ CentralOnly

\* What it types cannot be written to the terminal.
RelayFails ==
    /\ pc = "relay" /\ client[who] = "gone"
    /\ AcceptAgain
    /\ UNCHANGED <<view, sockSuporte>> /\ CentralOnly

Serve == Put \/ SendLine \/ SetSock \/ Replay \/ Replayed \/ SendFails \/ RelayEnds

Central == AcceptClient \/ AcceptSupport \/ AcceptFails \/ Serve

--------------------------------------------------------------------------------
(* The support: Suporte.java                                               *)

Dial(s) ==
    /\ support[s] = "off"
    /\ support' = [support EXCEPT ![s] = "dialing"]
    /\ queue' = Append(queue, s)
    /\ UNCHANGED <<clientVars, toAgent, agentVars, agentes, centralVars, asked, view, freed,
                   direct, doubt>>

\* What was typed: the number and the key of a terminal, or neither.
Ask(s, typed) ==
    /\ support[s] = "dialing"
    /\ support' = [support EXCEPT ![s] = "asking"]
    /\ asked' = [asked EXCEPT ![s] = typed]
    /\ UNCHANGED <<clientVars, toAgent, agentVars, agentes, queue, centralVars, view, freed,
                   direct, doubt>>

Keys == {<<>>} \cup {<<sessao[c], c>> : c \in {k \in Clients : sessao[k] # 0}}

Leave(s) ==
    /\ support[s] \in {"dialing", "asking", "connected"}
    /\ support' = [support EXCEPT ![s] = "left"]
    /\ view' = [view EXCEPT ![s] = [p \in Cells |-> 0]]
    /\ UNCHANGED <<clientVars, toAgent, agentVars, agentes, queue, centralVars, asked, freed,
                   direct, doubt>>

Next ==
    \/ \E c \in Clients :
           \/ Connect(c) \/ SendKey(c) \/ compartilha(c) \/ Agente(c)
           \/ \E r \in Regions : Draw(c, r)
           \/ \E how \in {"STOP", "EOF"} : Close(c, how)
    \/ Central \/ RelayFails
    \/ \E s \in Supports : Dial(s) \/ Leave(s) \/ \E typed \in Keys : Ask(s, typed)

\* The threads of the server run; who has connected sends its key, and its screen
\* when answered, or dies; nobody has to draw, to type, to leave or to stop.
Spec ==
    /\ Init /\ [][Next]_vars
    /\ WF_vars(Central)
    /\ \A c \in Clients : WF_vars(Agente(c)) /\ WF_vars(SendKey(c)) /\ WF_vars(compartilha(c))
    /\ \A s \in Supports : WF_vars(\E typed \in Keys : Ask(s, typed))

--------------------------------------------------------------------------------
(* Properties                                                              *)

\* Central.java: while no session has ended by STOP every terminal that shares
\* its screen is found under the number it shows, also when others have died.
Reachable ==
    ~freed /\ pc # "put"
    => \A c \in Clients : client[c] \in {"answered", "sharing"} => agentes[sessao[c]] = c

\* Nothing is on its way from terminal c to the support s that is connected to it.
Quiet(c, s) ==
    /\ pc = "relay" /\ who = c /\ sup = s /\ support[s] = "connected"
    /\ agent[c] = "running" /\ toAgent[c] = <<>>

\* Agente.java: once nothing is on its way the support sees every cell as the
\* terminal last sent it, but for a cell that was refreshed directly for an earlier
\* support and not since, or whose REFRESH overtook an older one in the replay of
\* pendentes, or was added to pendentes after the replay.
Mirror ==
    \A c \in Clients, s \in Supports :
        Quiet(c, s) => \A p \in Cells \ doubt : view[s][p] = screen[c][p]

\* A terminal that connects is answered, unless it dies, or the accepting thread
\* serves a support, which it does for as long as that stays, or has died.
Answered ==
    \A c \in Clients :
        client[c] \in {"connecting", "waiting"}
        ~> client[c] \notin {"connecting", "waiting"} \/ pc \in {"relay", "dead"}
================================================================================
