----------------------------- MODULE SharingProofs -----------------------------
(***************************************************************************)
(* Proofs about Sharing, for any terminals, supports and screens.  While   *)
(* no session has ended by STOP the numbers Central gives are a segment    *)
(* 1 .. m without repetition, so that each terminal is found under the     *)
(* number it shows.  What the support sees of a cell is what was last sent *)
(* of it, if not the replay of pendentes or a direct write came between.   *)
(***************************************************************************)
EXTENDS Sharing, Integers, FiniteSetTheorems, WellFoundedInduction, TLAPS

\* A non-empty set of naturals has a least element.
LEMMA LeastExists ==
    ASSUME NEW S, S \subseteq Nat, S # {}
    PROVE  \E m \in S : \A j \in S : m <= j
<1>1. PICK m \in S : \A j \in S : ~ (<<j, m>> \in OpToRel(<, Nat))
  BY NatLessThanWellFounded, WFMin, Zenon
<1>2. \A j \in S : <<j, m>> \in OpToRel(<, Nat) <=> j < m
  BY DEF OpToRel
<1>3. \A j \in S : ~ (j < m)
  BY <1>1, <1>2, Zenon
<1> QED  BY <1>3

\* A bounded one has a greatest element.
LEMMA GreatestExists ==
    ASSUME NEW S, S \subseteq Nat, S # {}, NEW b \in Nat, \A j \in S : j <= b
    PROVE  \E m \in S : \A j \in S : m >= j
<1> DEFINE T == {b - j : j \in S}
<1>1. ASSUME NEW j \in S  PROVE j \in Nat /\ b - j \in Nat
  BY <1>1
<1>2. T \subseteq Nat /\ T # {}
  BY <1>1
<1>3. PICK t \in T : \A u \in T : t <= u
  BY <1>2, LeastExists
<1>4. PICK m \in S : t = b - m
  BY <1>3
<1>5. ASSUME NEW j \in S  PROVE m >= j
  <2>1. b - m <= b - j
    BY <1>3, <1>4
  <2> QED  BY <1>1, <2>1
<1> QED  BY <1>5

ClientStates == {"off", "connecting", "waiting", "answered", "sharing", "lost", "gone"}
AgentStates == {"none", "running", "adding", "writing", "dead"}

\* The variables the numbering depends on.
TypeInv ==
    /\ client \in [Clients -> ClientStates]
    /\ agent \in [Clients -> AgentStates]
    /\ sessao \in [Clients -> Nat]
    /\ agentes \in [Sessions -> Clients \cup {None}]
    /\ queue \in Seq(Clients \cup Supports)

\* A terminal waits in the queue once, and only until it has an Agente.
QueueInv ==
    /\ \A c \in Clients : client[c] = "off" => agent[c] = "none"
    /\ \A i \in DOMAIN queue : queue[i] \in Clients =>
           client[queue[i]] # "off" /\ agent[queue[i]] = "none"
    /\ \A i, j \in DOMAIN queue : queue[i] = queue[j] /\ queue[i] \in Clients => i = j

\* The Agente that runs and is not in the map yet.
PutInv == pc = "put" => who \in Clients /\ agent[who] # "none"

\* The map: an Agente is under its own number, and there are no gaps.
MapInv ==
    \A n \in Sessions : agentes[n] # None =>
        /\ sessao[agentes[n]] = n /\ agent[agentes[n]] # "none"
        /\ \A k \in 1 .. n : agentes[k] # None

\* The number of the terminal about to be put is the next one.
NextInv ==
    pc = "put" =>
        /\ sessao[who] \in Sessions /\ agentes[sessao[who]] = None
        /\ \A k \in 1 .. (sessao[who] - 1) : agentes[k] # None

\* Every terminal that was answered is in the map, or about to be put there.
FoundInv ==
    \A c \in Clients :
        client[c] \in {"answered", "sharing"} /\ ~ (pc = "put" /\ who = c)
        => sessao[c] \in Sessions /\ agentes[sessao[c]] = c

Inv == TypeInv /\ QueueInv /\ PutInv /\ (~freed => MapInv /\ NextInv /\ FoundInv)

--------------------------------------------------------------------------------
(* The numbers in use are a segment                                        *)

\* A set of numbers from 1 on without gaps is told by its cardinality.
LEMMA Segment ==
    ASSUME NEW N \in Nat, NEW U \in SUBSET (1 .. N), \A n \in U : \A k \in 1 .. n : k \in U
    PROVE  Cardinality(U) \in Nat /\ U = 1 .. Cardinality(U)
<1>1. CASE U = {}
  <2>1. Cardinality(U) = 0
    BY <1>1, FS_EmptySet
  <2> QED  BY <1>1, <2>1
<1>2. CASE U # {}
  <2>1. U \subseteq Nat /\ \A n \in U : n <= N /\ n >= 1
    OBVIOUS
  <2>2. PICK m \in U : \A n \in U : m >= n
    BY <1>2, <2>1, GreatestExists
  <2>3. m \in Nat /\ m >= 1
    BY <2>1, <2>2
  <2>4. U = 1 .. m
    <3>1. \A k \in 1 .. m : k \in U
      OBVIOUS
    <3>2. \A n \in U : n \in 1 .. m
      BY <2>1, <2>2, <2>3
    <3> QED  BY <3>1, <3>2
  <2>5. Cardinality(1 .. m) = m
    BY <2>3, FS_Interval
  <2> QED  BY <2>3, <2>4, <2>5
<1> QED  BY <1>1, <1>2

\* The sessions are numbered by naturals.
LEMMA SessionsType == Cardinality(Clients) \in Nat
BY PartiesAssumption, FS_CardinalityType

\* agentes.size() + 1 is free while a terminal waits: the map has another Agente
\* under each number below it, and there are no more numbers than terminals.
LEMMA NewNumber ==
    ASSUME TypeInv, MapInv, NEW c \in Clients, agent[c] = "none"
    PROVE  /\ NewSession \in Sessions /\ agentes[NewSession] = None
           /\ \A k \in 1 .. (NewSession - 1) : agentes[k] # None
<1> DEFINE U == {n \in Sessions : agentes[n] # None}
           N == Cardinality(Clients)
           f == [n \in U |-> agentes[n]]
           T == Clients \ {c}
<1>1. N \in Nat /\ U \in SUBSET (1 .. N)
  BY SessionsType DEF Sessions
<1>2. \A n \in U : \A k \in 1 .. n : k \in U
  BY <1>1 DEF MapInv, Sessions
<1>3. Cardinality(U) \in Nat /\ U = 1 .. Cardinality(U)
  BY <1>1, <1>2, Segment, Zenon
<1>4. f \in [U -> T]
  BY DEF TypeInv, MapInv
<1>5. \A m, n \in U : f[m] = f[n] => m = n
  BY DEF MapInv
<1>6. f \in Injection(U, T)
  BY <1>4, <1>5 DEF Injection, IsInjective
<1>7. IsFiniteSet(T) /\ Cardinality(T) = N - 1
  BY PartiesAssumption, FS_RemoveElement
<1>8. Cardinality(U) <= N - 1
  BY <1>6, <1>7, FS_Injection
<1>9. NewSession = Cardinality(U) + 1
  BY DEF NewSession
<1>10. NewSession \in Sessions /\ NewSession \notin U
  <2> HIDE DEF U
  <2> QED  BY <1>1, <1>3, <1>8, <1>9 DEF Sessions
<1>11. \A k \in 1 .. (NewSession - 1) : k \in U
  <2> HIDE DEF U
  <2> QED  BY <1>3, <1>9
<1> QED  BY <1>10, <1>11

--------------------------------------------------------------------------------
(* The steps                                                               *)

\* The invariant holds when the server is started.
LEMMA SharingInit == Init => Inv
<1> SUFFICES ASSUME Init PROVE Inv
  OBVIOUS
<1>1. client \in [Clients -> {"off", "gone"}]
  BY DEF Init
<1>2. TypeInv
  BY <1>1 DEF Init, TypeInv, ClientStates, AgentStates
<1>3. QueueInv /\ PutInv
  BY DEF Init, QueueInv, PutInv
<1>4. MapInv /\ NextInv
  BY DEF Init, MapInv, NextInv
<1>5. FoundInv
  BY <1>1 DEF FoundInv
<1> QED  BY <1>2, <1>3, <1>4, <1>5 DEF Inv

numbering == <<client, sessao, agentes, queue, freed>>

\* An Agente that runs goes on, or ends.
OnlyRuns ==
    /\ agent' \in [Clients -> AgentStates]
    /\ \A c \in Clients : agent'[c] = "none" <=> agent[c] = "none"

\* Steps that leave the numbering alone, and do not begin or end a Put.
LEMMA ElsewhereKeeps ==
    ASSUME Inv, UNCHANGED numbering, OnlyRuns,
           (pc # "put" /\ pc' # "put") \/ UNCHANGED <<pc, who>>
    PROVE  Inv'
<1> USE DEF numbering, OnlyRuns
<1>0. \A n \in Sessions : agentes[n] # None => agentes[n] \in Clients
  BY DEF Inv, TypeInv
<1>1. CASE pc # "put" /\ pc' # "put"
  <2>1. TypeInv' /\ QueueInv' /\ PutInv'
    BY <1>1 DEF Inv, TypeInv, QueueInv, PutInv, Sessions
  <2>2. ~freed' => MapInv'
    BY <1>0, <1>1 DEF Inv, MapInv, Sessions
  <2>3. ~freed' => NextInv' /\ FoundInv'
    BY <1>1 DEF Inv, NextInv, FoundInv, Sessions
  <2> QED  BY <2>1, <2>2, <2>3 DEF Inv
<1>2. CASE UNCHANGED <<pc, who>>
  <2>1. TypeInv' /\ QueueInv' /\ PutInv'
    BY <1>2 DEF Inv, TypeInv, QueueInv, PutInv, Sessions
  <2>2. ~freed' => MapInv'
    BY <1>0, <1>2 DEF Inv, MapInv, Sessions
  <2>3. ~freed' => NextInv' /\ FoundInv'
    BY <1>2 DEF Inv, NextInv, FoundInv, Sessions
  <2> QED  BY <2>1, <2>2, <2>3 DEF Inv
<1> QED  BY <1>1, <1>2

\* A terminal that has connected goes on to share its screen, and to leave.
LEMMA ClientKeeps ==
    ASSUME Inv, NEW c \in Clients, NEW state \in {"waiting", "sharing", "lost", "gone"},
           client[c] # "off", state = "sharing" => client[c] \in {"answered", "sharing"},
           client' = [client EXCEPT ![c] = state],
           UNCHANGED <<sessao, agent, agentes, queue, freed, pc, who>>
    PROVE  Inv'
<1>1. TypeInv'
  BY DEF Inv, TypeInv, ClientStates, Sessions
<1>2. QueueInv' /\ PutInv'
  BY DEF Inv, TypeInv, QueueInv, PutInv
<1>3. ASSUME ~freed PROVE MapInv' /\ NextInv'
  BY <1>3 DEF Inv, TypeInv, MapInv, NextInv, Sessions
<1>4. ASSUME ~freed PROVE FoundInv'
  BY <1>4 DEF Inv, TypeInv, FoundInv, Sessions
<1> QED  BY <1>1, <1>2, <1>3, <1>4 DEF Inv

\* A terminal comes: it was in no queue and has no number.
LEMMA ConnectKeeps == ASSUME Inv, NEW c \in Clients, Connect(c) PROVE Inv'
<1> USE DEF Connect, agentVars, centralVars, clientVars
<1>1. TypeInv'
  BY DEF Inv, TypeInv, ClientStates, Sessions
<1>2. queue' = Append(queue, c) /\ queue \in Seq(Clients \cup Supports)
  BY DEF Inv, TypeInv
<1>3. QueueInv'
  <2>1. \A i \in DOMAIN queue' : queue'[i] \in Clients =>
            client'[queue'[i]] # "off" /\ agent'[queue'[i]] = "none"
    BY <1>2 DEF Inv, TypeInv, QueueInv
  <2>2. \A i \in DOMAIN queue : queue[i] # c
    BY DEF Inv, TypeInv, QueueInv
  <2>3. \A i, j \in DOMAIN queue' : queue'[i] = queue'[j] /\ queue'[i] \in Clients => i = j
    BY <1>2, <2>2 DEF Inv, QueueInv
  <2>4. \A k \in Clients : client'[k] = "off" => agent'[k] = "none"
    BY DEF Inv, TypeInv, QueueInv
  <2> QED  BY <2>1, <2>3, <2>4 DEF QueueInv
<1>4. PutInv'
  BY DEF Inv, TypeInv, PutInv
<1>5. ASSUME ~freed PROVE MapInv' /\ NextInv'
  BY <1>5 DEF Inv, TypeInv, MapInv, NextInv, Sessions
<1>6. ASSUME ~freed PROVE FoundInv'
  BY <1>6 DEF Inv, TypeInv, FoundInv, Sessions
<1> QED  BY <1>1, <1>3, <1>4, <1>5, <1>6 DEF Inv

\* A support connects: it is no terminal.
LEMMA DialKeeps ==
    ASSUME Inv, NEW s \in Supports, queue' = Append(queue, s),
           UNCHANGED <<client, sessao, agent, agentes, freed, pc, who>>
    PROVE  Inv'
<1>1. TypeInv'
  BY DEF Inv, TypeInv, Sessions
<1>2. s \notin Clients /\ queue \in Seq(Clients \cup Supports)
  BY PartiesAssumption DEF Inv, TypeInv
<1>3. QueueInv'
  BY <1>2 DEF Inv, QueueInv
<1>4. PutInv' /\ (~freed' => MapInv' /\ NextInv' /\ FoundInv')
  BY DEF Inv, PutInv, MapInv, NextInv, FoundInv, Sessions
<1> QED  BY <1>1, <1>3, <1>4 DEF Inv

\* The first of the queue leaves it.
LEMMA TailKeeps ==
    ASSUME TypeInv, QueueInv, queue # <<>>
    PROVE  /\ Tail(queue) \in Seq(Clients \cup Supports)
           /\ \A i \in DOMAIN Tail(queue) : i + 1 \in DOMAIN queue /\ Tail(queue)[i] = queue[i + 1]
           /\ \A i \in DOMAIN Tail(queue) : Head(queue) \in Clients => Tail(queue)[i] # Head(queue)
<1>1. queue \in Seq(Clients \cup Supports)
  BY DEF TypeInv
<1>2. /\ Tail(queue) \in Seq(Clients \cup Supports)
      /\ \A i \in DOMAIN Tail(queue) : i + 1 \in DOMAIN queue /\ Tail(queue)[i] = queue[i + 1]
      /\ Head(queue) = queue[1] /\ 1 \in DOMAIN queue
  BY <1>1
<1>3. ASSUME NEW i \in DOMAIN Tail(queue), Head(queue) \in Clients
      PROVE  Tail(queue)[i] # Head(queue)
  <2>1. i + 1 # 1
    BY <1>1
  <2> QED  BY <1>2, <1>3, <2>1 DEF QueueInv
<1> QED  BY <1>2, <1>3

\* A connection is taken from the queue, and served, refused or the last one.
LEMMA AcceptOtherKeeps == ASSUME Inv, AcceptSupport \/ AcceptFails PROVE Inv'
<1> USE DEF AcceptSupport, AcceptFails, Accepts, clientVars, agentVars
<1>1. queue' = Tail(queue) /\ queue # <<>> /\ pc # "put" /\ pc' # "put"
  OBVIOUS
<1>2. UNCHANGED <<client, sessao, agent, agentes, freed>>
  OBVIOUS
<1>3. TypeInv'
  BY <1>1, <1>2, TailKeeps DEF Inv, TypeInv, Sessions
<1>4. QueueInv'
  BY <1>1, <1>2, TailKeeps DEF Inv, QueueInv
<1>5. PutInv' /\ (~freed' => MapInv' /\ NextInv' /\ FoundInv')
  BY <1>1, <1>2 DEF Inv, PutInv, MapInv, NextInv, FoundInv, Sessions
<1> QED  BY <1>3, <1>4, <1>5 DEF Inv

\* A terminal gets its number: the next one, that nobody has.
LEMMA AcceptClientKeeps == ASSUME Inv, AcceptClient PROVE Inv'
<1> DEFINE c == Head(queue)
<1>1. /\ c \in Clients /\ queue # <<>> /\ queue' = Tail(queue)
      /\ pc = "accept" /\ pc' = "put" /\ who' = c
      /\ sessao' = [sessao EXCEPT ![c] = NewSession]
      /\ client' = [client EXCEPT ![c] = client'[c]] /\ client'[c] \in {"answered", "gone"}
      /\ agent' = [agent EXCEPT ![c] = "running"]
      /\ agentes' = agentes /\ freed' = freed
  BY DEF AcceptClient, Accepts, AgentBecomes, Inv, TypeInv
<1>2. agent[c] = "none"
  BY <1>1 DEF Inv, TypeInv, QueueInv
<1>3. NewSession \in Nat
  <2>1. Cardinality({n \in Sessions : agentes[n] # None}) \in Nat
    <3> DEFINE U == {n \in Sessions : agentes[n] # None}
    <3>1. U \in SUBSET Sessions
      OBVIOUS
    <3>2. IsFiniteSet(Sessions)
      BY SessionsType, FS_Interval DEF Sessions
    <3>3. IsFiniteSet(U)
      BY <3>1, <3>2, FS_Subset
    <3> QED  BY <3>3, FS_CardinalityType
  <2> QED  BY <2>1 DEF NewSession
<1> HIDE DEF c
<1>4. TypeInv'
  BY <1>1, <1>3, TailKeeps DEF Inv, TypeInv, ClientStates, AgentStates, Sessions
<1>5. QueueInv'
  <2>1. \A i \in DOMAIN queue' : queue'[i] # c
    BY <1>1, TailKeeps DEF Inv, c
  <2>2. \A i \in DOMAIN queue' : queue'[i] \in Clients =>
            client[queue'[i]] # "off" /\ agent[queue'[i]] = "none"
    BY <1>1, TailKeeps DEF Inv, QueueInv
  <2>3. \A i \in DOMAIN queue' : queue'[i] \in Clients =>
            client'[queue'[i]] # "off" /\ agent'[queue'[i]] = "none"
    BY <1>1, <2>1, <2>2 DEF Inv, TypeInv
  <2>4. \A i, j \in DOMAIN queue' : queue'[i] = queue'[j] /\ queue'[i] \in Clients => i = j
    <3> SUFFICES ASSUME NEW i \in DOMAIN queue', NEW j \in DOMAIN queue',
                        queue'[i] = queue'[j], queue'[i] \in Clients
                 PROVE  i = j
      OBVIOUS
    <3>1. i + 1 = j + 1
      BY <1>1, TailKeeps DEF Inv, QueueInv
    <3>2. i \in Nat /\ j \in Nat
      BY <1>4 DEF TypeInv
    <3> QED  BY <3>1, <3>2
  <2>5. \A k \in Clients : client'[k] = "off" => agent'[k] = "none"
    BY <1>1 DEF Inv, TypeInv, QueueInv
  <2> QED  BY <2>3, <2>4, <2>5 DEF QueueInv
<1>6. PutInv'
  BY <1>1 DEF Inv, TypeInv, PutInv
<1>7. ASSUME ~freed PROVE MapInv' /\ NextInv' /\ FoundInv'
  <2>1. MapInv /\ FoundInv
    BY <1>7 DEF Inv
  <2>2. /\ NewSession \in Sessions /\ agentes[NewSession] = None
        /\ \A k \in 1 .. (NewSession - 1) : agentes[k] # None
    BY <1>1, <1>2, <2>1, NewNumber DEF Inv
  <2>3. \A n \in Sessions : agentes[n] # None => agentes[n] \in Clients /\ agentes[n] # c
    BY <1>2, <2>1 DEF Inv, TypeInv, MapInv
  <2>4. MapInv'
    BY <1>1, <2>1, <2>3 DEF Inv, TypeInv, MapInv, Sessions
  <2>5. NextInv'
    BY <1>1, <2>2 DEF Inv, TypeInv, NextInv, Sessions
  <2>6. FoundInv'
    BY <1>1, <2>1 DEF Inv, TypeInv, FoundInv, Sessions
  <2> QED  BY <2>4, <2>5, <2>6
<1> QED  BY <1>1, <1>4, <1>5, <1>6, <1>7 DEF Inv

\* The Agente is put into the map under the number that was free.
LEMMA PutKeeps == ASSUME Inv, Put PROVE Inv'
<1>1. /\ pc = "put" /\ pc' = "accept"
      /\ agentes' = [agentes EXCEPT ![sessao[who]] = who]
      /\ UNCHANGED <<client, sessao, agent, queue, freed>>
  BY DEF Put, AcceptAgain, clientVars, agentVars
<1>2. who \in Clients /\ agent[who] # "none"
  BY <1>1 DEF Inv, PutInv
<1>3. TypeInv'
  BY <1>1, <1>2 DEF Inv, TypeInv, Sessions
<1>4. QueueInv' /\ PutInv'
  BY <1>1 DEF Inv, QueueInv, PutInv
<1>5. ASSUME ~freed PROVE MapInv' /\ NextInv' /\ FoundInv'
  <2>1. /\ sessao[who] \in Sessions /\ agentes[sessao[who]] = None
        /\ \A k \in 1 .. (sessao[who] - 1) : agentes[k] # None
    BY <1>1, <1>5 DEF Inv, NextInv
  <2>2. \A n \in Sessions : agentes'[n] = IF n = sessao[who] THEN who ELSE agentes[n]
    BY <1>1, <2>1 DEF Inv, TypeInv
  <2>3. who # None
    BY <1>2, PartiesAssumption
  <2>4. MapInv'
    <3> SUFFICES ASSUME NEW n \in Sessions, agentes'[n] # None
                 PROVE  /\ sessao[agentes'[n]] = n
                        /\ agent[agentes'[n]] # "none"
                        /\ \A k \in 1 .. n : agentes'[k] # None
      BY <1>1 DEF MapInv, Sessions
    <3>1. MapInv
      BY <1>5 DEF Inv
    <3>2. \A k \in 1 .. n : k \in Sessions /\ n \in Nat /\ k \in Nat
      BY SessionsType DEF Sessions
    <3>3. CASE n = sessao[who]
      BY <1>2, <2>1, <2>2, <2>3, <3>2, <3>3
    <3>4. CASE n # sessao[who]
      BY <2>2, <2>3, <3>1, <3>2, <3>4 DEF MapInv
    <3> QED  BY <3>3, <3>4
  <2>5. NextInv'
    BY <1>1 DEF NextInv
  <2>6. FoundInv'
    <3> SUFFICES ASSUME NEW c \in Clients, client[c] \in {"answered", "sharing"}
                 PROVE  sessao[c] \in Sessions /\ agentes'[sessao[c]] = c
      BY <1>1 DEF FoundInv, Sessions
    <3>1. CASE c = who
      BY <2>1, <2>2, <3>1
    <3>2. CASE c # who
      <4>1. sessao[c] \in Sessions /\ agentes[sessao[c]] = c
        BY <1>5, <3>2 DEF Inv, FoundInv
      <4>2. sessao[c] # sessao[who]
        BY <2>1, <4>1, PartiesAssumption
      <4> QED  BY <2>2, <4>1, <4>2
    <3> QED  BY <3>1, <3>2
  <2> QED  BY <2>4, <2>5, <2>6
<1> QED  BY <1>1, <1>3, <1>4, <1>5 DEF Inv

\* STOP takes a number out of the map: from there on nothing is promised.
LEMMA StopKeeps == ASSUME Inv, NEW c \in Clients, AgentStop(c) PROVE Inv'
<1>1. /\ freed' = TRUE /\ UNCHANGED <<client, sessao, queue, pc, who>>
      /\ agent[c] = "running" /\ agent' = [agent EXCEPT ![c] = "dead"]
  BY DEF AgentStop, Reads, AgentBecomes, clientVars, centralVars
<1>2. TypeInv'
  BY <1>1 DEF AgentStop, Inv, TypeInv, AgentStates, Sessions
<1>3. QueueInv' /\ PutInv'
  BY <1>1 DEF Inv, TypeInv, QueueInv, PutInv
<1> QED  BY <1>1, <1>2, <1>3 DEF Inv

\* Every step keeps the invariant.
LEMMA SharingStep == Inv /\ [Next]_vars => Inv'
<1> SUFFICES ASSUME Inv, [Next]_vars PROVE Inv'
  OBVIOUS
<1> USE DEF numbering, clientVars, agentVars, centralVars, supportVars
<1>0. UNCHANGED agent => OnlyRuns
  BY DEF OnlyRuns, Inv, TypeInv
<1>1. ASSUME NEW c \in Clients, Connect(c) PROVE Inv'
  BY <1>1, ConnectKeeps
<1>2. ASSUME NEW c \in Clients, compartilha(c) \/ SendKey(c) PROVE Inv'
  BY <1>2, ClientKeeps DEF compartilha, SendKey
<1>3. ASSUME NEW c \in Clients, NEW how \in {"STOP", "EOF"}, Close(c, how) PROVE Inv'
  <2>1. PICK state \in {"lost", "gone"} : client' = [client EXCEPT ![c] = state]
    BY <1>3 DEF Close
  <2> QED  BY <1>3, <2>1, ClientKeeps DEF Close
<1>4. ASSUME NEW c \in Clients, NEW r \in Regions, Draw(c, r) PROVE Inv'
  <2>1. UNCHANGED numbering /\ UNCHANGED <<pc, who, agent>>
    BY <1>4 DEF Draw
  <2> QED  BY <1>0, <2>1, ElsewhereKeeps
<1>5. ASSUME NEW c \in Clients, Agente(c) PROVE Inv'
  <2>1. CASE AgentStop(c)
    BY <2>1, StopKeeps
  <2>2. CASE AgentDados(c) \/ AgentRefresh(c) \/ AgentAdd(c) \/ AgentWrite(c) \/ AgentReturns(c)
    <3>1. UNCHANGED numbering /\ UNCHANGED <<pc, who>>
      BY <2>2 DEF AgentDados, AgentRefresh, AgentAdd, AgentWrite, AgentReturns
    <3>2. /\ agent[c] \in {"running", "adding", "writing"}
          /\ agent' = agent \/ \E state \in AgentStates \ {"none"} : agent' = [agent EXCEPT ![c] = state]
      BY <2>2 DEF AgentDados, AgentRefresh, AgentAdd, AgentWrite, AgentReturns, Reads, AgentBecomes,
                  AgentStates
    <3>3. OnlyRuns
      BY <1>0, <3>2 DEF OnlyRuns, Inv, TypeInv
    <3> QED  BY <3>1, <3>3, ElsewhereKeeps
  <2> QED  BY <1>5, <2>1, <2>2 DEF Agente
<1>6. ASSUME Central \/ RelayFails PROVE Inv'
  <2>1. CASE AcceptClient
    BY <2>1, AcceptClientKeeps
  <2>2. CASE AcceptSupport \/ AcceptFails
    BY <2>2, AcceptOtherKeeps
  <2>3. CASE Put
    BY <2>3, PutKeeps
  <2>4. CASE SendLine \/ SetSock \/ Replay \/ Replayed \/ SendFails \/ RelayEnds \/ RelayFails
    <3>1. UNCHANGED numbering /\ UNCHANGED agent /\ pc # "put" /\ pc' # "put"
      BY <2>4 DEF SendLine, SetSock, Replay, Replayed, SendFails, RelayEnds, RelayFails,
                  CentralOnly, AcceptAgain
    <3> QED  BY <1>0, <3>1, ElsewhereKeeps
  <2> QED  BY <1>6, <2>1, <2>2, <2>3, <2>4 DEF Central, Serve
<1>7. ASSUME NEW s \in Supports, Leave(s) \/ \E typed \in Keys : Ask(s, typed) PROVE Inv'
  <2>1. UNCHANGED numbering /\ UNCHANGED <<pc, who, agent>>
    BY <1>7 DEF Leave, Ask
  <2> QED  BY <1>0, <2>1, ElsewhereKeeps
<1>8. ASSUME NEW s \in Supports, Dial(s) PROVE Inv'
  BY <1>8, DialKeeps DEF Dial
<1>9. CASE UNCHANGED vars
  BY <1>0, <1>9, ElsewhereKeeps DEF vars
<1> QED  BY <1>1, <1>2, <1>3, <1>4, <1>5, <1>6, <1>7, <1>8, <1>9 DEF Next

\* Central.java: for any number of terminals and supports, while no session has
\* ended by STOP each terminal that was answered is found under its number.
THEOREM ReachableCorrect == Spec => []Reachable
<1>1. Inv => Reachable
  BY DEF Inv, FoundInv, Reachable
<1> QED  BY SharingInit, SharingStep, <1>1, PTL DEF Spec

--------------------------------------------------------------------------------
(* What the support sees                                                   *)

\* Some cells of a screen.
Parts == UNION {[S -> Nat] : S \in SUBSET Cells}
Messages == [cmd : {"DADOS", "REFRESH", "STOP", "EOF"}, v : Parts]

ScreenTypes ==
    /\ screen \in [Clients -> [Cells -> Nat]]
    /\ dados \in [Clients -> [Cells -> Nat]] /\ view \in [Supports -> [Cells -> Nat]]
    /\ toAgent \in [Clients -> Seq(Messages)] /\ pendentes \in [Clients -> Seq(Messages)]

StateTypes ==
    /\ agent \in [Clients -> {"none", "running", "adding", "writing", "dead"}]
    /\ sockSuporte \in [Clients -> Supports \cup {None}]
    /\ support \in [Supports -> {"off", "dialing", "asking", "connected", "refused", "left"}]
    /\ asked \in [Supports -> {<<>>} \cup (Nat \X Clients)]
    /\ direct \in [Clients -> SUBSET Cells]

\* The last of the first n messages of q that is about cell p has the value v;
\* when there is none, v is the value d.
Settled(q, n, d, p, v) ==
    /\ \A i \in 1 .. n : p \in DOMAIN q[i].v /\ (\A j \in 1 .. n : j > i => p \notin DOMAIN q[j].v) => q[i].v[p] = v
    /\ (\A i \in 1 .. n : p \notin DOMAIN q[i].v) => d = v

\* Some message of q is about cell p; the last that is has the value v.
About(q, p) == \E i \in DOMAIN q : p \in DOMAIN q[i].v
LastIs(q, p, v) ==
    \A i \in DOMAIN q : p \in DOMAIN q[i].v /\ (\A j \in DOMAIN q : j > i => p \notin DOMAIN q[j].v) => q[i].v[p] = v

\* A support waits in the queue once, and only until it is answered, and is the
\* support of no terminal; the one that is served is that of no other terminal.
ServedInv ==
    /\ \A i \in DOMAIN queue : queue[i] \in Supports =>
           /\ support[queue[i]] \in {"dialing", "asking", "left"}
           /\ \A c \in Clients : sockSuporte[c] # queue[i]
           /\ pc \in {"send", "replay", "relay"} => sup # queue[i]
    /\ \A i, j \in DOMAIN queue : queue[i] = queue[j] /\ queue[i] \in Supports => i = j
    /\ \A c \in Clients : sockSuporte[c] # None => support[sockSuporte[c]] \in {"connected", "left"}
    /\ pc \in {"send", "replay", "relay"} =>
           /\ who \in Clients /\ sup \in Supports /\ support[sup] \in {"connected", "left"}
           /\ \A c \in Clients : sockSuporte[c] = sup => c = who /\ pc # "send"

\* Before the terminal has sent its screen the Agente has nothing.
Early == {"off", "connecting", "waiting", "answered"}
StageInv ==
    \A c \in Clients : client[c] \in Early =>
        /\ toAgent[c] = <<>> /\ pendentes[c] = <<>>
        /\ \A p \in Cells : dados[c][p] = 0

\* Message i of q has cells of which d has nothing, and the messages before it
\* are other lines of the whole screen.
First(q, i, d) ==
    /\ DOMAIN q[i].v # {} /\ \A p \in DOMAIN q[i].v : d[p] = 0
    /\ \A j \in 1 .. (i - 1) :
           q[j].cmd = "DADOS" /\ \A p \in DOMAIN q[i].v : p \notin DOMAIN q[j].v

\* The lines of the whole screen come first, each once.
FirstInv ==
    \A c \in Clients : \A i \in DOMAIN toAgent[c] : toAgent[c][i].cmd = "DADOS" =>
        pendentes[c] = <<>> /\ First(toAgent[c], i, dados[c])

Alive(c) == agent[c] # "dead"

\* What was sent last of a cell is the last message about it on its way; when
\* there is none, and the Agente has the screen, it is in pendentes, or in
\* dados, unless it went to a support.
StreamInv ==
    \A c \in Clients : Alive(c) => \A p \in Cells :
        /\ LastIs(toAgent[c], p, screen[c][p])
        /\ ~About(toAgent[c], p) /\ p \notin direct[c] /\ dados[c][p] # 0
           => Settled(pendentes[c], Len(pendentes[c]), dados[c][p], p, screen[c][p])

\* AgenteSuporte has sent the lines below pos.
SendInv ==
    pc = "send" =>
        /\ pos \in Nat \ {0}
        /\ \A p \in Cells : p[1] < pos =>
               dados[who][p] # 0 /\ (support[sup] = "connected" => view[sup][p] = dados[who][p])

\* How much of pendentes the support was sent.
Shown == IF pc = "replay" THEN pos - 1 ELSE Len(pendentes[who])

ReplayInv ==
    pc = "replay" => pos \in Nat \ {0} /\ size \in Nat /\ pos <= size + 1 /\ size <= Len(pendentes[who])

\* A cell out of doubt that was never written directly shows what pendentes had
\* for it so far; one that was is not to be replayed, and shows what was sent.
SeenInv ==
    pc \in {"replay", "relay"} =>
        /\ sockSuporte[who] = sup /\ \A p \in Cells : dados[who][p] # 0
        /\ agent[who] # "dead" /\ support[sup] = "connected" => \A p \in Cells \ doubt :
            /\ p \notin direct[who] => Settled(pendentes[who], Shown, dados[who][p], p, view[sup][p])
            /\ p \in direct[who] =>
                   /\ \A i \in (Shown + 1) .. Len(pendentes[who]) : p \notin DOMAIN pendentes[who][i].v
                   /\ ~About(toAgent[who], p) => view[sup][p] = screen[who][p]

MInv ==
    /\ Inv /\ ScreenTypes /\ StateTypes
    /\ ServedInv /\ StageInv /\ FirstInv /\ StreamInv /\ SendInv /\ ReplayInv /\ SeenInv

\* What is left to show of a step: SharingStep is about Inv.
Rest ==
    /\ ScreenTypes /\ StateTypes
    /\ ServedInv /\ StageInv /\ FirstInv /\ StreamInv /\ SendInv /\ ReplayInv /\ SeenInv

--------------------------------------------------------------------------------
(* Cells                                                                   *)

\* A screen with the cells of a message.
LEMMA OverCells ==
    ASSUME NEW f \in [Cells -> Nat], NEW g \in Parts
    PROVE  /\ Over(f, g) \in [Cells -> Nat]
           /\ \A p \in Cells : Over(f, g)[p] = IF p \in DOMAIN g THEN g[p] ELSE f[p]
<1>1. PICK S \in SUBSET Cells : g \in [S -> Nat]
  BY DEF Parts
<1>2. \A p \in DOMAIN g : p \in Cells /\ g[p] \in Nat
  BY <1>1
<1> QED  BY <1>2 DEF Over

\* What a message holds are cells.
LEMMA PartCells == ASSUME NEW m \in Messages PROVE m.v \in Parts /\ DOMAIN m.v \in SUBSET Cells
<1>1. m.v \in Parts
  BY DEF Messages
<1>2. PICK S \in SUBSET Cells : m.v \in [S -> Nat]
  BY <1>1 DEF Parts
<1> QED  BY <1>1, <1>2

\* The message with the cells S of a screen.
LEMMA MessageCells ==
    ASSUME NEW v \in [Cells -> Nat], NEW S \in SUBSET Cells,
           NEW cmd \in {"DADOS", "REFRESH", "STOP", "EOF"}
    PROVE  /\ Message(cmd, v, S) \in Messages /\ Message(cmd, v, S).cmd = cmd
           /\ DOMAIN Message(cmd, v, S).v = S
           /\ \A p \in S : Message(cmd, v, S).v[p] = v[p]
<1>1. [p \in S |-> v[p]] \in [S -> Nat]
  OBVIOUS
<1>2. [p \in S |-> v[p]] \in Parts
  BY <1>1 DEF Parts
<1> QED  BY <1>2 DEF Message, Messages

\* The cells of a line.
LEMMA RowCells ==
    /\ \A p \in Cells : p[1] \in Rows /\ p[1] \in Nat
    /\ \A l \in Rows : /\ Row(l) \in SUBSET Cells /\ Row(l) # {}
                       /\ \A p \in Cells : p \in Row(l) <=> p[1] = l
<1>1. 0 \in Columns
  BY SizeAssumption DEF Columns
<1>2. \A l \in Rows : <<l, 0>> \in Row(l)
  BY <1>1 DEF Row
<1>3. \A p \in Cells : p[1] \in Rows /\ p[1] \in Nat
  BY DEF Cells, Rows
<1>4. \A l \in Rows : Row(l) \in SUBSET Cells /\ \A p \in Cells : p \in Row(l) <=> p[1] = l
  BY DEF Row, Cells
<1> QED  BY <1>2, <1>3, <1>4

--------------------------------------------------------------------------------
(* Sequences of messages                                                   *)

\* Two values of the same cell are the same: there is a last message about it.
LEMMA SettledUnique ==
    ASSUME NEW q, NEW n \in Nat, NEW d, NEW p, NEW v, NEW w,
           Settled(q, n, d, p, v), Settled(q, n, d, p, w)
    PROVE  v = w
<1> DEFINE S == {i \in 1 .. n : p \in DOMAIN q[i].v}
<1>1. CASE S = {}
  BY <1>1 DEF Settled
<1>2. CASE S # {}
  <2>1. S \subseteq Nat /\ \A i \in S : i <= n
    OBVIOUS
  <2>2. PICK m \in S : \A i \in S : m >= i
    BY <1>2, <2>1, GreatestExists
  <2>3. m \in 1 .. n /\ p \in DOMAIN q[m].v /\ \A j \in 1 .. n : j > m => p \notin DOMAIN q[j].v
    BY <2>2
  <2>4. q[m].v[p] = v /\ q[m].v[p] = w
    BY <2>3 DEF Settled
  <2> QED  BY <2>4
<1> QED  BY <1>1, <1>2

\* Only the first n messages matter.
LEMMA SettledPrefix ==
    ASSUME NEW q, NEW r, NEW n \in Nat, NEW d, NEW p, NEW v,
           \A i \in 1 .. n : r[i] = q[i], Settled(q, n, d, p, v)
    PROVE  Settled(r, n, d, p, v)
BY DEF Settled

\* The next message is about other cells, or has the value itself.
LEMMA SettledNext ==
    ASSUME NEW q, NEW n \in Nat, NEW d, NEW p, NEW v,
           IF p \in DOMAIN q[n + 1].v THEN q[n + 1].v[p] = v ELSE Settled(q, n, d, p, v)
    PROVE  Settled(q, n + 1, d, p, v)
<1>1. 1 .. (n + 1) = (1 .. n) \cup {n + 1} /\ \A i \in 1 .. n : n + 1 > i
  OBVIOUS
<1>2. CASE p \in DOMAIN q[n + 1].v
  <2>1. \A i \in 1 .. n : ~ (\A j \in 1 .. (n + 1) : j > i => p \notin DOMAIN q[j].v)
    BY <1>1, <1>2
  <2>2. ~ (\A i \in 1 .. (n + 1) : p \notin DOMAIN q[i].v)
    BY <1>1, <1>2
  <2> QED  BY <1>1, <1>2, <2>1, <2>2 DEF Settled
<1>3. CASE p \notin DOMAIN q[n + 1].v
  <2>1. \A i \in 1 .. n : (\A j \in 1 .. (n + 1) : j > i => p \notin DOMAIN q[j].v)
                          => \A j \in 1 .. n : j > i => p \notin DOMAIN q[j].v
    BY <1>1
  <2> QED  BY <1>1, <1>3, <2>1 DEF Settled
<1> QED  BY <1>2, <1>3

\* pendentes with one more message.
LEMMA SettledAppend ==
    ASSUME NEW q \in Seq(Messages), NEW m \in Messages, NEW d, NEW p, NEW v,
           IF p \in DOMAIN m.v THEN m.v[p] = v ELSE Settled(q, Len(q), d, p, v)
    PROVE  Settled(Append(q, m), Len(Append(q, m)), d, p, v)
<1>1. Len(Append(q, m)) = Len(q) + 1 /\ Len(q) \in Nat /\ Append(q, m)[Len(q) + 1] = m
  OBVIOUS
<1>2. \A i \in 1 .. Len(q) : Append(q, m)[i] = q[i]
  OBVIOUS
<1>3. p \notin DOMAIN m.v => Settled(Append(q, m), Len(q), d, p, v)
  BY <1>1, <1>2, SettledPrefix
<1>4. Settled(Append(q, m), Len(q) + 1, d, p, v)
  BY <1>1, <1>3, SettledNext
<1> QED  BY <1>1, <1>4

\* The first message is read.
LEMMA StreamTail ==
    ASSUME NEW q \in Seq(Messages), q # <<>>
    PROVE  /\ Tail(q) \in Seq(Messages) /\ Head(q) \in Messages /\ Head(q) = q[1]
           /\ 1 \in DOMAIN q
           /\ \A i \in DOMAIN Tail(q) :
                  i \in Nat /\ i >= 1 /\ i + 1 \in DOMAIN q /\ Tail(q)[i] = q[i + 1]
           /\ \A i \in DOMAIN q : i \in Nat /\ (i # 1 => i - 1 \in DOMAIN Tail(q))
OBVIOUS

\* What is left has the same last message.
LEMMA LastTail ==
    ASSUME NEW q \in Seq(Messages), q # <<>>, NEW p, NEW v, LastIs(q, p, v)
    PROVE  /\ LastIs(Tail(q), p, v)
           /\ p \in DOMAIN Head(q).v /\ ~About(Tail(q), p) => Head(q).v[p] = v
           /\ p \notin DOMAIN Head(q).v /\ ~About(Tail(q), p) => ~About(q, p)
<1> DEFINE t == Tail(q)
<1> HIDE DEF t
<1>1. /\ \A i \in DOMAIN t : i \in Nat /\ i >= 1 /\ i + 1 \in DOMAIN q /\ t[i] = q[i + 1]
      /\ \A i \in DOMAIN q : i \in Nat /\ (i # 1 => i - 1 \in DOMAIN t)
      /\ 1 \in DOMAIN q /\ Head(q) = q[1]
  BY StreamTail DEF t
<1>2. \A i \in DOMAIN q : i # 1 => q[i] = t[i - 1]
  <2> SUFFICES ASSUME NEW i \in DOMAIN q, i # 1 PROVE q[i] = t[i - 1]
    OBVIOUS
  <2>1. i \in Nat /\ i - 1 \in DOMAIN t /\ (i - 1) + 1 = i
    BY <1>1
  <2>2. t[i - 1] = q[(i - 1) + 1]
    BY <1>1, <2>1
  <2> QED  BY <2>1, <2>2
<1>3. ASSUME NEW i \in DOMAIN t, p \in DOMAIN t[i].v, \A j \in DOMAIN t : j > i => p \notin DOMAIN t[j].v
      PROVE  t[i].v[p] = v
  <2>1. i \in Nat /\ i + 1 \in DOMAIN q /\ t[i] = q[i + 1]
    BY <1>1
  <2>2. ASSUME NEW j \in DOMAIN q, j > i + 1 PROVE p \notin DOMAIN q[j].v
    <3>1. j \in Nat /\ j # 1 /\ j - 1 \in DOMAIN t /\ j - 1 > i
      BY <1>1, <2>1, <2>2
    <3>2. q[j] = t[j - 1]
      BY <1>2, <3>1
    <3> QED  BY <1>3, <3>1, <3>2
  <2> QED  BY <1>3, <2>1, <2>2 DEF LastIs
<1>4. ASSUME p \in DOMAIN q[1].v, ~About(t, p) PROVE q[1].v[p] = v
  <2>1. ASSUME NEW j \in DOMAIN q, j > 1 PROVE p \notin DOMAIN q[j].v
    <3>1. j # 1
      BY <1>1, <2>1
    <3>2. j - 1 \in DOMAIN t /\ q[j] = t[j - 1]
      BY <1>1, <1>2, <3>1
    <3> QED  BY <1>4, <3>2 DEF About
  <2> QED  BY <1>1, <1>4, <2>1 DEF LastIs
<1>5. ASSUME p \notin DOMAIN q[1].v, ~About(t, p) PROVE ~About(q, p)
  BY <1>1, <1>2, <1>5 DEF About
<1> QED  BY <1>1, <1>3, <1>4, <1>5 DEF LastIs, t

\* The terminal writes more messages.
LEMMA StreamConcat ==
    ASSUME NEW q \in Seq(Messages), NEW r \in Seq(Messages), NEW p, NEW v,
           About(r, p) => \A i \in DOMAIN r : p \in DOMAIN r[i].v => r[i].v[p] = v,
           ~About(r, p) => LastIs(q, p, v)
    PROVE  LastIs(q \o r, p, v) /\ (~About(q \o r, p) => ~About(q, p) /\ ~About(r, p))
<1> DEFINE s == q \o r
           n == Len(q)
<1>1. n \in Nat /\ DOMAIN q = 1 .. n /\ s \in Seq(Messages)
  OBVIOUS
<1>2. \A i \in DOMAIN s : i \in Nat
  BY <1>1
<1>3. \A i \in DOMAIN q : i \in DOMAIN s /\ s[i] = q[i] /\ i <= n
  OBVIOUS
<1>4. \A i \in DOMAIN r : i \in Nat /\ n + i \in DOMAIN s /\ s[n + i] = r[i] /\ n + i > n
  OBVIOUS
<1>5. \A i \in DOMAIN s : i \in DOMAIN q \/ (i - n \in DOMAIN r /\ s[i] = r[i - n] /\ i > n)
  OBVIOUS
<1> HIDE DEF s, n
<1>6. LastIs(s, p, v)
  <2> SUFFICES ASSUME NEW i \in DOMAIN s, p \in DOMAIN s[i].v, \A j \in DOMAIN s : j > i => p \notin DOMAIN s[j].v
               PROVE  s[i].v[p] = v
    BY DEF LastIs
  <2>1. CASE About(r, p)
    <3>1. PICK k \in DOMAIN r : p \in DOMAIN r[k].v
      BY <2>1 DEF About
    <3>2. ~ (n + k > i)
      BY <1>4, <3>1
    <3>3. i > n
      BY <1>1, <1>2, <1>4, <3>2
    <3>4. i \notin DOMAIN q
      BY <1>1, <1>2, <3>3
    <3> QED  BY <1>5, <2>1, <3>4
  <2>2. CASE ~About(r, p)
    <3>1. i \in DOMAIN q
      BY <1>5, <2>2 DEF About
    <3>2. \A j \in DOMAIN q : j > i => p \notin DOMAIN q[j].v
      BY <1>3
    <3> QED  BY <1>3, <2>2, <3>1, <3>2 DEF LastIs
  <2> QED  BY <2>1, <2>2
<1>7. ~About(s, p) => ~About(q, p) /\ ~About(r, p)
  BY <1>3, <1>4 DEF About
<1> QED  BY <1>6, <1>7 DEF s

--------------------------------------------------------------------------------
(* The steps of the terminals                                              *)

\* What the parts of the invariant are about.
LEMMA PartsUnchanged ==
    /\ ServedInv /\ UNCHANGED <<queue, support, asked, sockSuporte, pc, who, sup>> => ServedInv'
    /\ StageInv /\ UNCHANGED <<client, toAgent, pendentes, dados>> => StageInv'
    /\ FirstInv /\ UNCHANGED <<toAgent, pendentes, dados>> => FirstInv'
    /\ StreamInv /\ UNCHANGED <<agent, toAgent, screen, direct, pendentes, dados>> => StreamInv'
    /\ SendInv /\ UNCHANGED <<pc, pos, who, sup, dados, support, view>> => SendInv'
    /\ ReplayInv /\ UNCHANGED <<pc, pos, who, size, pendentes>> => ReplayInv'
    /\ SeenInv /\ UNCHANGED <<pc, pos, who, sup, sockSuporte, dados, agent, support, doubt, direct,
                              pendentes, view, toAgent, screen>> => SeenInv'
<1>1. ServedInv /\ UNCHANGED <<queue, support, asked, sockSuporte, pc, who, sup>> => ServedInv'
  BY DEF ServedInv
<1>2. StageInv /\ UNCHANGED <<client, toAgent, pendentes, dados>> => StageInv'
  BY DEF StageInv
<1>3. FirstInv /\ UNCHANGED <<toAgent, pendentes, dados>> => FirstInv'
  BY DEF FirstInv
<1>4. StreamInv /\ UNCHANGED <<agent, toAgent, screen, direct, pendentes, dados>> => StreamInv'
  BY DEF StreamInv, Alive
<1>5. SendInv /\ UNCHANGED <<pc, pos, who, sup, dados, support, view>> => SendInv'
  BY DEF SendInv
<1>6. ReplayInv /\ UNCHANGED <<pc, pos, who, size, pendentes>> => ReplayInv'
  BY DEF ReplayInv
<1>7. SeenInv /\ UNCHANGED <<pc, pos, who, sup, sockSuporte, dados, agent, support, doubt, direct,
                             pendentes, view, toAgent, screen>> => SeenInv'
  BY DEF SeenInv, Shown
<1> QED  BY <1>1, <1>2, <1>3, <1>4, <1>5, <1>6, <1>7

\* The invariant when the server is started.
LEMMA MirrorInit == Init => MInv
<1> SUFFICES ASSUME Init PROVE MInv
  OBVIOUS
<1>1. Inv
  BY SharingInit
<1>2. support \in [Supports -> {"off", "left"}]
  BY DEF Init
<1>3. ScreenTypes
  BY DEF Init, ScreenTypes
<1>4. StateTypes
  BY <1>2 DEF Init, StateTypes
<1>5. ServedInv /\ StageInv /\ FirstInv
  BY DEF Init, ServedInv, StageInv, FirstInv
<1>6. StreamInv /\ SendInv /\ ReplayInv /\ SeenInv
  BY DEF Init, StreamInv, LastIs, SendInv, ReplayInv, SeenInv
<1> QED  BY <1>1, <1>3, <1>4, <1>5, <1>6 DEF MInv

\* A terminal connects.
LEMMA ConnectMirror == ASSUME MInv, NEW c \in Clients, Connect(c) \/ SendKey(c) PROVE Rest'
<1> USE DEF Connect, SendKey, agentVars, centralVars, supportVars
<1>1. ScreenTypes' /\ StateTypes'
  BY DEF MInv, ScreenTypes, StateTypes
<1>2. ServedInv'
  <2>1. queue \in Seq(Clients \cup Supports) /\ c \notin Supports
    BY PartiesAssumption DEF MInv, Inv, TypeInv
  <2>2. CASE queue' = Append(queue, c)
    BY <2>1, <2>2 DEF MInv, ServedInv
  <2>3. CASE queue' = queue
    BY <2>3 DEF MInv, ServedInv
  <2> QED  BY <2>2, <2>3
<1>3. StageInv'
  BY DEF MInv, Inv, TypeInv, StageInv, Early
<1>4. FirstInv' /\ StreamInv' /\ SendInv' /\ ReplayInv' /\ SeenInv'
  BY PartsUnchanged DEF MInv
<1> QED  BY <1>1, <1>2, <1>3, <1>4 DEF Rest

\* The whole screen is screen: the Agente has nothing of it yet.
LEMMA CompartilhaMirror == ASSUME MInv, NEW c \in Clients, compartilha(c) PROVE Rest'
<1> USE DEF compartilha, agentVars, centralVars, supportVars
<1> DEFINE q == [l \in Rows |-> Message("DADOS", screen[c], Row(l))]
<1>1. /\ toAgent' = [toAgent EXCEPT ![c] = q]
      /\ client' = [client EXCEPT ![c] = "sharing"] /\ client[c] = "answered"
  OBVIOUS
<1>2. Lines \in Nat /\ screen[c] \in [Cells -> Nat]
  BY SizeAssumption DEF MInv, ScreenTypes
<1>3. \A l \in Rows : /\ q[l] \in Messages /\ q[l].cmd = "DADOS" /\ DOMAIN q[l].v = Row(l)
                     /\ \A p \in Row(l) : q[l].v[p] = screen[c][p]
  BY <1>2, RowCells, MessageCells
<1>4. DOMAIN q = Rows /\ Rows = 1 .. Lines
  BY DEF Rows
<1> HIDE DEF q
<1>13. q \in Seq(Messages)
  <2>1. q = [l \in Rows |-> q[l]]
    BY DEF q
  <2> QED  BY <1>2, <1>3, <1>4, <2>1
<1>5. ScreenTypes' /\ StateTypes'
  <2>1. toAgent' \in [Clients -> Seq(Messages)]
    BY <1>1, <1>13 DEF MInv, ScreenTypes
  <2> QED  BY <2>1 DEF MInv, ScreenTypes, StateTypes
<1>6. pendentes[c] = <<>> /\ \A p \in Cells : dados[c][p] = 0
  BY <1>1 DEF MInv, StageInv, Early
<1>7. \A k \in Clients : /\ toAgent'[k] = IF k = c THEN q ELSE toAgent[k]
                         /\ client'[k] = IF k = c THEN "sharing" ELSE client[k]
  BY <1>1 DEF MInv, Inv, TypeInv, ScreenTypes
<1>8. StageInv'
  BY <1>7 DEF MInv, StageInv, Early
<1>9. FirstInv'
  <2>1. ASSUME NEW i \in Rows PROVE First(q, i, dados[c])
    <3>1. \A j \in 1 .. (i - 1) : j \in Rows /\ j # i
      BY <1>2, <1>4
    <3>2. \A j \in 1 .. (i - 1) : \A p \in Row(i) : p \notin Row(j)
      BY <3>1, RowCells
    <3> QED  BY <1>3, <1>6, <3>1, <3>2, RowCells DEF First
  <2> QED  BY <1>4, <1>6, <1>7, <2>1 DEF MInv, FirstInv
<1>10. StreamInv'
  <2>1. ASSUME NEW p \in Cells PROVE LastIs(q, p, screen[c][p]) /\ About(q, p)
    <3>1. p[1] \in Rows /\ p \in Row(p[1])
      BY RowCells
    <3> QED  BY <1>3, <1>4, <3>1 DEF LastIs, About
  <2> QED  BY <1>7, <2>1 DEF MInv, StreamInv, Alive
<1>11. ServedInv' /\ SendInv' /\ ReplayInv'
  BY PartsUnchanged DEF MInv
<1>12. SeenInv'
  <2>1. 1 \in Rows /\ Cells # {}
    BY SizeAssumption, RowCells DEF Rows
  <2>2. pc \in {"replay", "relay"} => who # c /\ who \in Clients
    BY <1>6, <2>1 DEF MInv, SeenInv, ServedInv
  <2>3. pc \in {"replay", "relay"} => toAgent'[who] = toAgent[who]
    BY <1>7, <2>2
  <2> QED  BY <2>3 DEF MInv, SeenInv, Shown
<1> QED  BY <1>5, <1>8, <1>9, <1>10, <1>11, <1>12 DEF Rest

\* A batch of output: what is sent of a cell is the last message about it.
LEMMA DrawMirror == ASSUME MInv, NEW c \in Clients, NEW r \in Regions, Draw(c, r) PROVE Rest'
<1> USE DEF agentVars, centralVars, supportVars
<1> DEFINE box(l1, l2) == (l1 .. l2) \X (r.x1 .. r.x2)
           new == [p \in Cells |-> IF p \in box(r.y1, r.y2) THEN screen[c][p] + 1 ELSE screen[c][p]]
           n == r.y2 - r.y1 + 1
           msgs == [i \in 1 .. n |-> Message("REFRESH", new, box(r.y1 + i - 1, r.y1 + i - 1))]
           q == IF agent[c] = "dead" THEN toAgent[c] ELSE toAgent[c] \o msgs
<1>1. /\ client[c] = "sharing"
      /\ screen' = [screen EXCEPT ![c] = new]
      /\ toAgent' = [toAgent EXCEPT ![c] = q]
      /\ UNCHANGED <<client, agent, dados, pendentes, sockSuporte, queue, pc, who, sup, pos, size,
                     support, asked, view, direct, doubt>>
  BY DEF Draw
<1>2. /\ r.y1 \in 1 .. Lines /\ r.y2 \in r.y1 .. Lines
      /\ r.x1 \in 0 .. Cols - 1 /\ r.x2 \in r.x1 .. Cols - 1 /\ Lines \in Nat /\ Cols \in Nat
  BY RegionAssumption, SizeAssumption
<1>3. screen[c] \in [Cells -> Nat] /\ toAgent[c] \in Seq(Messages)
  BY DEF MInv, ScreenTypes
<1>4. new \in [Cells -> Nat]
  BY <1>3
<1>5. ASSUME NEW i \in 1 .. n
      PROVE  /\ r.y1 + i - 1 \in r.y1 .. r.y2
             /\ box(r.y1 + i - 1, r.y1 + i - 1) \in SUBSET Cells
  <2>1. r.y1 + i - 1 \in r.y1 .. r.y2 /\ r.y1 + i - 1 \in Rows
    BY <1>2 DEF Rows
  <2>2. \A l \in (r.y1 + i - 1) .. (r.y1 + i - 1) : l \in Rows
    BY <1>2, <2>1
  <2>3. \A x \in r.x1 .. r.x2 : x \in Columns
    BY <1>2 DEF Columns
  <2> QED  BY <2>1, <2>2, <2>3 DEF Cells
<1>6. ASSUME NEW p \in Cells, p \notin box(r.y1, r.y2)  PROVE new[p] = screen[c][p]
  BY <1>6
<1>7. ASSUME NEW p \in box(r.y1, r.y2)
      PROVE  \E i \in 1 .. n : p \in box(r.y1 + i - 1, r.y1 + i - 1)
  <2>1. PICK l \in r.y1 .. r.y2, x \in r.x1 .. r.x2 : p = <<l, x>>
    BY <1>7
  <2>2. l - r.y1 + 1 \in 1 .. n /\ r.y1 + (l - r.y1 + 1) - 1 = l /\ l \in l .. l
    BY <1>2, <2>1
  <2> QED  BY <2>1, <2>2
<1> HIDE DEF new, n, box
<1>8. /\ DOMAIN msgs = 1 .. n
      /\ \A i \in DOMAIN msgs :
             /\ msgs[i] \in Messages /\ msgs[i].cmd = "REFRESH"
             /\ DOMAIN msgs[i].v = box(r.y1 + i - 1, r.y1 + i - 1)
             /\ \A p \in DOMAIN msgs[i].v : msgs[i].v[p] = new[p]
  BY <1>4, <1>5, MessageCells
<1>9. msgs \in Seq(Messages)
  <2>1. n \in Nat
    BY <1>2 DEF n
  <2>2. \A i \in 1 .. n : msgs[i] \in Messages
    BY <1>8
  <2>3. msgs = [i \in 1 .. n |-> msgs[i]]
    OBVIOUS
  <2> HIDE DEF msgs
  <2> QED  BY <2>1, <2>2, <2>3
<1> HIDE DEF msgs
<1>19. \A p \in Cells : ~About(msgs, p) => new[p] = screen[c][p]
  BY <1>6, <1>7, <1>8 DEF About
<1>20. q \in Seq(Messages)
  BY <1>3, <1>9
<1>10. ScreenTypes' /\ StateTypes'
  BY <1>1, <1>4, <1>20 DEF MInv, ScreenTypes, StateTypes
<1>11. \A k \in Clients : /\ toAgent'[k] = IF k = c THEN q ELSE toAgent[k]
                          /\ screen'[k] = IF k = c THEN new ELSE screen[k]
  BY <1>1 DEF MInv, ScreenTypes
<1>12. \A p \in Cells : agent[c] # "dead" /\ LastIs(toAgent[c], p, screen[c][p])
                        => LastIs(q, p, new[p])
  <2> SUFFICES ASSUME NEW p \in Cells, agent[c] # "dead", LastIs(toAgent[c], p, screen[c][p])
               PROVE  LastIs(toAgent[c] \o msgs, p, new[p])
    OBVIOUS
  <2>1. About(msgs, p) => \A i \in DOMAIN msgs : p \in DOMAIN msgs[i].v => msgs[i].v[p] = new[p]
    BY <1>8
  <2>2. ~About(msgs, p) => LastIs(toAgent[c], p, new[p])
    BY <1>19
  <2> QED  BY <1>3, <1>9, <2>1, <2>2, StreamConcat
<1>13. \A p \in Cells : agent[c] # "dead" /\ ~About(q, p) => ~About(toAgent[c], p) /\ new[p] = screen[c][p]
  <2> SUFFICES ASSUME NEW p \in Cells, agent[c] # "dead", ~About(q, p)
               PROVE  ~About(toAgent[c], p) /\ ~About(msgs, p)
    BY <1>19
  <2>1. q = toAgent[c] \o msgs
    OBVIOUS
  <2>2. \A i \in DOMAIN toAgent[c] : i \in DOMAIN q /\ q[i] = toAgent[c][i]
    BY <1>3, <1>9, <2>1
  <2>3. \A i \in DOMAIN msgs : Len(toAgent[c]) + i \in DOMAIN q /\ q[Len(toAgent[c]) + i] = msgs[i]
    BY <1>3, <1>9, <2>1
  <2> QED  BY <2>2, <2>3 DEF About
<1>14. FirstInv'
  <2>1. ASSUME NEW i \in DOMAIN q, q[i].cmd = "DADOS"
        PROVE  i \in DOMAIN toAgent[c] /\ q[i] = toAgent[c][i]
               /\ \A j \in 1 .. (i - 1) : q[j] = toAgent[c][j]
    <3>1. CASE agent[c] = "dead"
      BY <2>1, <3>1
    <3>2. CASE agent[c] # "dead"
      <4>1. i \in DOMAIN toAgent[c] \/ (i - Len(toAgent[c]) \in DOMAIN msgs
                                         /\ q[i] = msgs[i - Len(toAgent[c])])
        BY <1>3, <1>9, <3>2
      <4>2. i \in DOMAIN toAgent[c]
        BY <1>8, <2>1, <4>1
      <4>3. \A j \in DOMAIN toAgent[c] : q[j] = toAgent[c][j]
        BY <1>3, <1>9, <3>2
      <4>4. \A j \in 1 .. (i - 1) : j \in DOMAIN toAgent[c]
        BY <1>3, <4>2
      <4> QED  BY <4>2, <4>3, <4>4
    <3> QED  BY <3>1, <3>2
  <2> HIDE DEF q
  <2> QED  BY <1>1, <1>11, <2>1 DEF MInv, FirstInv, First
<1> HIDE DEF q
<1>15. StageInv'
  BY <1>1, <1>11 DEF MInv, StageInv, Early
<1>16. StreamInv'
  <2> SUFFICES ASSUME NEW k \in Clients, agent[k] # "dead", NEW p \in Cells
               PROVE  /\ LastIs(toAgent'[k], p, screen'[k][p])
                      /\ ~About(toAgent'[k], p) /\ p \notin direct[k] /\ dados[k][p] # 0
                         => Settled(pendentes[k], Len(pendentes[k]), dados[k][p], p, screen'[k][p])
    BY <1>1 DEF StreamInv, Alive
  <2>1. /\ LastIs(toAgent[k], p, screen[k][p])
        /\ ~About(toAgent[k], p) /\ p \notin direct[k] /\ dados[k][p] # 0
           => Settled(pendentes[k], Len(pendentes[k]), dados[k][p], p, screen[k][p])
    BY DEF MInv, StreamInv, Alive
  <2>2. CASE k # c
    BY <1>11, <2>1, <2>2
  <2>3. CASE k = c
    BY <1>11, <1>12, <1>13, <2>1, <2>3
  <2> QED  BY <2>2, <2>3
<1>17. ServedInv' /\ SendInv' /\ ReplayInv'
  BY <1>1, PartsUnchanged DEF MInv
<1>18. SeenInv'
  <2>1. pc \in {"replay", "relay"} => who \in Clients
    BY DEF MInv, ServedInv
  <2>2. pc \in {"replay", "relay"} /\ agent[who] # "dead" => \A p \in Cells :
            ~About(toAgent'[who], p) => ~About(toAgent[who], p) /\ screen'[who][p] = screen[who][p]
    BY <1>11, <1>13, <2>1
  <2> QED  BY <1>1, <2>2 DEF MInv, SeenInv, Shown
<1> QED  BY <1>10, <1>14, <1>15, <1>16, <1>17, <1>18 DEF Rest

\* The last message of a terminal is about no cell.
LEMMA CloseMirror ==
    ASSUME MInv, NEW c \in Clients, NEW how \in {"STOP", "EOF"}, Close(c, how) PROVE Rest'
<1> USE DEF agentVars, centralVars, supportVars
<1> DEFINE m == Message(how, screen[c], {})
           q == IF agent[c] = "dead" THEN toAgent[c] ELSE Append(toAgent[c], m)
<1>1. /\ client' = [client EXCEPT ![c] = client'[c]] /\ client'[c] \in {"lost", "gone"}
      /\ toAgent' = [toAgent EXCEPT ![c] = q]
      /\ UNCHANGED <<screen, agent, dados, pendentes, sockSuporte, queue, pc, who, sup, pos,
                     size, support, asked, view, direct, doubt>>
  BY DEF Close, MInv, Inv, TypeInv
<1>2. toAgent[c] \in Seq(Messages) /\ m \in Messages /\ m.cmd # "DADOS" /\ DOMAIN m.v = {}
  <2>1. toAgent[c] \in Seq(Messages) /\ screen[c] \in [Cells -> Nat]
    BY DEF MInv, ScreenTypes
  <2>2. /\ m \in Messages /\ m.cmd = how /\ DOMAIN m.v = {}
    BY <2>1, MessageCells
  <2> QED  BY <2>1, <2>2
<1> HIDE DEF m
<1>3. q \in Seq(Messages)
  BY <1>2
<1>4. ScreenTypes' /\ StateTypes'
  BY <1>1, <1>3 DEF MInv, ScreenTypes, StateTypes
<1>5. \A k \in Clients : /\ toAgent'[k] = IF k = c THEN q ELSE toAgent[k]
                         /\ client'[k] = IF k = c THEN client'[c] ELSE client[k]
  BY <1>1 DEF MInv, Inv, TypeInv, ScreenTypes
<1>7. \A p \in Cells : \A v : LastIs(toAgent[c], p, v) => LastIs(q, p, v)
  <2> SUFFICES ASSUME NEW p \in Cells, NEW v, LastIs(toAgent[c], p, v) PROVE LastIs(q, p, v)
    OBVIOUS
  <2>1. CASE agent[c] = "dead"
    BY <2>1
  <2>2. CASE agent[c] # "dead"
    <3>1. \A i \in DOMAIN toAgent[c] : i \in DOMAIN q /\ q[i] = toAgent[c][i]
      BY <1>2, <2>2
    <3>2. \A i \in DOMAIN q : i \in DOMAIN toAgent[c] \/ q[i] = m
      BY <1>2, <2>2
    <3> HIDE DEF q
    <3> QED  BY <1>2, <3>1, <3>2 DEF LastIs
  <2> QED  BY <2>1, <2>2
<1>8. \A p \in Cells : ~About(q, p) => ~About(toAgent[c], p)
  <2>1. \A i \in DOMAIN toAgent[c] : i \in DOMAIN q /\ q[i] = toAgent[c][i]
    BY <1>2
  <2> QED  BY <2>1 DEF About
<1>9. FirstInv'
  <2>1. ASSUME NEW i \in DOMAIN q, q[i].cmd = "DADOS"
        PROVE  i \in DOMAIN toAgent[c] /\ q[i] = toAgent[c][i]
               /\ \A j \in 1 .. (i - 1) : q[j] = toAgent[c][j]
    BY <1>2, <2>1
  <2> HIDE DEF q
  <2> QED  BY <1>1, <1>5, <2>1 DEF MInv, FirstInv, First
<1> HIDE DEF q
<1>10. StageInv'
  BY <1>1, <1>5 DEF MInv, StageInv, Early
<1>11. StreamInv'
  <2> SUFFICES ASSUME NEW k \in Clients, Alive(k)', NEW p \in Cells
               PROVE  /\ LastIs(toAgent'[k], p, screen[k][p])
                      /\ ~About(toAgent'[k], p) /\ p \notin direct[k] /\ dados[k][p] # 0
                         => Settled(pendentes[k], Len(pendentes[k]), dados[k][p], p, screen[k][p])
    BY <1>1 DEF StreamInv
  <2>1. Alive(k)
    BY <1>1, <1>5 DEF Alive
  <2>2. /\ LastIs(toAgent[k], p, screen[k][p])
        /\ ~About(toAgent[k], p) /\ p \notin direct[k] /\ dados[k][p] # 0
           => Settled(pendentes[k], Len(pendentes[k]), dados[k][p], p, screen[k][p])
    BY <2>1 DEF MInv, StreamInv
  <2> QED  BY <1>5, <1>7, <1>8, <2>2
<1>12. ServedInv' /\ SendInv' /\ ReplayInv'
  BY <1>1, PartsUnchanged DEF MInv
<1>13. SeenInv'
  <2>1. pc \in {"replay", "relay"} => who \in Clients
    BY DEF MInv, ServedInv
  <2>2. pc \in {"replay", "relay"} => \A p \in Cells : ~About(toAgent'[who], p) => ~About(toAgent[who], p)
    BY <1>5, <1>8, <2>1
  <2> QED  BY <1>1, <2>2 DEF MInv, SeenInv, Shown
<1> QED  BY <1>4, <1>9, <1>10, <1>11, <1>12, <1>13 DEF Rest

--------------------------------------------------------------------------------
(* The steps of an Agente                                                  *)

\* What an Agente has read: there was something, so the terminal has screen its
\* screen; after a message that is no line of the whole screen there is none.
LEMMA AgentReads ==
    ASSUME MInv, NEW c \in Clients, toAgent[c] # <<>>
    PROVE  /\ toAgent[c] \in Seq(Messages) /\ Head(toAgent[c]) \in Messages
           /\ Tail(toAgent[c]) \in Seq(Messages)
           /\ client[c] \notin Early
           /\ \A i \in DOMAIN Tail(toAgent[c]) :
                  /\ i \in Nat /\ i >= 1 /\ i + 1 \in DOMAIN toAgent[c]
                  /\ Tail(toAgent[c])[i] = toAgent[c][i + 1]
           /\ Head(toAgent[c]).cmd # "DADOS" =>
                  \A i \in DOMAIN Tail(toAgent[c]) : Tail(toAgent[c])[i].cmd # "DADOS"
<1> DEFINE q == toAgent[c]
           t == Tail(q)
<1>1. q \in Seq(Messages)
  BY DEF MInv, ScreenTypes
<1>2. /\ t \in Seq(Messages) /\ Head(q) \in Messages /\ Head(q) = q[1] /\ 1 \in DOMAIN q
      /\ \A i \in DOMAIN t : i \in Nat /\ i >= 1 /\ i + 1 \in DOMAIN q /\ t[i] = q[i + 1]
  BY <1>1, StreamTail
<1>3. client[c] \notin Early
  BY DEF MInv, StageInv
<1> HIDE DEF q, t
<1>4. ASSUME q[1].cmd # "DADOS", NEW i \in DOMAIN t PROVE t[i].cmd # "DADOS"
  <2>1. 1 \in 1 .. ((i + 1) - 1) /\ i + 1 \in DOMAIN q /\ t[i] = q[i + 1]
    BY <1>2
  <2>2. q[i + 1].cmd = "DADOS" => \A j \in 1 .. ((i + 1) - 1) : q[j].cmd = "DADOS"
    BY <2>1 DEF MInv, FirstInv, First, q
  <2> QED  BY <1>4, <2>1, <2>2
<1> QED  BY <1>1, <1>2, <1>3, <1>4 DEF q, t

\* A line of the whole screen: dados had nothing of it, and no support was sent it.
LEMMA DadosMirror == ASSUME MInv, NEW c \in Clients, AgentDados(c) PROVE Rest'
<1> USE DEF centralVars, supportVars, clientVars
<1> DEFINE q == toAgent[c]
           m == Head(q)
           t == Tail(q)
<1>1. /\ agent[c] = "running" /\ q # <<>> /\ m.cmd = "DADOS"
      /\ toAgent' = [toAgent EXCEPT ![c] = t]
      /\ dados' = [dados EXCEPT ![c] = Over(dados[c], m.v)]
      /\ UNCHANGED <<client, screen, agent, pendentes, sockSuporte, queue, pc, who, sup, pos,
                     size, support, asked, view, direct, doubt>>
  BY DEF AgentDados, Reads, Pops
<1>2. /\ q \in Seq(Messages) /\ m \in Messages /\ t \in Seq(Messages)
      /\ client[c] \notin Early
      /\ \A i \in DOMAIN t : i \in Nat /\ i >= 1 /\ i + 1 \in DOMAIN q /\ t[i] = q[i + 1]
  BY <1>1, AgentReads
<1>3. m = q[1] /\ 1 \in DOMAIN q
  BY <1>1, <1>2, StreamTail
<1>4. pendentes[c] = <<>> /\ DOMAIN m.v # {} /\ \A p \in DOMAIN m.v : dados[c][p] = 0
  BY <1>1, <1>3 DEF MInv, FirstInv, First
<1>5. \A p \in Cells : \A v : LastIs(q, p, v) =>
          /\ LastIs(t, p, v)
          /\ p \in DOMAIN m.v /\ ~About(t, p) => m.v[p] = v
          /\ p \notin DOMAIN m.v /\ ~About(t, p) => ~About(q, p)
  BY <1>1, <1>2, LastTail
<1> HIDE DEF q, m, t
<1>6. /\ Over(dados[c], m.v) \in [Cells -> Nat] /\ DOMAIN m.v \in SUBSET Cells
      /\ \A p \in Cells : Over(dados[c], m.v)[p] = IF p \in DOMAIN m.v THEN m.v[p] ELSE dados[c][p]
  <2>1. m.v \in Parts /\ dados[c] \in [Cells -> Nat] /\ DOMAIN m.v \in SUBSET Cells
    BY <1>2, PartCells DEF MInv, ScreenTypes
  <2> QED  BY <2>1, OverCells
<1>7. ScreenTypes' /\ StateTypes'
  BY <1>1, <1>2, <1>6 DEF MInv, ScreenTypes, StateTypes
<1>8. \A k \in Clients : /\ toAgent'[k] = IF k = c THEN t ELSE toAgent[k]
                         /\ \A p \in Cells : dados'[k][p] = IF k = c /\ p \in DOMAIN m.v THEN m.v[p] ELSE dados[k][p]
  BY <1>1, <1>6 DEF MInv, ScreenTypes
<1>9. StageInv'
  BY <1>1, <1>2, <1>8 DEF MInv, StageInv
<1>10. FirstInv'
  <2>1. ASSUME NEW i \in DOMAIN t, t[i].cmd = "DADOS"
        PROVE  pendentes[c] = <<>> /\ First(t, i, dados'[c])
    <3>1. i \in Nat /\ i >= 1 /\ i + 1 \in DOMAIN q /\ t[i] = q[i + 1]
      BY <1>2
    <3>2. First(q, i + 1, dados[c])
      BY <2>1, <3>1 DEF MInv, FirstInv, q
    <3>3. 1 \in 1 .. ((i + 1) - 1)
      BY <3>1
    <3>4. \A p \in DOMAIN t[i].v : p \notin DOMAIN m.v
      BY <1>3, <3>1, <3>2, <3>3 DEF First
    <3>5. \A j \in 1 .. (i - 1) : j \in DOMAIN t /\ j + 1 \in 1 .. ((i + 1) - 1)
      BY <1>2, <3>1
    <3>6. \A j \in 1 .. (i - 1) : t[j] = q[j + 1]
      BY <1>2, <3>5
    <3>7. t[i] \in Messages
      BY <1>2
    <3>8. \A p \in DOMAIN t[i].v : p \in Cells
      BY <3>7, PartCells
    <3>9. \A p \in DOMAIN t[i].v : dados'[c][p] = 0
      BY <1>8, <3>1, <3>2, <3>4, <3>8 DEF First
    <3> QED  BY <1>4, <3>1, <3>2, <3>5, <3>6, <3>9 DEF First
  <2>2. ASSUME NEW k \in Clients, k # c, NEW i \in DOMAIN toAgent[k], toAgent[k][i].cmd = "DADOS"
        PROVE  pendentes[k] = <<>> /\ First(toAgent[k], i, dados'[k])
    <3>1. dados'[k] = dados[k]
      BY <1>1, <2>2 DEF MInv, ScreenTypes
    <3> QED  BY <2>2, <3>1 DEF MInv, FirstInv
  <2> QED  BY <1>1, <1>8, <2>1, <2>2 DEF FirstInv
<1>11. StreamInv'
  <2> SUFFICES ASSUME NEW k \in Clients, Alive(k), NEW p \in Cells
               PROVE  /\ LastIs(toAgent'[k], p, screen[k][p])
                      /\ ~About(toAgent'[k], p) /\ p \notin direct[k] /\ dados'[k][p] # 0
                         => Settled(pendentes[k], Len(pendentes[k]), dados'[k][p], p, screen[k][p])
    BY <1>1 DEF StreamInv, Alive
  <2>1. /\ LastIs(toAgent[k], p, screen[k][p])
        /\ ~About(toAgent[k], p) /\ p \notin direct[k] /\ dados[k][p] # 0
           => Settled(pendentes[k], Len(pendentes[k]), dados[k][p], p, screen[k][p])
    BY DEF MInv, StreamInv
  <2>2. CASE k # c
    BY <1>8, <2>1, <2>2
  <2>3. CASE k = c /\ p \notin DOMAIN m.v
    BY <1>5, <1>8, <2>1, <2>3 DEF q
  <2>4. CASE k = c /\ p \in DOMAIN m.v
    <3>1. LastIs(t, p, screen[c][p]) /\ (~About(t, p) => m.v[p] = screen[c][p])
      BY <1>5, <2>1, <2>4 DEF q
    <3>2. Settled(<<>>, Len(<<>>), m.v[p], p, m.v[p])
      BY DEF Settled
    <3> QED  BY <1>4, <1>8, <2>4, <3>1, <3>2
  <2> QED  BY <2>2, <2>3, <2>4
<1>12. ServedInv' /\ ReplayInv'
  BY <1>1, PartsUnchanged DEF MInv
<1>13. SendInv'
  <2>1. pc = "send" => who \in Clients
    BY DEF MInv, ServedInv
  <2> QED  BY <1>1, <1>4, <1>8, <2>1 DEF MInv, SendInv
<1>14. SeenInv'
  <2>1. pc \in {"replay", "relay"} => who \in Clients /\ who # c
    BY <1>4, <1>6 DEF MInv, SeenInv, ServedInv
  <2>2. pc \in {"replay", "relay"} =>
            toAgent'[who] = toAgent[who] /\ \A p \in Cells : dados'[who][p] = dados[who][p]
    BY <1>8, <2>1
  <2> QED  BY <1>1, <2>2 DEF MInv, SeenInv, Shown
<1> QED  BY <1>7, <1>9, <1>10, <1>11, <1>12, <1>13, <1>14 DEF Rest

\* The test of sockSuporte.
LEMMA RefreshMirror == ASSUME MInv, NEW c \in Clients, AgentRefresh(c) PROVE Rest'
<1> USE DEF centralVars, supportVars, clientVars
<1>1. /\ agent[c] = "running" /\ toAgent[c] # <<>>
      /\ \E state \in {"adding", "writing"} : agent' = [agent EXCEPT ![c] = state]
      /\ UNCHANGED <<client, screen, toAgent, dados, pendentes, sockSuporte, queue, pc, who, sup,
                     pos, size, support, asked, view, direct, doubt>>
  BY DEF AgentRefresh, Reads, AgentBecomes
<1>2. ScreenTypes' /\ StateTypes'
  BY <1>1 DEF MInv, ScreenTypes, StateTypes
<1>3. StreamInv'
  BY <1>1 DEF MInv, StateTypes, StreamInv, Alive
<1>4. ServedInv' /\ StageInv' /\ FirstInv' /\ SendInv' /\ ReplayInv'
  BY <1>1, PartsUnchanged DEF MInv
<1>5. SeenInv'
  <2>1. pc \in {"replay", "relay"} => who \in Clients
    BY DEF MInv, ServedInv
  <2>2. pc \in {"replay", "relay"} => (agent'[who] = "dead" <=> agent[who] = "dead")
    BY <1>1, <2>1 DEF MInv, StateTypes
  <2> QED  BY <1>1, <2>2 DEF MInv, SeenInv, Shown
<1> QED  BY <1>2, <1>3, <1>4, <1>5 DEF Rest

\* STOP, the end of the terminal or a part of a header: the Agente is over.
LEMMA EndMirror ==
    ASSUME MInv, NEW c \in Clients, AgentStop(c) \/ AgentReturns(c)
    PROVE  Rest'
<1> USE DEF centralVars, supportVars, clientVars
<1>1. /\ agent[c] = "running" /\ toAgent[c] # <<>>
      /\ agent' = [agent EXCEPT ![c] = "dead"]
      /\ \/ Head(toAgent[c]).cmd # "DADOS" /\ toAgent' = [toAgent EXCEPT ![c] = Tail(toAgent[c])]
         \/ toAgent' = [toAgent EXCEPT ![c] = <<>>]
      /\ UNCHANGED <<client, screen, dados, pendentes, sockSuporte, queue, pc, who, sup,
                     pos, size, support, asked, view, direct, doubt>>
  BY DEF AgentStop, AgentReturns, Reads, Pops, AgentBecomes
<1>2. PICK u \in Seq(Messages) :
          /\ toAgent' = [toAgent EXCEPT ![c] = u] /\ \A i \in DOMAIN u : u[i].cmd # "DADOS"
  <2>1. /\ Tail(toAgent[c]) \in Seq(Messages) /\ <<>> \in Seq(Messages)
        /\ Head(toAgent[c]).cmd # "DADOS" =>
               \A i \in DOMAIN Tail(toAgent[c]) : Tail(toAgent[c])[i].cmd # "DADOS"
    BY <1>1, AgentReads
  <2>2. \A i \in DOMAIN <<>> : FALSE
    OBVIOUS
  <2> QED  BY <1>1, <2>1, <2>2
<1>3. client[c] \notin Early
  BY <1>1, AgentReads
<1>4. ScreenTypes' /\ StateTypes'
  BY <1>1, <1>2 DEF MInv, ScreenTypes, StateTypes
<1>5. \A k \in Clients : /\ toAgent'[k] = IF k = c THEN u ELSE toAgent[k]
                         /\ agent'[k] = IF k = c THEN "dead" ELSE agent[k]
  BY <1>1, <1>2 DEF MInv, ScreenTypes, StateTypes
<1>6. StageInv' /\ FirstInv'
  BY <1>1, <1>2, <1>3, <1>5 DEF MInv, StageInv, FirstInv
<1>7. StreamInv'
  BY <1>1, <1>5 DEF MInv, StreamInv, Alive
<1>8. ServedInv' /\ SendInv' /\ ReplayInv'
  BY <1>1, PartsUnchanged DEF MInv
<1>9. SeenInv'
  <2>1. pc \in {"replay", "relay"} => who \in Clients
    BY DEF MInv, ServedInv
  <2> QED  BY <1>1, <1>5, <2>1 DEF MInv, SeenInv, Shown
<1> QED  BY <1>4, <1>6, <1>7, <1>8, <1>9 DEF Rest

\* A REFRESH is kept: it is the last of its cells in pendentes, and in doubt if a
\* support is connected.
LEMMA AddMirror == ASSUME MInv, NEW c \in Clients, AgentAdd(c) PROVE Rest'
<1> USE DEF centralVars, supportVars, clientVars
<1> DEFINE q == toAgent[c]
           m == Head(q)
           t == Tail(q)
           P == pendentes[c]
           R == Append(P, m)
<1>1. /\ agent[c] = "adding" /\ q # <<>> /\ m.cmd # "DADOS"
      /\ toAgent' = [toAgent EXCEPT ![c] = t]
      /\ agent' = [agent EXCEPT ![c] = "running"]
      /\ pendentes' = [pendentes EXCEPT ![c] = R]
      /\ doubt' = IF who = c THEN doubt \cup DOMAIN m.v ELSE doubt
      /\ UNCHANGED <<client, screen, dados, sockSuporte, queue, pc, who, sup, pos,
                     size, support, asked, view, direct>>
  BY DEF AgentAdd, Reads, Pops, AgentBecomes, Kept
<1>2. /\ q \in Seq(Messages) /\ m \in Messages /\ t \in Seq(Messages)
      /\ client[c] \notin Early
      /\ \A i \in DOMAIN t : t[i].cmd # "DADOS"
  BY <1>1, AgentReads
<1>3. P \in Seq(Messages)
  BY DEF MInv, ScreenTypes
<1>4. \A p \in Cells : \A v : LastIs(q, p, v) =>
          /\ LastIs(t, p, v)
          /\ p \in DOMAIN m.v /\ ~About(t, p) => m.v[p] = v
          /\ p \notin DOMAIN m.v /\ ~About(t, p) => ~About(q, p)
  BY <1>1, <1>2, LastTail
<1>5. \A p \in Cells : \A d, v : (IF p \in DOMAIN m.v THEN m.v[p] = v ELSE Settled(P, Len(P), d, p, v))
                                => Settled(R, Len(R), d, p, v)
  BY <1>2, <1>3, SettledAppend
<1> HIDE DEF q, m, t
<1>6. /\ R \in Seq(Messages) /\ Len(P) \in Nat /\ Len(R) = Len(P) + 1
      /\ R[Len(P) + 1] = m /\ \A i \in 1 .. Len(P) : R[i] = P[i]
  BY <1>2, <1>3
<1> HIDE DEF P, R
<1>7. ScreenTypes' /\ StateTypes'
  BY <1>1, <1>2, <1>6 DEF MInv, ScreenTypes, StateTypes
<1>8. \A k \in Clients : /\ toAgent'[k] = IF k = c THEN t ELSE toAgent[k]
                         /\ pendentes'[k] = IF k = c THEN R ELSE pendentes[k]
                         /\ agent'[k] = IF k = c THEN "running" ELSE agent[k]
  BY <1>1 DEF MInv, ScreenTypes, StateTypes
<1>9. StageInv' /\ FirstInv'
  BY <1>1, <1>2, <1>8 DEF MInv, StageInv, FirstInv
<1>10. Alive(c)
  BY <1>1, <1>2 DEF Alive
<1>11. StreamInv'
  <2> SUFFICES ASSUME NEW k \in Clients, Alive(k)', NEW p \in Cells
               PROVE  /\ LastIs(toAgent'[k], p, screen[k][p])
                      /\ ~About(toAgent'[k], p) /\ p \notin direct[k] /\ dados[k][p] # 0
                         => Settled(pendentes'[k], Len(pendentes'[k]), dados[k][p], p, screen[k][p])
    BY <1>1 DEF StreamInv
  <2>1. Alive(k)
    BY <1>1, <1>8, <1>10 DEF Alive
  <2>2. /\ LastIs(toAgent[k], p, screen[k][p])
        /\ ~About(toAgent[k], p) /\ p \notin direct[k] /\ dados[k][p] # 0
           => Settled(pendentes[k], Len(pendentes[k]), dados[k][p], p, screen[k][p])
    BY <2>1 DEF MInv, StreamInv
  <2>3. CASE k # c
    BY <1>8, <2>2, <2>3
  <2>4. CASE k = c
    <3>1. LastIs(q, p, screen[c][p])
      BY <2>2, <2>4 DEF q
    <3>2. LastIs(t, p, screen[c][p])
      BY <1>4, <3>1
    <3>3. ASSUME ~About(t, p), p \notin direct[c], dados[c][p] # 0
          PROVE  Settled(R, Len(R), dados[c][p], p, screen[c][p])
      <4>1. CASE p \in DOMAIN m.v
        BY <1>4, <1>5, <3>1, <3>3, <4>1
      <4>2. CASE p \notin DOMAIN m.v
        <5>1. ~About(q, p)
          BY <1>4, <3>1, <3>3, <4>2
        <5>2. Settled(P, Len(P), dados[c][p], p, screen[c][p])
          BY <2>2, <2>4, <3>3, <5>1 DEF q, P
        <5> QED  BY <1>5, <4>2, <5>2
      <4> QED  BY <4>1, <4>2
    <3> QED  BY <1>8, <2>4, <3>2, <3>3
  <2> QED  BY <2>3, <2>4
<1>12. ServedInv' /\ SendInv'
  BY <1>1, PartsUnchanged DEF MInv
<1>13. ReplayInv'
  <2>1. pc = "replay" => who \in Clients
    BY DEF MInv, ServedInv
  <2>2. pc = "replay" /\ who # c => pendentes'[who] = pendentes[who]
    BY <1>8, <2>1
  <2>3. pc = "replay" /\ who = c => size <= Len(P) /\ size \in Nat
    BY DEF MInv, ReplayInv, P
  <2>4. pc = "replay" /\ who = c => size <= Len(R)
    BY <1>6, <2>3
  <2> QED  BY <1>1, <1>8, <2>2, <2>4 DEF MInv, ReplayInv
<1>14. SeenInv'
  <2> SUFFICES ASSUME pc \in {"replay", "relay"} PROVE SeenInv'
    BY <1>1 DEF SeenInv
  <2>1. who \in Clients /\ pc' = pc /\ who' = who /\ sup' = sup
    BY <1>1 DEF MInv, ServedInv
  <2>2. CASE who # c
    <3>1. /\ toAgent'[who] = toAgent[who] /\ pendentes'[who] = pendentes[who]
          /\ agent'[who] = agent[who] /\ doubt' = doubt
      BY <1>1, <1>8, <2>1, <2>2
    <3> QED  BY <1>1, <3>1 DEF MInv, SeenInv, Shown
  <2>3. CASE who = c
    <3>1. sockSuporte[who] = sup /\ \A p \in Cells : dados[who][p] # 0
      BY DEF MInv, SeenInv
    <3>2. ASSUME support[sup] = "connected", NEW p \in Cells, p \notin doubt, p \notin DOMAIN m.v
          PROVE  /\ p \notin direct[c] => Settled(R, Shown', dados[c][p], p, view[sup][p])
                 /\ p \in direct[c] => /\ \A i \in (Shown' + 1) .. Len(R) : p \notin DOMAIN R[i].v
                                       /\ ~About(t, p) => view[sup][p] = screen[c][p]
      <4>1. /\ p \notin direct[c] => Settled(P, Shown, dados[c][p], p, view[sup][p])
            /\ p \in direct[c] => /\ \A i \in (Shown + 1) .. Len(P) : p \notin DOMAIN P[i].v
                                  /\ ~About(q, p) => view[sup][p] = screen[c][p]
        BY <1>1, <2>3, <3>2 DEF MInv, SeenInv, q, P
      <4>2. ~About(t, p) => ~About(q, p)
        BY <1>4, <1>10, <3>2 DEF MInv, StreamInv, q
      <4>3. CASE pc = "replay"
        <5>1. Shown' = pos - 1 /\ Shown = pos - 1 /\ pos \in Nat \ {0} /\ size \in Nat
              /\ pos <= size + 1 /\ size <= Len(P)
          BY <1>1, <2>1, <2>3, <4>3 DEF MInv, ReplayInv, Shown, P
        <5>2. pos - 1 \in Nat /\ pos - 1 <= Len(P)
          BY <1>6, <5>1
        <5>3. \A i \in 1 .. (pos - 1) : R[i] = P[i]
          BY <1>6, <5>2
        <5>4. p \notin direct[c] => Settled(R, pos - 1, dados[c][p], p, view[sup][p])
          BY <4>1, <5>1, <5>2, <5>3, SettledPrefix
        <5>5. p \in direct[c] => \A i \in ((pos - 1) + 1) .. Len(R) : p \notin DOMAIN R[i].v
          <6> SUFFICES ASSUME p \in direct[c], NEW i \in ((pos - 1) + 1) .. Len(R)
                       PROVE  p \notin DOMAIN R[i].v
            OBVIOUS
          <6>1. i = Len(P) + 1 \/ (i \in 1 .. Len(P) /\ i \in ((pos - 1) + 1) .. Len(P))
            BY <1>6, <5>1
          <6> QED  BY <1>6, <3>2, <4>1, <5>1, <6>1
        <5> QED  BY <4>1, <4>2, <5>1, <5>4, <5>5
      <4>4. CASE pc = "relay"
        <5>1. Shown' = Len(R) /\ Shown = Len(P)
          BY <1>1, <1>8, <2>1, <2>3, <4>4 DEF Shown, P
        <5>2. p \notin direct[c] => Settled(R, Len(R), dados[c][p], p, view[sup][p])
          BY <1>5, <3>2, <4>1, <5>1
        <5>3. \A i \in (Len(R) + 1) .. Len(R) : FALSE
          BY <1>6
        <5> QED  BY <4>1, <4>2, <5>1, <5>2, <5>3
      <4> QED  BY <4>3, <4>4
    <3>3. /\ toAgent'[who] = t /\ pendentes'[who] = R
          /\ \A p \in Cells \ doubt' : p \notin doubt /\ p \notin DOMAIN m.v
      BY <1>1, <1>8, <2>3
    <3> QED  BY <1>1, <2>1, <2>3, <3>1, <3>2, <3>3 DEF SeenInv
  <2> QED  BY <2>2, <2>3
<1> QED  BY <1>7, <1>9, <1>11, <1>12, <1>13, <1>14 DEF Rest

\* A REFRESH is written to the support, or lost because it has left.
LEMMA WriteMirror == ASSUME MInv, NEW c \in Clients, AgentWrite(c) PROVE Rest'
<1> USE DEF centralVars, supportVars, clientVars
<1> DEFINE q == toAgent[c]
           m == Head(q)
           t == Tail(q)
           s == sockSuporte[c]
           P == pendentes[c]
<1>1. /\ agent[c] = "writing" /\ q # <<>> /\ m.cmd # "DADOS"
      /\ direct' = [direct EXCEPT ![c] = direct[c] \cup DOMAIN m.v]
      /\ UNCHANGED <<client, screen, dados, pendentes, sockSuporte, queue, pc, who, sup, pos,
                     size, support, asked>>
  BY DEF AgentWrite, Reads
<1>2. \/ /\ support[s] = "connected" /\ toAgent' = [toAgent EXCEPT ![c] = t]
         /\ agent' = [agent EXCEPT ![c] = "running"]
         /\ view' = [view EXCEPT ![s] = Over(view[s], m.v)]
         /\ doubt' = IF who # c THEN doubt
                     ELSE (doubt \ DOMAIN m.v) \cup (DOMAIN m.v \cap ToReplay(c))
      \/ /\ support[s] = "left" /\ toAgent' = [toAgent EXCEPT ![c] = t]
         /\ agent' = [agent EXCEPT ![c] = "running"] /\ UNCHANGED <<view, doubt>>
      \/ /\ support[s] = "left" /\ toAgent' = [toAgent EXCEPT ![c] = <<>>]
         /\ agent' = [agent EXCEPT ![c] = "dead"] /\ UNCHANGED <<view, doubt>>
  BY DEF AgentWrite, Pops, AgentBecomes
<1>3. /\ q \in Seq(Messages) /\ m \in Messages /\ t \in Seq(Messages)
      /\ client[c] \notin Early
      /\ \A i \in DOMAIN t : t[i].cmd # "DADOS"
  BY <1>1, AgentReads
<1>4. \A p \in Cells : \A v : LastIs(q, p, v) =>
          /\ LastIs(t, p, v)
          /\ p \in DOMAIN m.v /\ ~About(t, p) => m.v[p] = v
          /\ p \notin DOMAIN m.v /\ ~About(t, p) => ~About(q, p)
  BY <1>1, <1>3, LastTail
<1> HIDE DEF q, m, t, s
<1>5. m.v \in Parts /\ DOMAIN m.v \in SUBSET Cells /\ <<>> \in Seq(Messages)
  BY <1>3, PartCells
<1>6. StateTypes'
  BY <1>1, <1>2, <1>5 DEF MInv, StateTypes
<1>7. view' \in [Supports -> [Cells -> Nat]]
  <2>1. view \in [Supports -> [Cells -> Nat]]
    BY DEF MInv, ScreenTypes
  <2>2. s \in Supports => Over(view[s], m.v) \in [Cells -> Nat]
    BY <1>5, <2>1, OverCells
  <2>3. \A f : (s \in Supports => f \in [Cells -> Nat])
              => [view EXCEPT ![s] = f] \in [Supports -> [Cells -> Nat]]
    BY <2>1
  <2> QED  BY <1>2, <2>1, <2>2, <2>3
<1>8. ScreenTypes'
  BY <1>1, <1>2, <1>3, <1>5, <1>7 DEF MInv, ScreenTypes
<1>9. \E u \in {t, <<>>}, state \in {"running", "dead"} :
         /\ toAgent' = [toAgent EXCEPT ![c] = u] /\ agent' = [agent EXCEPT ![c] = state]
         /\ state = "running" => u = t
  BY <1>2
<1>10. PICK u \in {t, <<>>}, state \in {"running", "dead"} :
          /\ \A k \in Clients : /\ toAgent'[k] = IF k = c THEN u ELSE toAgent[k]
                                /\ agent'[k] = IF k = c THEN state ELSE agent[k]
          /\ state = "running" => u = t
  BY <1>9 DEF MInv, ScreenTypes, StateTypes
<1>11. \A k \in Clients : direct'[k] = IF k = c THEN direct[c] \cup DOMAIN m.v ELSE direct[k]
  BY <1>1 DEF MInv, StateTypes
<1>12. StageInv' /\ FirstInv'
  BY <1>1, <1>3, <1>10 DEF MInv, StageInv, FirstInv
<1>13. Alive(c)
  BY <1>1, <1>3 DEF Alive
<1>14. StreamInv'
  <2> SUFFICES ASSUME NEW k \in Clients, Alive(k)', NEW p \in Cells
               PROVE  /\ LastIs(toAgent'[k], p, screen[k][p])
                      /\ ~About(toAgent'[k], p) /\ p \notin direct'[k] /\ dados[k][p] # 0
                         => Settled(pendentes[k], Len(pendentes[k]), dados[k][p], p, screen[k][p])
    BY <1>1 DEF StreamInv
  <2>1. Alive(k) /\ (k = c => u = t)
    BY <1>1, <1>10, <1>13 DEF Alive
  <2>2. /\ LastIs(toAgent[k], p, screen[k][p])
        /\ ~About(toAgent[k], p) /\ p \notin direct[k] /\ dados[k][p] # 0
           => Settled(pendentes[k], Len(pendentes[k]), dados[k][p], p, screen[k][p])
    BY <2>1 DEF MInv, StreamInv
  <2>3. CASE k # c
    BY <1>10, <1>11, <2>2, <2>3
  <2>4. CASE k = c
    BY <1>4, <1>10, <1>11, <2>1, <2>2, <2>4 DEF q
  <2> QED  BY <2>3, <2>4
<1>15. ServedInv' /\ ReplayInv'
  BY <1>1, PartsUnchanged DEF MInv
<1>16. \A x \in Supports : x # s => view'[x] = view[x]
  BY <1>2 DEF MInv, ScreenTypes
<1>17. SendInv'
  <2>1. pc = "send" => sup \in Supports /\ sup # s
    BY DEF MInv, ServedInv, s
  <2>2. pc = "send" => view'[sup] = view[sup]
    BY <1>16, <2>1
  <2> QED  BY <1>1, <2>2 DEF MInv, SendInv
<1>18. SeenInv'
  <2> SUFFICES ASSUME pc \in {"replay", "relay"} PROVE SeenInv'
    BY <1>1 DEF SeenInv
  <2>1. who \in Clients /\ sup \in Supports
    BY DEF MInv, ServedInv
  <2>2. sockSuporte[who] = sup /\ \A p \in Cells : dados[who][p] # 0
    BY DEF MInv, SeenInv
  <2>3. Shown' = Shown
    BY <1>1 DEF Shown
  <2>4. CASE who # c
    <3>1. sup # s
      BY <2>1, <2>4 DEF MInv, ServedInv, s
    <3>2. /\ toAgent'[who] = toAgent[who] /\ agent'[who] = agent[who] /\ direct'[who] = direct[who]
          /\ view'[sup] = view[sup] /\ doubt' = doubt
      BY <1>2, <1>10, <1>11, <1>16, <2>1, <2>4, <3>1
    <3> QED  BY <1>1, <2>3, <3>2 DEF MInv, SeenInv
  <2>5. CASE who = c /\ support[sup] # "connected"
    BY <1>1, <2>2, <2>5 DEF SeenInv
  <2>6. CASE who = c /\ support[sup] = "connected"
    <3>1. sup = s
      BY <2>2, <2>6 DEF s
    <3>2. /\ toAgent' = [toAgent EXCEPT ![c] = t]
          /\ view' = [view EXCEPT ![s] = Over(view[s], m.v)]
          /\ doubt' = (doubt \ DOMAIN m.v) \cup (DOMAIN m.v \cap ToReplay(c))
      BY <1>2, <2>6, <3>1
    <3>3. toAgent'[c] = t /\ \A p \in Cells : view'[sup][p] = IF p \in DOMAIN m.v THEN m.v[p] ELSE view[sup][p]
      <4>1. view[sup] \in [Cells -> Nat] /\ view \in [Supports -> [Cells -> Nat]]
        BY <2>1 DEF MInv, ScreenTypes
      <4>2. \A p \in Cells : Over(view[sup], m.v)[p] = IF p \in DOMAIN m.v THEN m.v[p] ELSE view[sup][p]
        <5> DEFINE f == view[sup]
                   g == m.v
        <5>1. f \in [Cells -> Nat] /\ g \in Parts
          BY <1>5, <4>1
        <5> HIDE DEF f, g
        <5>2. \A p \in Cells : Over(f, g)[p] = IF p \in DOMAIN g THEN g[p] ELSE f[p]
          BY <5>1, OverCells
        <5> QED  BY <5>2 DEF f, g
      <4>3. view'[sup] = Over(view[sup], m.v) /\ toAgent'[c] = t
        BY <2>1, <3>1, <3>2, <4>1 DEF MInv, ScreenTypes
      <4> QED  BY <4>2, <4>3
    <3>4. ASSUME NEW p \in Cells, p \notin doubt'
          PROVE  /\ p \notin direct'[c] => Settled(P, Shown, dados[c][p], p, view'[sup][p])
                 /\ p \in direct'[c] => /\ \A i \in (Shown + 1) .. Len(P) : p \notin DOMAIN P[i].v
                                        /\ ~About(t, p) => view'[sup][p] = screen[c][p]
      <4>1. LastIs(q, p, screen[c][p])
        BY <1>13 DEF MInv, StreamInv, q
      <4>2. CASE p \notin DOMAIN m.v
        <5>1. p \notin doubt /\ (p \in direct'[c] <=> p \in direct[c])
          BY <1>11, <3>2, <3>4, <4>2
        <5>2. /\ p \notin direct[c] => Settled(P, Shown, dados[c][p], p, view[sup][p])
              /\ p \in direct[c] => /\ \A i \in (Shown + 1) .. Len(P) : p \notin DOMAIN P[i].v
                                    /\ ~About(q, p) => view[sup][p] = screen[c][p]
          BY <1>1, <2>6, <5>1 DEF MInv, SeenInv, q
        <5> QED  BY <1>4, <3>3, <4>1, <4>2, <5>1, <5>2
      <4>3. CASE p \in DOMAIN m.v
        <5>1. p \in direct'[c] /\ p \notin ToReplay(c)
          BY <1>11, <3>2, <3>4, <4>3
        <5>2. \A i \in (Shown + 1) .. Len(P) : p \notin DOMAIN P[i].v
          <6>1. CASE pc = "replay"
            <7>1. Shown + 1 = pos
              BY <6>1 DEF MInv, ReplayInv, Shown
            <7> QED  BY <2>6, <5>1, <6>1, <7>1 DEF ToReplay
          <6>2. CASE pc = "relay"
            <7>1. Shown = Len(P) /\ Len(P) \in Nat
              BY <2>6, <6>2 DEF Shown, MInv, ScreenTypes
            <7> QED  BY <7>1
          <6> QED  BY <6>1, <6>2
        <5> QED  BY <1>4, <3>3, <4>1, <4>3, <5>1, <5>2
      <4> QED  BY <4>2, <4>3
    <3> QED  BY <1>1, <2>2, <2>3, <2>6, <3>3, <3>4 DEF SeenInv
  <2> QED  BY <2>4, <2>5, <2>6
<1> QED  BY <1>6, <1>8, <1>12, <1>14, <1>15, <1>17, <1>18 DEF Rest

--------------------------------------------------------------------------------
(* The steps of Central, and of the supports                               *)

\* The queue without its first connection.
LEMMA QueueTail ==
    ASSUME MInv, queue # <<>>
    PROVE  /\ Head(queue) \in Clients \cup Supports
           /\ \A i \in DOMAIN Tail(queue) : i \in Nat /\ i + 1 \in DOMAIN queue
                                           /\ Tail(queue)[i] = queue[i + 1]
           /\ Head(queue) \in Supports =>
                  /\ \A c \in Clients : sockSuporte[c] # Head(queue)
                  /\ \A i \in DOMAIN Tail(queue) : Tail(queue)[i] # Head(queue)
           /\ \A i \in DOMAIN Tail(queue) : Tail(queue)[i] \in Supports =>
                  /\ support[Tail(queue)[i]] \in {"dialing", "asking", "left"}
                  /\ \A c \in Clients : sockSuporte[c] # Tail(queue)[i]
           /\ \A i, j \in DOMAIN Tail(queue) :
                  Tail(queue)[i] = Tail(queue)[j] /\ Tail(queue)[i] \in Supports => i = j
<1> DEFINE t == Tail(queue)
<1>1. queue \in Seq(Clients \cup Supports)
  BY DEF MInv, Inv, TypeInv
<1>2. /\ \A i \in DOMAIN t : i \in Nat /\ i >= 1 /\ i + 1 \in DOMAIN queue /\ t[i] = queue[i + 1]
      /\ Head(queue) = queue[1] /\ 1 \in DOMAIN queue /\ Head(queue) \in Clients \cup Supports
  BY <1>1
<1> HIDE DEF t
<1>3. queue[1] \in Supports =>
          /\ \A c \in Clients : sockSuporte[c] # queue[1]
          /\ \A i \in DOMAIN t : t[i] # queue[1]
  <2>1. \A i \in DOMAIN t : i + 1 # 1
    BY <1>2
  <2> QED  BY <1>2, <2>1 DEF MInv, ServedInv
<1>4. \A i \in DOMAIN t : t[i] \in Supports =>
          /\ support[t[i]] \in {"dialing", "asking", "left"}
          /\ \A c \in Clients : sockSuporte[c] # t[i]
  BY <1>2 DEF MInv, ServedInv
<1>5. ASSUME NEW i \in DOMAIN t, NEW j \in DOMAIN t, t[i] = t[j], t[i] \in Supports PROVE i = j
  <2>1. i + 1 = j + 1
    BY <1>2, <1>5 DEF MInv, ServedInv
  <2> QED  BY <1>2, <2>1
<1> QED  BY <1>2, <1>3, <1>4, <1>5 DEF t

\* A terminal is answered.
LEMMA AcceptClientMirror == ASSUME MInv, AcceptClient PROVE Rest'
<1> USE DEF supportVars
<1> DEFINE c == Head(queue)
<1>1. /\ c \in Clients /\ queue # <<>> /\ queue' = Tail(queue) /\ pc' = "put"
      /\ client[c] \in {"waiting", "gone"}
      /\ client' = [client EXCEPT ![c] = IF client[c] = "waiting" THEN "answered" ELSE client[c]]
      /\ agent' = [agent EXCEPT ![c] = "running"]
      /\ UNCHANGED <<screen, toAgent, dados, pendentes, sockSuporte, support, asked, view,
                     direct, doubt>>
  BY DEF AcceptClient, Accepts, AgentBecomes
<1>2. Alive(c)
  BY <1>1 DEF MInv, Inv, TypeInv, QueueInv, Alive
<1> HIDE DEF c
<1>3. ScreenTypes' /\ StateTypes'
  BY <1>1 DEF MInv, ScreenTypes, StateTypes
<1>4. ServedInv'
  BY <1>1, QueueTail DEF MInv, ServedInv
<1>5. StageInv'
  BY <1>1 DEF MInv, Inv, TypeInv, StageInv, Early
<1>6. StreamInv'
  BY <1>1, <1>2 DEF MInv, Inv, TypeInv, StateTypes, StreamInv, Alive
<1>7. FirstInv'
  BY <1>1, PartsUnchanged DEF MInv
<1>8. SendInv' /\ ReplayInv' /\ SeenInv'
  BY <1>1 DEF SendInv, ReplayInv, SeenInv
<1> QED  BY <1>3, <1>4, <1>5, <1>6, <1>7, <1>8 DEF Rest

\* Central goes back to accept.
LEMMA AcceptAgainMirror ==
    ASSUME MInv, pc' = "accept",
           UNCHANGED <<client, screen, toAgent, agent, dados, pendentes, sockSuporte, queue,
                       support, asked, view, direct>>
    PROVE  Rest'
<1>1. ScreenTypes' /\ StateTypes'
  BY DEF MInv, ScreenTypes, StateTypes
<1>2. ServedInv'
  BY DEF MInv, ServedInv
<1>3. StageInv' /\ FirstInv' /\ StreamInv'
  BY PartsUnchanged DEF MInv
<1>4. SendInv' /\ ReplayInv' /\ SeenInv'
  BY DEF SendInv, ReplayInv, SeenInv
<1> QED  BY <1>1, <1>2, <1>3, <1>4 DEF Rest

\* An exception ends the thread.
LEMMA AcceptFailsMirror == ASSUME MInv, AcceptFails PROVE Rest'
<1> USE DEF clientVars, agentVars, supportVars
<1>1. /\ queue # <<>> /\ queue' = Tail(queue) /\ pc' = "dead"
      /\ UNCHANGED <<client, screen, toAgent, agent, dados, pendentes, sockSuporte, support, asked,
                     view, direct, doubt>>
  BY DEF AcceptFails, Accepts
<1>2. ScreenTypes' /\ StateTypes'
  BY <1>1 DEF MInv, ScreenTypes, StateTypes
<1>3. ServedInv'
  BY <1>1, QueueTail DEF MInv, ServedInv
<1>4. StageInv' /\ FirstInv' /\ StreamInv'
  BY <1>1, PartsUnchanged DEF MInv
<1>5. SendInv' /\ ReplayInv' /\ SeenInv'
  BY <1>1 DEF SendInv, ReplayInv, SeenInv
<1> QED  BY <1>2, <1>3, <1>4, <1>5 DEF Rest

\* A support is accepted, or refused: it is the support of no terminal yet.
LEMMA AcceptSupportMirror == ASSUME MInv, AcceptSupport PROVE Rest'
<1> USE DEF clientVars, agentVars
<1> DEFINE s == Head(queue)
<1>1. /\ s \in Supports /\ queue # <<>> /\ queue' = Tail(queue) /\ pc = "accept"
      /\ UNCHANGED <<client, screen, toAgent, agent, dados, pendentes, sockSuporte, asked, view,
                     direct, doubt>>
      /\ support[s] \in {"asking", "left"} /\ asked[s] # <<>>
      /\ support' = [support EXCEPT ![s] = support'[s]]
      /\ \/ support'[s] \in {"refused", "left"} /\ pc' = "accept"
         \/ /\ support'[s] \in {"connected", "left"}
            /\ pc' = "send" /\ who' = asked[s][2] /\ sup' = s /\ pos' = 1
  BY DEF AcceptSupport, Accepts, MInv, StateTypes
<1>2. \A i \in DOMAIN Tail(queue) : Tail(queue)[i] # s
  BY <1>1, QueueTail
<1>4. \A c \in Clients : sockSuporte[c] # s
  BY <1>1, QueueTail
<1> HIDE DEF s
<1>3. asked[s][2] \in Clients
  BY <1>1 DEF MInv, StateTypes
<1>5. ScreenTypes' /\ StateTypes'
  BY <1>1 DEF MInv, ScreenTypes, StateTypes
<1>6. \A x \in Supports : x # s => support'[x] = support[x]
  BY <1>1 DEF MInv, StateTypes
<1>7. ServedInv'
  <2>1. /\ \A i \in DOMAIN queue' : queue'[i] \in Supports =>
               /\ support'[queue'[i]] \in {"dialing", "asking", "left"}
               /\ \A c \in Clients : sockSuporte'[c] # queue'[i]
               /\ pc' \in {"send", "replay", "relay"} => sup' # queue'[i]
        /\ \A i, j \in DOMAIN queue' : queue'[i] = queue'[j] /\ queue'[i] \in Supports => i = j
    BY <1>1, <1>2, <1>6, QueueTail
  <2>2. \A c \in Clients : sockSuporte'[c] # None => support'[sockSuporte'[c]] \in {"connected", "left"}
    BY <1>1, <1>4, <1>6 DEF MInv, ServedInv, StateTypes
  <2>3. pc' \in {"send", "replay", "relay"} =>
            /\ who' \in Clients /\ sup' \in Supports /\ support'[sup'] \in {"connected", "left"}
            /\ \A c \in Clients : sockSuporte'[c] = sup' => c = who' /\ pc' # "send"
    BY <1>1, <1>3, <1>4 DEF MInv, StateTypes
  <2> QED  BY <2>1, <2>2, <2>3 DEF ServedInv
<1>8. StageInv' /\ FirstInv' /\ StreamInv'
  BY <1>1, PartsUnchanged DEF MInv
<1>9. SendInv' /\ ReplayInv' /\ SeenInv'
  <2>1. \A p \in Cells : ~ (p[1] < 1)
    BY RowCells DEF Rows
  <2> QED  BY <1>1, <2>1 DEF SendInv, ReplayInv, SeenInv
<1> QED  BY <1>5, <1>7, <1>8, <1>9 DEF Rest

\* A line of the screen is screen, as the terminal screen it first.
LEMMA SendLineMirror == ASSUME MInv, SendLine PROVE Rest'
<1> USE DEF clientVars
<1> DEFINE m == Message("DADOS", dados[who], Row(pos))
<1>10. pc = "send" => pos >= 1
  BY DEF MInv, SendInv
<1>1. /\ pc = "send" /\ pos <= Lines
      /\ UNCHANGED <<client, screen, toAgent, agent, dados, pendentes, sockSuporte, queue, who,
                     sup, size, support, asked, direct, doubt>>
      /\ \/ pc' = "dead" /\ UNCHANGED view
         \/ /\ \A p \in Row(pos) : dados[who][p] # 0
            /\ pc' = pc /\ pos' = pos + 1
            /\ IF support[sup] = "connected" THEN view' = [view EXCEPT ![sup] = Over(view[sup], m.v)]
                                             ELSE UNCHANGED view
  BY DEF SendLine, CentralOnly, Shows
<1>2. who \in Clients /\ sup \in Supports /\ pos \in Nat
  BY <1>1 DEF MInv, ServedInv, SendInv
<1>3. dados[who] \in [Cells -> Nat] /\ view[sup] \in [Cells -> Nat]
  BY <1>2 DEF MInv, ScreenTypes
<1>11. ASSUME pos \in Rows
       PROVE  /\ m.v \in Parts /\ Row(pos) \in SUBSET Cells
              /\ DOMAIN m.v = Row(pos) /\ \A p \in Row(pos) : m.v[p] = dados[who][p]
  <2>1. Row(pos) \in SUBSET Cells
    BY <1>11, RowCells
  <2>2. m \in Messages /\ DOMAIN m.v = Row(pos) /\ \A p \in Row(pos) : m.v[p] = dados[who][p]
    BY <1>3, <2>1, MessageCells
  <2> QED  BY <2>1, <2>2, PartCells
<1>12. pc' = pc => pos \in Rows
  BY <1>1, <1>2, <1>10, SizeAssumption DEF Rows
<1> HIDE DEF m
<1>4. pc' = pc => Over(view[sup], m.v) \in [Cells -> Nat]
  BY <1>3, <1>11, <1>12, OverCells
<1>5. ScreenTypes' /\ StateTypes'
  BY <1>1, <1>2, <1>4 DEF MInv, ScreenTypes, StateTypes
<1>6. ServedInv'
  BY <1>1 DEF MInv, ServedInv
<1>7. StageInv' /\ FirstInv' /\ StreamInv'
  BY <1>1, PartsUnchanged DEF MInv
<1>8. SendInv'
  <2> SUFFICES ASSUME pc' = "send" PROVE SendInv'
    BY DEF SendInv
  <2>1. /\ \A p \in Row(pos) : dados[who][p] # 0
        /\ pos' = pos + 1 /\ pos' \in Nat \ {0} /\ pos \in Rows
    BY <1>1, <1>2, <1>12
  <2>2. ASSUME NEW p \in Cells, p[1] < pos + 1 PROVE p \in Row(pos) \/ p[1] < pos
    BY <1>2, <2>1, <2>2, RowCells
  <2>3. \A p \in Cells : p[1] < pos => dados[who][p] # 0
                        /\ (support[sup] = "connected" => view[sup][p] = dados[who][p])
    BY <1>1 DEF MInv, SendInv
  <2>4. support[sup] = "connected" =>
            \A p \in Cells : view'[sup][p] = IF p \in Row(pos) THEN dados[who][p] ELSE view[sup][p]
    <3> SUFFICES ASSUME support[sup] = "connected", NEW p \in Cells
                 PROVE  view'[sup][p] = IF p \in Row(pos) THEN dados[who][p] ELSE view[sup][p]
      OBVIOUS
    <3>1. view'[sup] = Over(view[sup], m.v)
      BY <1>1, <1>2 DEF MInv, ScreenTypes
    <3>2. m.v \in Parts /\ DOMAIN m.v = Row(pos) /\ (p \in Row(pos) => m.v[p] = dados[who][p])
      BY <1>11, <2>1
    <3>3. Over(view[sup], m.v)[p] = IF p \in DOMAIN m.v THEN m.v[p] ELSE view[sup][p]
      BY <1>3, <3>2, OverCells
    <3> QED  BY <3>1, <3>2, <3>3
  <2> QED  BY <1>1, <2>1, <2>2, <2>3, <2>4 DEF SendInv
<1>9. ReplayInv' /\ SeenInv'
  BY <1>1 DEF ReplayInv, SeenInv
<1> QED  BY <1>5, <1>6, <1>7, <1>8, <1>9 DEF Rest

\* The support is the terminal's from here on; what went to another is in doubt.
LEMMA SetSockMirror == ASSUME MInv, SetSock PROVE Rest'
<1> USE DEF clientVars
<1>1. /\ pc = "send" /\ pos > Lines /\ pc' = "replay" /\ pos' = 1 /\ size' = Len(pendentes[who])
      /\ sockSuporte' = [sockSuporte EXCEPT ![who] = sup] /\ doubt' = direct[who]
      /\ UNCHANGED <<client, screen, toAgent, agent, dados, pendentes, queue, who, sup, support,
                     asked, view, direct>>
  BY DEF SetSock, CentralOnly
<1>2. who \in Clients /\ sup \in Supports /\ pos \in Nat /\ support[sup] \in {"connected", "left"}
  BY <1>1 DEF MInv, ServedInv, SendInv
<1>3. ScreenTypes' /\ StateTypes'
  BY <1>1, <1>2 DEF MInv, ScreenTypes, StateTypes
<1>4. \A c \in Clients : sockSuporte'[c] = IF c = who THEN sup ELSE sockSuporte[c]
  BY <1>1 DEF MInv, StateTypes
<1>5. ServedInv'
  BY <1>1, <1>2, <1>4 DEF MInv, ServedInv
<1>6. StageInv' /\ FirstInv' /\ StreamInv'
  BY <1>1, PartsUnchanged DEF MInv
<1>7. Len(pendentes[who]) \in Nat
  BY <1>2 DEF MInv, ScreenTypes
<1>8. SendInv' /\ ReplayInv'
  BY <1>1, <1>7 DEF SendInv, ReplayInv
<1>9. \A p \in Cells : p[1] < pos
  BY <1>1, <1>2, SizeAssumption, RowCells DEF Rows
<1>10. \A p \in Cells : dados[who][p] # 0
                       /\ (support[sup] = "connected" => view[sup][p] = dados[who][p])
  BY <1>1, <1>9 DEF MInv, SendInv
<1>11. \A p \in Cells : Settled(pendentes[who], 0, dados[who][p], p, dados[who][p])
  BY DEF Settled
<1>12. Shown' = 0
  BY <1>1 DEF Shown
<1>13. SeenInv'
  <2>1. sockSuporte'[who'] = sup' /\ \A p \in Cells : dados'[who'][p] # 0
    BY <1>1, <1>2, <1>4, <1>10
  <2>2. ASSUME NEW p \in Cells, p \notin doubt', support'[sup'] = "connected"
        PROVE  /\ p \notin direct'[who']
               /\ Settled(pendentes'[who'], Shown', dados'[who'][p], p, view'[sup'][p])
    BY <1>1, <1>10, <1>11, <1>12, <2>2
  <2> QED  BY <2>1, <2>2 DEF SeenInv
<1> QED  BY <1>3, <1>5, <1>6, <1>8, <1>13 DEF Rest

\* A message of pendentes is replayed.
LEMMA ReplayMirror == ASSUME MInv, Replay PROVE Rest'
<1> USE DEF clientVars
<1> DEFINE P == pendentes[who]
           m == P[pos]
<1>1. /\ pc = "replay" /\ pos # Len(P) + 1
      /\ UNCHANGED <<client, screen, toAgent, agent, dados, pendentes, sockSuporte, queue, who,
                     sup, size, support, asked, direct, doubt>>
      /\ \/ pc' = "dead" /\ UNCHANGED view
         \/ /\ size = Len(P) /\ pc' = pc /\ pos' = pos + 1
            /\ IF support[sup] = "connected" THEN view' = [view EXCEPT ![sup] = Over(view[sup], m.v)]
                                             ELSE UNCHANGED view
  BY DEF Replay, CentralOnly, Shows
<1>2. /\ who \in Clients /\ sup \in Supports /\ pos \in Nat \ {0} /\ size \in Nat
      /\ pos <= size + 1 /\ size <= Len(P)
  BY <1>1 DEF MInv, ServedInv, ReplayInv
<1>3. P \in Seq(Messages) /\ view[sup] \in [Cells -> Nat]
  BY <1>2 DEF MInv, ScreenTypes
<1>4. size = Len(P) => pos \in DOMAIN P /\ m \in Messages
  BY <1>1, <1>2, <1>3
<1>5. size = Len(P) =>
          /\ Over(view[sup], m.v) \in [Cells -> Nat]
          /\ \A p \in Cells : Over(view[sup], m.v)[p] = IF p \in DOMAIN m.v THEN m.v[p] ELSE view[sup][p]
  BY <1>3, <1>4, PartCells, OverCells
<1> HIDE DEF P, m
<1>6. view' \in [Supports -> [Cells -> Nat]]
  BY <1>1, <1>2, <1>5 DEF MInv, ScreenTypes
<1>7. ScreenTypes' /\ StateTypes'
  BY <1>1, <1>6 DEF MInv, ScreenTypes, StateTypes
<1>8. ServedInv'
  BY <1>1 DEF MInv, ServedInv
<1>9. StageInv' /\ FirstInv' /\ StreamInv'
  BY <1>1, PartsUnchanged DEF MInv
<1>10. CASE pc' = "dead"
  BY <1>7, <1>8, <1>9, <1>10 DEF Rest, SendInv, ReplayInv, SeenInv
<1>11. CASE pc' # "dead"
  <2>1. size = Len(P) /\ pc' = "replay" /\ pos' = pos + 1
    BY <1>1, <1>11
  <2>2. SendInv' /\ ReplayInv'
    BY <1>1, <1>2, <1>3, <1>4, <2>1 DEF SendInv, ReplayInv, P
  <2>3. Shown = pos - 1 /\ Shown' = pos /\ pos \in DOMAIN P
    BY <1>1, <1>2, <1>4, <2>1 DEF Shown
  <2>4. sockSuporte[who] = sup /\ \A p \in Cells : dados[who][p] # 0
    BY <1>1 DEF MInv, SeenInv
  <2>5. ASSUME NEW p \in Cells, p \notin doubt, agent[who] # "dead", support[sup] = "connected"
        PROVE  /\ p \notin direct[who] => Settled(P, pos, dados[who][p], p, view'[sup][p])
               /\ p \in direct[who] => /\ \A i \in (pos + 1) .. Len(P) : p \notin DOMAIN P[i].v
                                       /\ ~About(toAgent[who], p) => view'[sup][p] = screen[who][p]
    <3>1. view'[sup][p] = IF p \in DOMAIN m.v THEN m.v[p] ELSE view[sup][p]
      BY <1>1, <1>2, <1>5, <1>11, <2>1, <2>5 DEF MInv, ScreenTypes
    <3>2. /\ p \notin direct[who] => Settled(P, pos - 1, dados[who][p], p, view[sup][p])
          /\ p \in direct[who] => /\ \A i \in ((pos - 1) + 1) .. Len(P) : p \notin DOMAIN P[i].v
                                  /\ ~About(toAgent[who], p) => view[sup][p] = screen[who][p]
      BY <1>1, <2>3, <2>5 DEF MInv, SeenInv, P
    <3>3. pos - 1 \in Nat /\ (pos - 1) + 1 = pos /\ P[pos] = m
      BY <1>2 DEF m
    <3>4. p \notin direct[who] => Settled(P, pos, dados[who][p], p, view'[sup][p])
      <4>1. p \notin direct[who] => Settled(P, (pos - 1) + 1, dados[who][p], p, view'[sup][p])
        BY <3>1, <3>2, <3>3, SettledNext
      <4> QED  BY <3>3, <4>1
    <3>5. pos \in pos .. Len(P) /\ \A i \in (pos + 1) .. Len(P) : i \in pos .. Len(P)
      BY <1>2, <1>3, <2>3
    <3>6. p \in direct[who] => p \notin DOMAIN m.v
      BY <3>2, <3>3, <3>5
    <3> QED  BY <3>1, <3>2, <3>3, <3>4, <3>5, <3>6
  <2>6. SeenInv'
    BY <1>1, <2>1, <2>3, <2>4, <2>5 DEF SeenInv, P
  <2> QED  BY <1>7, <1>8, <1>9, <2>2, <2>6 DEF Rest
<1> QED  BY <1>10, <1>11

\* All of pendentes was replayed, or the support has left.
LEMMA RelayMirror ==
    ASSUME MInv, pc = "replay", pc' = "relay",
           pos = Len(pendentes[who]) + 1 \/ support[sup] = "left",
           UNCHANGED <<client, screen, toAgent, agent, dados, pendentes, sockSuporte, queue, who,
                       sup, support, asked, view, direct, doubt>>
    PROVE  Rest'
<1>1. ScreenTypes' /\ StateTypes'
  BY DEF MInv, ScreenTypes, StateTypes
<1>2. ServedInv'
  BY DEF MInv, ServedInv
<1>3. StageInv' /\ FirstInv' /\ StreamInv'
  BY PartsUnchanged DEF MInv
<1>4. SendInv' /\ ReplayInv'
  BY DEF SendInv, ReplayInv
<1>5. Len(pendentes[who]) \in Nat /\ pos \in Nat
  BY DEF MInv, ScreenTypes, ServedInv, ReplayInv
<1>6. support[sup] = "connected" => Shown' = Shown
  BY <1>5 DEF Shown
<1>7. SeenInv'
  BY <1>6 DEF MInv, SeenInv
<1> QED  BY <1>1, <1>2, <1>3, <1>4, <1>7 DEF Rest

\* A support connects: nobody serves it yet.
LEMMA DialMirror == ASSUME MInv, NEW s \in Supports, Dial(s) PROVE Rest'
<1> USE DEF clientVars, agentVars, centralVars
<1>1. /\ support[s] = "off" /\ support' = [support EXCEPT ![s] = "dialing"]
      /\ queue' = Append(queue, s)
      /\ UNCHANGED <<client, screen, toAgent, agent, dados, pendentes, sockSuporte, pc, who,
                     sup, pos, size, asked, view, direct, doubt>>
  BY DEF Dial
<1>2. queue \in Seq(Clients \cup Supports)
  BY DEF MInv, Inv, TypeInv
<1>3. ScreenTypes' /\ StateTypes'
  BY <1>1 DEF MInv, ScreenTypes, StateTypes
<1>4. \A x \in Supports : support'[x] = IF x = s THEN "dialing" ELSE support[x]
  BY <1>1 DEF MInv, StateTypes
<1>5. /\ \A i \in DOMAIN queue : queue[i] # s
      /\ \A c \in Clients : sockSuporte[c] # s
      /\ pc \in {"send", "replay", "relay"} => sup # s
  <2>1. s # None
    BY PartiesAssumption
  <2> QED  BY <1>1, <2>1 DEF MInv, ServedInv
<1>6. ServedInv'
  <2>1. \A i \in DOMAIN queue' : queue'[i] \in Supports =>
            /\ support'[queue'[i]] \in {"dialing", "asking", "left"}
            /\ \A c \in Clients : sockSuporte[c] # queue'[i]
            /\ pc \in {"send", "replay", "relay"} => sup # queue'[i]
    <3>1. \A i \in DOMAIN queue' : queue'[i] = s \/ (i \in DOMAIN queue /\ queue'[i] = queue[i])
      BY <1>1, <1>2
    <3> QED  BY <1>4, <1>5, <3>1 DEF MInv, ServedInv
  <2>2. \A i, j \in DOMAIN queue' : queue'[i] = queue'[j] /\ queue'[i] \in Supports => i = j
    BY <1>1, <1>2, <1>5 DEF MInv, ServedInv
  <2>3. \A k \in Clients : sockSuporte[k] # None => support'[sockSuporte[k]] \in {"connected", "left"}
    BY <1>1, <1>4 DEF MInv, ServedInv, StateTypes
  <2>4. pc \in {"send", "replay", "relay"} => support'[sup] \in {"connected", "left"}
    BY <1>1, <1>4 DEF MInv, ServedInv
  <2> QED  BY <1>1, <2>1, <2>2, <2>3, <2>4 DEF MInv, ServedInv
<1>7. StageInv' /\ FirstInv' /\ StreamInv' /\ ReplayInv'
  BY <1>1, PartsUnchanged DEF MInv
<1>8. pc \in {"send", "replay", "relay"} => support'[sup] = support[sup]
  BY <1>1, <1>4 DEF MInv, ServedInv
<1>9. SendInv' /\ SeenInv'
  BY <1>1, <1>8 DEF MInv, SendInv, SeenInv, Shown
<1> QED  BY <1>3, <1>6, <1>7, <1>9 DEF Rest

\* A support that has not been accepted asks or leaves, or the one connected
\* leaves: what it saw does not matter any more.
LEMMA LeaveMirror ==
    ASSUME MInv, NEW s \in Supports, Leave(s) \/ \E typed \in Keys : Ask(s, typed)
    PROVE  Rest'
<1> USE DEF clientVars, agentVars, centralVars
<1>1. PICK state \in {"asking", "left"} :
         /\ support[s] \in {"dialing", "asking", "connected"}
         /\ state = "asking" => support[s] = "dialing"
         /\ support' = [support EXCEPT ![s] = state]
         /\ \/ view' = view
            \/ state = "left" /\ view' = [view EXCEPT ![s] = [p \in Cells |-> 0]]
         /\ asked' = asked \/ \E typed \in Keys : asked' = [asked EXCEPT ![s] = typed]
         /\ UNCHANGED <<client, screen, toAgent, agent, dados, pendentes, sockSuporte, queue, pc,
                        who, sup, pos, size, direct, doubt>>
  BY DEF Leave, Ask
<1>2. ScreenTypes' /\ StateTypes'
  <2>1. Keys \subseteq {<<>>} \cup (Nat \X Clients)
    BY DEF Keys, MInv, Inv, TypeInv
  <2>2. asked' \in [Supports -> {<<>>} \cup (Nat \X Clients)]
    BY <1>1, <2>1 DEF MInv, StateTypes
  <2>3. view' \in [Supports -> [Cells -> Nat]]
    <3>1. [p \in Cells |-> 0] \in [Cells -> Nat]
      OBVIOUS
    <3> QED  BY <1>1, <3>1 DEF MInv, ScreenTypes
  <2>4. ScreenTypes'
    BY <1>1, <2>3 DEF MInv, ScreenTypes
  <2>5. StateTypes'
    BY <1>1, <2>2 DEF MInv, StateTypes
  <2> QED  BY <2>4, <2>5
<1>3. \A x \in Supports : /\ support'[x] = IF x = s THEN state ELSE support[x]
                          /\ x # s => view'[x] = view[x]
  BY <1>1 DEF MInv, ScreenTypes, StateTypes
<1>4. ServedInv'
  <2>1. \A i \in DOMAIN queue : queue[i] \in Supports =>
            /\ support'[queue[i]] \in {"dialing", "asking", "left"}
            /\ \A c \in Clients : sockSuporte[c] # queue[i]
            /\ pc \in {"send", "replay", "relay"} => sup # queue[i]
    BY <1>1, <1>3 DEF MInv, ServedInv
  <2>2. \A k \in Clients : sockSuporte[k] # None => support'[sockSuporte[k]] \in {"connected", "left"}
    BY <1>1, <1>3 DEF MInv, ServedInv, StateTypes
  <2>3. pc \in {"send", "replay", "relay"} => support'[sup] \in {"connected", "left"}
    BY <1>1, <1>3 DEF MInv, ServedInv
  <2> QED  BY <1>1, <2>1, <2>2, <2>3 DEF MInv, ServedInv
<1>5. StageInv' /\ FirstInv' /\ StreamInv' /\ ReplayInv'
  BY <1>1, PartsUnchanged DEF MInv
<1>6. SendInv' /\ SeenInv'
  <2>1. pc \in {"send", "replay", "relay"} /\ support'[sup] = "connected" =>
            support[sup] = "connected" /\ view'[sup] = view[sup]
    BY <1>3 DEF MInv, ServedInv
  <2> QED  BY <1>1, <2>1 DEF MInv, SendInv, SeenInv, Shown
<1> QED  BY <1>2, <1>4, <1>5, <1>6 DEF Rest

--------------------------------------------------------------------------------
(* The theorems about what the support sees                                *)

\* Every step keeps the invariant.
LEMMA MirrorStep == MInv /\ [Next]_vars => MInv'
<1> SUFFICES ASSUME MInv, [Next]_vars PROVE MInv'
  OBVIOUS
<1> USE DEF clientVars, agentVars, centralVars, supportVars
<1>1. Inv'
  BY SharingStep DEF MInv
<1>2. ASSUME NEW c \in Clients, Connect(c) \/ SendKey(c) \/ compartilha(c) PROVE Rest'
  BY <1>2, ConnectMirror, CompartilhaMirror
<1>3. ASSUME NEW c \in Clients, NEW r \in Regions, Draw(c, r) PROVE Rest'
  BY <1>3, DrawMirror
<1>4. ASSUME NEW c \in Clients, NEW how \in {"STOP", "EOF"}, Close(c, how) PROVE Rest'
  BY <1>4, CloseMirror
<1>5. ASSUME NEW c \in Clients, Agente(c) PROVE Rest'
  BY <1>5, DadosMirror, RefreshMirror, AddMirror, WriteMirror, EndMirror DEF Agente
<1>6. ASSUME Central \/ RelayFails PROVE Rest'
  <2>1. CASE Put \/ RelayEnds \/ RelayFails
    BY <2>1, AcceptAgainMirror DEF Put, RelayEnds, RelayFails, AcceptAgain, CentralOnly
  <2>2. CASE SendFails
    <3>1. CASE pc = "send"
      BY <2>2, <3>1, AcceptAgainMirror DEF SendFails, AcceptAgain, CentralOnly
    <3>2. CASE pc = "replay"
      BY <2>2, <3>2, RelayMirror DEF SendFails, CentralOnly
    <3> QED  BY <2>2, <3>1, <3>2 DEF SendFails
  <2>3. CASE Replayed
    BY <2>3, RelayMirror DEF Replayed, CentralOnly
  <2>4. CASE AcceptClient \/ AcceptSupport \/ AcceptFails \/ SendLine \/ SetSock \/ Replay
    BY <2>4, AcceptClientMirror, AcceptSupportMirror, AcceptFailsMirror, SendLineMirror,
       SetSockMirror, ReplayMirror
  <2> QED  BY <1>6, <2>1, <2>2, <2>3, <2>4 DEF Central, Serve
<1>7. ASSUME NEW s \in Supports, Leave(s) \/ \E typed \in Keys : Ask(s, typed) PROVE Rest'
  BY <1>7, LeaveMirror
<1>8. ASSUME NEW s \in Supports, Dial(s) PROVE Rest'
  BY <1>8, DialMirror
<1>9. ASSUME UNCHANGED vars PROVE Rest'
  <2>1. ScreenTypes' /\ StateTypes'
    BY <1>9 DEF vars, MInv, ScreenTypes, StateTypes
  <2>2. /\ UNCHANGED <<queue, support, asked, sockSuporte, pc, who, sup, pos, size, doubt, direct>>
        /\ UNCHANGED <<client, agent, toAgent, pendentes, dados, view, screen>>
    BY <1>9 DEF vars
  <2> QED  BY <2>1, <2>2, PartsUnchanged DEF MInv, Rest
<1>10. Rest'
  BY <1>2, <1>3, <1>4, <1>5, <1>6, <1>7, <1>8, <1>9 DEF Next
<1> QED  BY <1>1, <1>10 DEF MInv, Rest

\* The invariant holds throughout.
LEMMA MirrorInvariant == Spec => []MInv
BY MirrorInit, MirrorStep, PTL DEF Spec

\* Agente.java: for any numbers of terminals, supports, lines, columns and batches,
\* once nothing is on its way the support sees every cell that is not in doubt as
\* the terminal last sent it.
THEOREM MirrorCorrect == Spec => []Mirror
<1>1. MInv => Mirror
  <2> SUFFICES ASSUME MInv, NEW c \in Clients, NEW s \in Supports, Quiet(c, s), NEW p \in Cells \ doubt
               PROVE  view[s][p] = screen[c][p]
    BY DEF Mirror
  <2>1. /\ pc = "relay" /\ who = c /\ sup = s /\ support[s] = "connected"
        /\ agent[c] = "running" /\ toAgent[c] = <<>> /\ p \in Cells
    BY DEF Quiet
  <2>2. ~About(toAgent[c], p)
    BY <2>1 DEF About
  <2>3. /\ p \notin direct[c] => Settled(pendentes[c], Len(pendentes[c]), dados[c][p], p, view[s][p])
        /\ p \in direct[c] => view[s][p] = screen[c][p]
        /\ dados[c][p] # 0
    BY <2>1, <2>2 DEF MInv, SeenInv, Shown
  <2>4. Alive(c)
    BY <2>1 DEF Alive
  <2>5. p \notin direct[c] => Settled(pendentes[c], Len(pendentes[c]), dados[c][p], p, screen[c][p])
    BY <2>1, <2>2, <2>3, <2>4 DEF MInv, StreamInv
  <2>6. Len(pendentes[c]) \in Nat
    BY DEF MInv, ScreenTypes
  <2>7. CASE p \notin direct[c]
    BY <2>3, <2>5, <2>6, <2>7, SettledUnique
  <2> QED  BY <2>3, <2>7
<1> QED  BY MirrorInvariant, <1>1, PTL
================================================================================
