------------------------ MODULE SocketAgents_proofs -------------------------
(***************************************************************************)
(* Proof about the agents of the socket factory: as long as no other       *)
(* process holds a port that was agreed and nobody leaves a host that is   *)
(* shared, the two ends of a connection are the agents of two parties for  *)
(* each other and for matching purposes.                                   *)
(*                                                                         *)
(* First the programs: the two parties of a pair create corresponding      *)
(* agents in the same order, whatever the setup (ProgramPlanned, by the    *)
(* rank of a purpose).  Then the states: what a party has still to do, and *)
(* for every pair of a server and its client how far each has come, what   *)
(* is on its way between them and which socket the server listens on       *)
(* (Pair).  A step of a party is for one peer, so it concerns one pair and *)
(* leaves the others as they are (StepKeeps).                              *)
(***************************************************************************)
EXTENDS SocketAgents, TLAPS

(* What an agent is for.                                                   *)
Initial == <<"initial">>
Purposes == {Initial, <<"engine">>}
              \cup ({"boolean", "integer"} \X {"sender", "receiver", "bidirection"})

(* The place of a purpose in what the two parties of a pair do for each    *)
(* other, in the order of the party of the lower id.                       *)
lowFirst(g) == IF g = "boolean" /\ setup.numberOfParty = 2 THEN "sender" ELSE "receiver"
roleRank(g, role) == IF role = "bidirection" THEN 2 ELSE IF role = lowFirst(g) THEN 0 ELSE 1
first == IF setup.rightToLeft THEN "integer" ELSE "boolean"
rankAtServer(x) ==
  IF x = Initial THEN 0 ELSE IF x = <<"engine">> THEN 1
  ELSE (IF x[1] = first THEN 2 ELSE 5) + roleRank(x[1], x[2])
rank(p, q, x) == IF p < q THEN rankAtServer(x) ELSE rankAtServer(Corresponding(x))

(* What corresponds to each purpose. *)
LEMMA PurposeCases ==
  ASSUME NEW x \in Purposes
  PROVE  \/ x = <<"initial">> /\ Corresponding(x) = <<"initial">>
         \/ x = <<"engine">> /\ Corresponding(x) = <<"engine">>
         \/ \E g \in {"boolean", "integer"} :
              \/ x = <<g, "sender">> /\ Corresponding(x) = <<g, "receiver">>
              \/ x = <<g, "receiver">> /\ Corresponding(x) = <<g, "sender">>
              \/ x = <<g, "bidirection">> /\ Corresponding(x) = <<g, "bidirection">>
<1>1. CASE x = <<"initial">>
  BY <1>1 DEF Corresponding, Last
<1>2. CASE x = <<"engine">>
  BY <1>2 DEF Corresponding, Last
<1>3. ASSUME NEW g \in {"boolean", "integer"}, NEW r \in {"sender", "receiver", "bidirection"},
             x = <<g, r>>
      PROVE  \/ x = <<g, "sender">> /\ Corresponding(x) = <<g, "receiver">>
             \/ x = <<g, "receiver">> /\ Corresponding(x) = <<g, "sender">>
             \/ x = <<g, "bidirection">> /\ Corresponding(x) = <<g, "bidirection">>
  <2>1. Last(x) = r /\ Head(x) = g
    BY <1>3 DEF Last
  <2> QED BY <1>3, <2>1 DEF Corresponding
<1> QED BY <1>1, <1>2, <1>3 DEF Purposes, Initial

(* Corresponding is its own inverse. *)
LEMMA CorrespondingTwice ==
  ASSUME NEW x \in Purposes
  PROVE  Corresponding(x) \in Purposes /\ Corresponding(Corresponding(x)) = x
<1>1. Corresponding(x) \in Purposes
  BY PurposeCases DEF Purposes, Initial
<1> QED BY <1>1, PurposeCases

(* A server and its client do the steps for each other in the same order. *)
LEMMA RankIs ==
  ASSUME NEW x \in Purposes
  PROVE  /\ rankAtServer(x) \in Nat
         /\ rankAtServer(x) = 0 <=> x = Initial
         /\ \A y \in Purposes : rankAtServer(x) = rankAtServer(y) => x = y
<1>0. ASSUME NEW z \in Purposes
      PROVE  /\ rankAtServer(z) \in Nat
             /\ rankAtServer(z) = 0 <=> z = Initial
             /\ rankAtServer(z) = 1 <=> z = <<"engine">>
  <2>1. CASE z = Initial
    BY <2>1 DEF rankAtServer, Initial
  <2>2. CASE z = <<"engine">>
    BY <2>2 DEF rankAtServer, Initial
  <2>3. ASSUME NEW g \in {"boolean", "integer"}, NEW r \in {"sender", "receiver", "bidirection"},
               z = <<g, r>>
        PROVE  rankAtServer(z) \in Nat /\ rankAtServer(z) > 1 /\ z # Initial /\ z # <<"engine">>
    <3>1. z[1] = g /\ z[2] = r /\ z # Initial /\ z # <<"engine">>
      BY <2>3 DEF Initial
    <3>2. roleRank(g, r) \in 0..2
      BY DEF roleRank
    <3> QED BY ONLY <3>1, <3>2 DEF rankAtServer
  <2> QED BY <2>1, <2>2, <2>3 DEF Purposes
<1>1. rankAtServer(x) \in Nat /\ (rankAtServer(x) = 0 <=> x = Initial)
  BY <1>0
<1>2. ASSUME NEW y \in Purposes, rankAtServer(x) = rankAtServer(y) PROVE x = y
  <2>1. CASE x = Initial \/ y = Initial
    BY ONLY <1>0, <1>2, <2>1, x \in Purposes, y \in Purposes
  <2>2. CASE x = <<"engine">> \/ y = <<"engine">>
    BY ONLY <1>0, <1>2, <2>2, x \in Purposes, y \in Purposes
  <2>3. ASSUME NEW g \in {"boolean", "integer"}, NEW r \in {"sender", "receiver", "bidirection"},
               NEW h \in {"boolean", "integer"}, NEW t \in {"sender", "receiver", "bidirection"},
               x = <<g, r>>, y = <<h, t>>
        PROVE  x = y
    <3>1. x[1] = g /\ x[2] = r /\ y[1] = h /\ y[2] = t
      BY <2>3
    <3>2. x # Initial /\ x # <<"engine">> /\ y # Initial /\ y # <<"engine">>
      BY <2>3 DEF Initial
    <3>3. (IF g = first THEN 2 ELSE 5) + roleRank(g, r) = (IF h = first THEN 2 ELSE 5) + roleRank(h, t)
      BY ONLY <1>2, <3>1, <3>2 DEF rankAtServer
    <3>4. roleRank(g, r) \in 0..2 /\ roleRank(h, t) \in 0..2
      BY DEF roleRank
    <3>5. (g = first <=> h = first) /\ roleRank(g, r) = roleRank(h, t)
      BY ONLY <3>3, <3>4
    <3>6. g = h
      BY ONLY <3>5, g \in {"boolean", "integer"}, h \in {"boolean", "integer"} DEF first
    <3>7. r = t
      BY ONLY <3>5, <3>6, r \in {"sender", "receiver", "bidirection"},
              t \in {"sender", "receiver", "bidirection"} DEF roleRank, lowFirst
    <3> QED BY <2>3, <3>6, <3>7
  <2> QED BY <2>1, <2>2, <2>3 DEF Purposes
<1> QED BY <1>1, <1>2

(* The two parties of a pair create corresponding agents at the same place *)
(* of their programs.                                                      *)
LEMMA SameRank ==
  ASSUME NEW p \in Nat, NEW q \in Nat, p # q, NEW x \in Purposes
  PROVE  /\ rank(p, q, x) \in Nat
         /\ rank(q, p, Corresponding(x)) = rank(p, q, x)
         /\ rank(p, q, x) = 0 <=> x = Initial
         /\ \A y \in Purposes : rank(p, q, x) = rank(p, q, y) => x = y
<1>1. Corresponding(Initial) = Initial
  BY DEF Corresponding, Last, Initial
<1>2. /\ rankAtServer(Corresponding(x)) \in Nat
      /\ rankAtServer(Corresponding(x)) = 0 <=> x = Initial
  BY <1>1, RankIs, CorrespondingTwice DEF Purposes
<1> QED BY <1>2, RankIs, CorrespondingTwice DEF rank

-----------------------------------------------------------------------------
(* A party's program.                                                      *)

(* The steps of p, and when one comes before another in its program.       *)
Step == [call : {"bind", "connect", "create"}, peer : Parties, purpose : Purposes]
StepOk(p, s) ==
  /\ s \in Step /\ s.peer # p
  /\ s.call # "create" <=> s.purpose = Initial
  /\ s.call = "bind" => p < s.peer

Before(p, s, t) ==
  /\ t.call = "bind" => s.call = "bind"
  /\ s.call = "create" => t.call = "create"
  /\ s.call = "bind" /\ t.call = "bind" => s.peer < t.peer
  /\ s.call = "connect" /\ t.call = "connect" => s.peer < t.peer
  /\ s.call # "bind" /\ t.call # "bind" /\ s.peer = t.peer =>
       rank(p, s.peer, s.purpose) < rank(p, s.peer, t.purpose)

Planned(p, t) ==
  /\ t \in Seq(Step) /\ \A i \in 1..Len(t) : StepOk(p, t[i])
  /\ \A i, j \in 1..Len(t) : i < j => Before(p, t[i], t[j])
Has(t, s) == \E i \in 1..Len(t) : t[i] = s

(* A program made of two. *)
LEMMA Join ==
  ASSUME NEW p, NEW s, NEW t, Planned(p, s), Planned(p, t),
         \A i \in 1..Len(s), j \in 1..Len(t) : Before(p, s[i], t[j])
  PROVE  Planned(p, s \o t) /\ \A x : Has(s \o t, x) <=> Has(s, x) \/ Has(t, x)
<1>1. /\ s \in Seq(Step) /\ t \in Seq(Step)
  BY DEF Planned
<1>2. /\ s \o t \in Seq(Step) /\ Len(s \o t) = Len(s) + Len(t)
      /\ Len(s) \in Nat /\ Len(t) \in Nat
      /\ \A i \in 1..Len(s) + Len(t) : (s \o t)[i] = IF i <= Len(s) THEN s[i] ELSE t[i - Len(s)]
  BY <1>1
<1> PICK u : u = s \o t
  OBVIOUS
<1> PICK m \in Nat, n \in Nat : m = Len(s) /\ n = Len(t)
  BY <1>2
<1>3. /\ u \in Seq(Step) /\ Len(u) = m + n
      /\ \A i \in 1..m : u[i] = s[i]
      /\ \A i \in 1..m + n : i > m => u[i] = t[i - m] /\ i - m \in 1..n
  BY ONLY <1>2, u = s \o t, m = Len(s), n = Len(t)
<1>4. \A i \in 1..m + n : StepOk(p, u[i])
  <2> SUFFICES ASSUME NEW i \in 1..m + n PROVE StepOk(p, u[i])
    OBVIOUS
  <2>1. CASE i <= m
    BY ONLY <1>3, <2>1, m \in Nat, i \in 1..m + n, m = Len(s), Planned(p, s) DEF Planned
  <2>2. CASE i > m
    BY ONLY <1>3, <2>2, m \in Nat, i \in 1..m + n, n = Len(t), Planned(p, t) DEF Planned
  <2> QED BY ONLY <2>1, <2>2, m \in Nat, i \in 1..m + n
<1>5. \A i, j \in 1..m + n : i < j => Before(p, u[i], u[j])
  <2> SUFFICES ASSUME NEW i \in 1..m + n, NEW j \in 1..m + n, i < j PROVE Before(p, u[i], u[j])
    OBVIOUS
  <2>1. CASE j <= m
    <3>1. u[i] = s[i] /\ u[j] = s[j] /\ i \in 1..m /\ j \in 1..m
      BY ONLY <1>3, <2>1, m \in Nat, n \in Nat, i \in 1..m + n, j \in 1..m + n, i < j
    <3> QED BY ONLY <3>1, i < j, m = Len(s), Planned(p, s) DEF Planned
  <2>2. CASE i > m
    <3>1. /\ u[i] = t[i - m] /\ u[j] = t[j - m] /\ i - m \in 1..n /\ j - m \in 1..n
          /\ i - m < j - m
      BY ONLY <1>3, <2>2, m \in Nat, n \in Nat, i \in 1..m + n, j \in 1..m + n, i < j
    <3> QED BY ONLY <3>1, n = Len(t), Planned(p, t) DEF Planned
  <2>3. CASE i <= m /\ j > m
    <3>1. u[i] = s[i] /\ u[j] = t[j - m] /\ i \in 1..m /\ j - m \in 1..n
      BY ONLY <1>3, <2>3, m \in Nat, n \in Nat, i \in 1..m + n, j \in 1..m + n
    <3> QED BY ONLY <3>1, m = Len(s), n = Len(t),
                    \A k \in 1..Len(s), l \in 1..Len(t) : Before(p, s[k], t[l])
  <2> QED BY ONLY <2>1, <2>2, <2>3, m \in Nat, i \in 1..m + n, j \in 1..m + n
<1>6. ASSUME NEW x PROVE Has(u, x) <=> Has(s, x) \/ Has(t, x)
  <2>1. ASSUME NEW i \in 1..n PROVE m + i \in 1..m + n /\ u[m + i] = t[i]
    <3>1. m + i \in 1..m + n /\ m + i > m /\ (m + i) - m = i
      BY ONLY m \in Nat, n \in Nat, i \in 1..n
    <3> QED BY ONLY <1>3, <3>1
  <2>2. ASSUME NEW i \in 1..m PROVE i \in 1..m + n
    OBVIOUS
  <2>3. Has(s, x) => Has(u, x)
    BY ONLY <1>3, <2>2, m = Len(s) DEF Has
  <2>4. Has(t, x) => Has(u, x)
    BY ONLY <1>3, <2>1, n = Len(t) DEF Has
  <2>5. ASSUME NEW i \in 1..m + n, u[i] = x PROVE Has(s, x) \/ Has(t, x)
    <3>1. CASE i <= m
      BY ONLY <1>3, <2>5, <3>1, m \in Nat, n \in Nat, m = Len(s) DEF Has
    <3>2. CASE i > m
      BY ONLY <1>3, <2>5, <3>2, n = Len(t) DEF Has
    <3> QED BY ONLY <3>1, <3>2, m \in Nat, i \in 1..m + n
  <2> QED BY ONLY <1>3, <2>3, <2>4, <2>5 DEF Has
<1> QED BY ONLY <1>3, <1>4, <1>5, <1>6, u = s \o t DEF Planned

(* The loops over the parties. *)
LEMMA LoopsAscend ==
  ASSUME setup \in Setups, NEW p \in Parties
  PROVE  /\ Len(Others(p)) = setup.numberOfParty - 1
         /\ \A i \in 1..setup.numberOfParty - 1 : Others(p)[i] \in Peers(p)
         /\ \A i, j \in 1..setup.numberOfParty - 1 : i < j => Others(p)[i] < Others(p)[j]
         /\ \A q \in Peers(p) : \E i \in 1..setup.numberOfParty - 1 : Others(p)[i] = q
         /\ Len(Clients(p)) = setup.numberOfParty - 1 - p
         /\ \A i \in 1..setup.numberOfParty - 1 - p : Clients(p)[i] = p + i
<1> PICK n \in Nat : n = setup.numberOfParty /\ n > 1
  BY SocketsAssumption
<1>1. p \in 0..n - 1 /\ Parties = 0..n - 1
  BY DEF Parties
<1>2. Others(p) = [i \in 1..n - 1 |-> IF i <= p THEN i - 1 ELSE i]
  BY DEF Others
<1>3. /\ Len(Others(p)) = n - 1
      /\ \A i \in 1..n - 1 : Others(p)[i] \in Peers(p)
      /\ \A i, j \in 1..n - 1 : i < j => Others(p)[i] < Others(p)[j]
  BY ONLY <1>1, <1>2, n \in Nat, n > 1 DEF Peers
<1>4. ASSUME NEW q \in Peers(p) PROVE \E i \in 1..n - 1 : Others(p)[i] = q
  <2>1. CASE q < p
    <3>1. q + 1 \in 1..n - 1 /\ q + 1 <= p
      BY ONLY <1>1, <2>1, q \in Peers(p), n \in Nat DEF Peers
    <3> QED BY ONLY <1>1, <1>2, <3>1, q \in Peers(p) DEF Peers
  <2>2. CASE q > p
    <3>1. q \in 1..n - 1 /\ ~(q <= p)
      BY ONLY <1>1, <2>2, q \in Peers(p), n \in Nat DEF Peers
    <3> QED BY ONLY <1>1, <1>2, <3>1, q \in Peers(p) DEF Peers
  <2> QED BY ONLY <1>1, <2>1, <2>2, q \in Peers(p) DEF Peers
<1>5. Len(Clients(p)) = n - 1 - p /\ \A i \in 1..n - 1 - p : Clients(p)[i] = p + i
  BY ONLY <1>1, n \in Nat, n = setup.numberOfParty DEF Clients
<1> QED BY ONLY <1>3, <1>4, <1>5, n = setup.numberOfParty

Task(q, x) == [call |-> IF x = Initial THEN "connect" ELSE "create", peer |-> q, purpose |-> x]
BindTask(q) == [call |-> "bind", peer |-> q, purpose |-> Initial]

(* The steps that open an agent, and that bind a socket, are steps of a    *)
(* program.                                                                *)
LEMMA TaskIs ==
  ASSUME NEW p \in Parties, NEW q \in Peers(p), NEW x \in Purposes
  PROVE  StepOk(p, Task(q, x)) /\ (p < q => StepOk(p, BindTask(q)))
<1>1. Task(q, x) \in Step /\ Task(q, x).peer = q /\ Task(q, x).purpose = x
      /\ Task(q, x).call = (IF x = Initial THEN "connect" ELSE "create")
  BY DEF Task, Step, Peers
<1>2. BindTask(q) \in Step /\ BindTask(q).peer = q /\ BindTask(q).purpose = Initial
      /\ BindTask(q).call = "bind"
  BY DEF BindTask, Step, Peers, Purposes
<1> QED BY <1>1, <1>2 DEF StepOk, Peers

(* There are no others. *)
LEMMA TasksOnly ==
  ASSUME NEW p \in Parties, NEW s, StepOk(p, s)
  PROVE  \/ \E q \in Peers(p) : p < q /\ s = BindTask(q)
         \/ \E q \in Peers(p) : \E x \in Purposes : s = Task(q, x)
<1>1. s \in Step /\ s.peer \in Peers(p) /\ s.purpose \in Purposes
  BY DEF StepOk, Step, Peers
<1>2. s = [call |-> s.call, peer |-> s.peer, purpose |-> s.purpose]
      /\ s.call \in {"bind", "connect", "create"}
  BY <1>1 DEF Step
<1>3. CASE s.call = "bind"
  <2>1. p < s.peer /\ s.purpose = Initial
    BY <1>3 DEF StepOk
  <2> QED BY <1>1, <1>2, <1>3, <2>1 DEF BindTask
<1>4. CASE s.call # "bind"
  <2>1. s.call = IF s.purpose = Initial THEN "connect" ELSE "create"
    BY <1>2, <1>4 DEF StepOk
  <2> QED BY <1>1, <1>2, <2>1 DEF Task
<1> QED BY <1>3, <1>4

(* A step says its peer and its purpose. *)
LEMMA TasksDiffer ==
  ASSUME NEW q, NEW r, NEW x, NEW y
  PROVE  /\ Task(q, x) = Task(r, y) <=> q = r /\ x = y
         /\ BindTask(q) = BindTask(r) <=> q = r
         /\ Task(q, x) # BindTask(r)
<1>1. Task(q, x).peer = q /\ Task(q, x).purpose = x /\ Task(q, x).call # "bind"
      /\ Task(r, y).peer = r /\ Task(r, y).purpose = y
  BY DEF Task
<1>2. BindTask(q).peer = q /\ BindTask(r).peer = r /\ BindTask(r).call = "bind"
  BY DEF BindTask
<1> QED BY ONLY <1>1, <1>2

(* Which step comes before which. *)
LEMMA BeforeCases ==
  ASSUME NEW p, NEW q \in Nat, NEW r \in Nat, NEW x, NEW y
  PROVE  /\ q < r => Before(p, BindTask(q), BindTask(r))
         /\ Before(p, BindTask(q), Task(r, y))
         /\ x = Initial /\ q # r /\ (y = Initial => q < r) => Before(p, Task(q, x), Task(r, y))
         /\ x # Initial /\ y # Initial /\ (q = r => rank(p, q, x) < rank(p, q, y)) =>
              Before(p, Task(q, x), Task(r, y))
         /\ x = Initial /\ y # Initial /\ rank(p, q, x) < rank(p, q, y) =>
              Before(p, Task(q, x), Task(r, y))
<1>1. Task(q, x).peer = q /\ Task(q, x).purpose = x
      /\ Task(q, x).call = (IF x = Initial THEN "connect" ELSE "create")
      /\ Task(r, y).peer = r /\ Task(r, y).purpose = y
      /\ Task(r, y).call = (IF y = Initial THEN "connect" ELSE "create")
  BY DEF Task
<1>2. /\ BindTask(q).peer = q /\ BindTask(q).call = "bind"
      /\ BindTask(r).peer = r /\ BindTask(r).call = "bind"
  BY DEF BindTask
<1> QED BY ONLY <1>1, <1>2, q \in Nat, r \in Nat DEF Before

(* A loop over the peers. *)
LEMMA LoopPlanned ==
  ASSUME setup \in Setups, NEW p \in Parties, NEW x \in {Initial, <<"engine">>}, NEW t,
         t = [i \in 1..setup.numberOfParty - 1 |-> Task(Others(p)[i], x)]
  PROVE  Planned(p, t) /\ \A s : Has(t, s) <=> \E q \in Peers(p) : s = Task(q, x)
<1> PICK n \in Nat : n = setup.numberOfParty /\ n > 1
  BY SocketsAssumption
<1>0. x \in Purposes /\ n - 1 \in Nat /\ Peers(p) \subseteq Nat
  BY n > 1, n = setup.numberOfParty DEF Purposes, Peers, Parties
<1>1. Len(t) = n - 1 /\ \A i \in 1..n - 1 : t[i] = Task(Others(p)[i], x)
  BY <1>0, n = setup.numberOfParty
<1>2. /\ \A i \in 1..n - 1 : Others(p)[i] \in Peers(p)
      /\ \A i, j \in 1..n - 1 : i < j => Others(p)[i] < Others(p)[j]
      /\ \A q \in Peers(p) : \E i \in 1..n - 1 : Others(p)[i] = q
  BY LoopsAscend, n = setup.numberOfParty
<1>3. \A i \in 1..n - 1 : StepOk(p, t[i])
  BY <1>0, <1>1, <1>2, TaskIs
<1>4. t \in Seq(Step)
  <2>1. t \in [1..n - 1 -> Step]
    BY <1>1, <1>3, n = setup.numberOfParty DEF StepOk
  <2> QED BY <1>0, <2>1
<1>5. ASSUME NEW i \in 1..n - 1, NEW j \in 1..n - 1, i < j
      PROVE  Before(p, t[i], t[j])
  <2>1. Others(p)[i] \in Nat /\ Others(p)[j] \in Nat /\ Others(p)[i] < Others(p)[j]
        /\ Others(p)[i] # Others(p)[j]
    BY <1>0, <1>2, <1>5
  <2> QED BY <1>1, <2>1, BeforeCases
<1>6. \A s : Has(t, s) <=> \E q \in Peers(p) : s = Task(q, x)
  BY ONLY <1>1, <1>2 DEF Has
<1> QED BY ONLY <1>1, <1>3, <1>4, <1>5, <1>6 DEF Planned

(* setupInitialSockets binds for the peers of a higher id, in order. *)
LEMMA BindsPlanned ==
  ASSUME setup \in Setups, NEW p \in Parties
  PROVE  /\ Planned(p, setupInitialSockets(p))
         /\ \A s : Has(setupInitialSockets(p), s) <=> \E q \in Peers(p) : p < q /\ s = BindTask(q)
<1> PICK n \in Nat : n = setup.numberOfParty /\ n > 1
  BY SocketsAssumption
<1> PICK t : t = setupInitialSockets(p)
  OBVIOUS
<1>0. /\ n - 1 - p \in Nat /\ Peers(p) \subseteq Nat /\ p \in Nat
      /\ \A q \in Peers(p) : p < q <=> q - p \in 1..n - 1 - p
      /\ \A i \in 1..n - 1 - p : p + i \in Peers(p) /\ p < p + i
  BY n > 1, n = setup.numberOfParty DEF Peers, Parties
<1>1. t = [i \in 1..n - 1 - p |-> BindTask(p + i)]
  <2>1. Clients(p) = [i \in 1..n - 1 - p |-> p + i] /\ DOMAIN Clients(p) = 1..n - 1 - p
    BY n = setup.numberOfParty DEF Clients
  <2>2. t = [i \in DOMAIN Clients(p) |-> BindTask(Clients(p)[i])]
    BY t = setupInitialSockets(p) DEF setupInitialSockets, Each, BindTask, Initial
  <2> QED BY ONLY <2>1, <2>2
<1>2. Len(t) = n - 1 - p /\ \A i \in 1..n - 1 - p : t[i] = BindTask(p + i)
  BY ONLY <1>0, <1>1
<1>3. \A i \in 1..n - 1 - p : StepOk(p, t[i])
  <2> SUFFICES ASSUME NEW i \in 1..n - 1 - p PROVE StepOk(p, t[i])
    OBVIOUS
  <2>1. Initial \in Purposes
    BY DEF Purposes
  <2>2. StepOk(p, BindTask(p + i))
    <3> PICK q \in Peers(p) : q = p + i /\ p < q
      BY ONLY <1>0, i \in 1..n - 1 - p
    <3> QED BY ONLY <2>1, TaskIs, p \in Parties, q \in Peers(p), q = p + i, p < q
  <2> QED BY ONLY <1>2, <2>2, i \in 1..n - 1 - p
<1>4. t \in Seq(Step)
  <2>1. t \in [1..n - 1 - p -> Step]
    BY <1>1, <1>2, <1>3 DEF StepOk
  <2>2. n - 1 - p \in Nat
    BY <1>0
  <2> QED BY ONLY <2>1, <2>2
<1>5. ASSUME NEW i \in 1..n - 1 - p, NEW j \in 1..n - 1 - p, i < j
      PROVE  Before(p, t[i], t[j])
  <2>1. p + i \in Nat /\ p + j \in Nat /\ p + i < p + j
    BY ONLY <1>0, <1>5, i \in 1..n - 1 - p, j \in 1..n - 1 - p
  <2> QED BY ONLY <1>2, <2>1, BeforeCases, i \in 1..n - 1 - p, j \in 1..n - 1 - p
<1>6. ASSUME NEW s PROVE Has(t, s) <=> \E q \in Peers(p) : p < q /\ s = BindTask(q)
  <2>1. ASSUME NEW q \in Peers(p), p < q PROVE q - p \in 1..n - 1 - p /\ t[q - p] = BindTask(q)
    <3>1. q - p \in 1..n - 1 - p /\ p + (q - p) = q
      BY <1>0, <2>1
    <3> QED BY ONLY <1>2, <3>1
  <2>2. ASSUME NEW q \in Peers(p), p < q, s = BindTask(q) PROVE Has(t, s)
    BY ONLY <1>2, <2>1, <2>2 DEF Has
  <2>3. Has(t, s) => \E q \in Peers(p) : p < q /\ s = BindTask(q)
    <3> HAVE Has(t, s)
    <3> PICK i \in 1..n - 1 - p : t[i] = s
      BY ONLY <1>2, Has(t, s) DEF Has
    <3>1. p + i \in Peers(p) /\ p < p + i /\ s = BindTask(p + i)
      BY ONLY <1>0, <1>2, i \in 1..n - 1 - p, t[i] = s
    <3> QED BY ONLY <3>1
  <2> QED BY ONLY <2>2, <2>3
<1> QED BY ONLY <1>2, <1>3, <1>4, <1>5, <1>6, t = setupInitialSockets(p) DEF Planned

(* setupInitialConnection opens the initial connection of every peer. *)
LEMMA ConnectsPlanned ==
  ASSUME setup \in Setups, NEW p \in Parties
  PROVE  /\ Planned(p, setupInitialConnection(p))
         /\ \A s : Has(setupInitialConnection(p), s) <=> \E q \in Peers(p) : s = Task(q, Initial)
<1>1. DOMAIN Others(p) = 1..setup.numberOfParty - 1
  BY DEF Others
<1>2. setupInitialConnection(p) = [i \in 1..setup.numberOfParty - 1 |-> Task(Others(p)[i], Initial)]
  BY <1>1 DEF setupInitialConnection, Each, Task, Initial
<1> QED BY <1>2, LoopPlanned

(* getAgentMap creates an agent for every peer. *)
LEMMA EnginePlanned ==
  ASSUME setup \in Setups, NEW p \in Parties
  PROVE  /\ Planned(p, getAgentMap(p))
         /\ \A s : Has(getAgentMap(p), s) <=> \E q \in Peers(p) : s = Task(q, <<"engine">>)
<1>1. DOMAIN Others(p) = 1..setup.numberOfParty - 1
  BY DEF Others
<1>2. <<"engine">> # Initial
  BY DEF Initial
<1>3. getAgentMap(p) = [i \in 1..setup.numberOfParty - 1 |-> Task(Others(p)[i], <<"engine">>)]
  BY <1>1, <1>2 DEF getAgentMap, Each, Task, create
<1> QED BY <1>3, LoopPlanned

(* The agents of an oblivious transfer each way: what comes k-th.          *)
turn(p, q, k) ==
  IF k = 3 THEN "bidirection" ELSE IF (k = 1) = (q < p) THEN "sender" ELSE "receiver"
firstRank(g) == IF g = first THEN 2 ELSE 5

(* The elements of three. *)
LEMMA Triple ==
  ASSUME NEW a, NEW b, NEW c
  PROVE  (<<a, b>> \o <<c>>)[1] = a /\ (<<a, b>> \o <<c>>)[2] = b /\ (<<a, b>> \o <<c>>)[3] = c
OBVIOUS

(* bidirection creates, k-th, the agent of its turn, which has rank k. *)
LEMMA TurnIs ==
  ASSUME NEW p \in Nat, NEW q \in Nat, p # q, NEW g \in {"boolean", "integer"}, NEW k \in 1..3,
         g = "boolean" => setup.numberOfParty # 2
  PROVE  /\ bidirection(p, q, g)[k] = Task(q, <<g, turn(p, q, k)>>)
         /\ turn(p, q, k) \in {"sender", "receiver", "bidirection"}
         /\ rank(p, q, <<g, turn(p, q, k)>>) = firstRank(g) + k - 1
<1>1. \A r : <<g, r>> # Initial /\ <<g, r>> # <<"engine">> /\ <<g, r>>[1] = g /\ <<g, r>>[2] = r
  BY DEF Initial
<1>2. \A r : Last(<<g, r>>) = r /\ Head(<<g, r>>) = g
  BY DEF Last
<1>3. /\ Corresponding(<<g, "sender">>) = <<g, "receiver">>
      /\ Corresponding(<<g, "receiver">>) = <<g, "sender">>
      /\ Corresponding(<<g, "bidirection">>) = <<g, "bidirection">>
  BY ONLY <1>2 DEF Corresponding
<1>4. \A r : rankAtServer(<<g, r>>) = firstRank(g) + roleRank(g, r)
  BY ONLY <1>1 DEF rankAtServer, firstRank
<1>5. roleRank(g, "receiver") = 0 /\ roleRank(g, "sender") = 1 /\ roleRank(g, "bidirection") = 2
  BY DEF roleRank, lowFirst
<1>6. firstRank(g) \in Nat
  BY DEF firstRank
<1>7. \A r : create(q, <<g, r>>) = Task(q, <<g, r>>)
  BY ONLY <1>1 DEF create, Task
<1>8. bidirection(p, q, g)[k] = Task(q, <<g, turn(p, q, k)>>)
  <2>1. CASE q < p
    <3>1. bidirection(p, q, g)
            = <<Task(q, <<g, "sender">>), Task(q, <<g, "receiver">>)>> \o <<Task(q, <<g, "bidirection">>)>>
      BY ONLY <1>7, <2>1 DEF bidirection
    <3>3. /\ bidirection(p, q, g)[1] = Task(q, <<g, "sender">>)
          /\ bidirection(p, q, g)[2] = Task(q, <<g, "receiver">>)
          /\ bidirection(p, q, g)[3] = Task(q, <<g, "bidirection">>)
      BY ONLY <3>1, Triple
    <3>2. turn(p, q, 1) = "sender" /\ turn(p, q, 2) = "receiver" /\ turn(p, q, 3) = "bidirection"
      BY <2>1 DEF turn
    <3> QED BY ONLY <3>2, <3>3, k \in 1..3
  <2>2. CASE ~(q < p)
    <3>1. bidirection(p, q, g)
            = <<Task(q, <<g, "receiver">>), Task(q, <<g, "sender">>)>> \o <<Task(q, <<g, "bidirection">>)>>
      BY ONLY <1>7, <2>2 DEF bidirection
    <3>3. /\ bidirection(p, q, g)[1] = Task(q, <<g, "receiver">>)
          /\ bidirection(p, q, g)[2] = Task(q, <<g, "sender">>)
          /\ bidirection(p, q, g)[3] = Task(q, <<g, "bidirection">>)
      BY ONLY <3>1, Triple
    <3>2. turn(p, q, 1) = "receiver" /\ turn(p, q, 2) = "sender" /\ turn(p, q, 3) = "bidirection"
      BY <2>2 DEF turn
    <3> QED BY ONLY <3>2, <3>3, k \in 1..3
  <2> QED BY <2>1, <2>2
<1>9. rank(p, q, <<g, turn(p, q, k)>>) = firstRank(g) + k - 1
  <2>1. CASE q < p
    <3>1. turn(p, q, k) = IF k = 1 THEN "sender" ELSE IF k = 2 THEN "receiver" ELSE "bidirection"
      BY <2>1 DEF turn
    <3>2. \A x : rank(p, q, x) = rankAtServer(Corresponding(x))
      BY <2>1 DEF rank
    <3> QED BY ONLY <1>3, <1>4, <1>5, <1>6, <3>1, <3>2, k \in 1..3
  <2>2. CASE ~(q < p)
    <3>1. turn(p, q, k) = IF k = 1 THEN "receiver" ELSE IF k = 2 THEN "sender" ELSE "bidirection"
      BY <2>2 DEF turn
    <3>2. \A x : rank(p, q, x) = rankAtServer(x)
      BY <2>2 DEF rank
    <3> QED BY ONLY <1>4, <1>5, <1>6, <3>1, <3>2, k \in 1..3
  <2> QED BY <2>1, <2>2
<1> QED BY <1>8, <1>9 DEF turn

(* Every role has its turn. *)
LEMMA EveryTurn ==
  ASSUME NEW p \in Nat, NEW q \in Nat, NEW r \in {"sender", "receiver", "bidirection"}
  PROVE  \E k \in 1..3 : turn(p, q, k) = r
<1>1. CASE r = "bidirection"
  BY <1>1 DEF turn
<1>2. CASE r = "sender"
  <2>1. turn(p, q, IF q < p THEN 1 ELSE 2) = r
    BY <1>2 DEF turn
  <2> QED BY <2>1
<1>3. CASE r = "receiver"
  <2>1. turn(p, q, IF q < p THEN 2 ELSE 1) = r
    BY <1>3 DEF turn
  <2> QED BY <2>1
<1> QED BY <1>1, <1>2, <1>3

(* productShares creates three agents for each peer. *)
LEMMA SharesPlanned ==
  ASSUME setup \in Setups, NEW p \in Parties, NEW g \in {"boolean", "integer"},
         g = "boolean" => setup.numberOfParty # 2
  PROVE  /\ Planned(p, productShares(p, g))
         /\ \A s : Has(productShares(p, g), s) <=>
              \E q \in Peers(p) : \E r \in {"sender", "receiver", "bidirection"} :
                s = Task(q, <<g, r>>)
<1> PICK n \in Nat : n = setup.numberOfParty /\ n > 1
  BY SocketsAssumption
<1> PICK t : t = productShares(p, g)
  OBVIOUS
<1>0. /\ Peers(p) \subseteq Nat /\ p \in Nat /\ 3 * (n - 1) \in Nat
      /\ \A q \in Peers(p) : q # p
  BY n > 1, n = setup.numberOfParty DEF Peers, Parties
<1>1. /\ \A a \in 1..n - 1 : Others(p)[a] \in Peers(p)
      /\ \A a, b \in 1..n - 1 : a < b => Others(p)[a] < Others(p)[b]
      /\ \A q \in Peers(p) : \E a \in 1..n - 1 : Others(p)[a] = q
  BY LoopsAscend, n = setup.numberOfParty
<1>2. ASSUME NEW i \in 1..3 * (n - 1)
      PROVE  /\ ((i - 1) \div 3) + 1 \in 1..n - 1 /\ ((i - 1) % 3) + 1 \in 1..3
             /\ i = 3 * ((i - 1) \div 3) + ((i - 1) % 3) + 1
  BY ONLY n \in Nat, n > 1, i \in 1..3 * (n - 1)
<1>3. ASSUME NEW i \in 1..3 * (n - 1)
      PROVE  \E a \in 1..n - 1, k \in 1..3 :
               i = 3 * (a - 1) + k /\ t[i] = Task(Others(p)[a], <<g, turn(p, Others(p)[a], k)>>)
  <2> PICK a \in 1..n - 1, k \in 1..3 : a = ((i - 1) \div 3) + 1 /\ k = ((i - 1) % 3) + 1
    BY <1>2
  <2>1. i = 3 * (a - 1) + k
    BY ONLY <1>2, a = ((i - 1) \div 3) + 1, k = ((i - 1) % 3) + 1, n \in Nat,
            a \in 1..n - 1, k \in 1..3, i \in 1..3 * (n - 1)
  <2>2. t[i] = bidirection(p, Others(p)[a], g)[k]
    BY n = setup.numberOfParty, t = productShares(p, g), a = ((i - 1) \div 3) + 1,
       k = ((i - 1) % 3) + 1 DEF productShares
  <2>3. t[i] = Task(Others(p)[a], <<g, turn(p, Others(p)[a], k)>>)
    <3> PICK q \in Peers(p) : q = Others(p)[a]
      BY <1>1
    <3>1. q \in Nat /\ p \in Nat /\ p # q
      BY <1>0
    <3>2. bidirection(p, q, g)[k] = Task(q, <<g, turn(p, q, k)>>)
      BY ONLY <3>1, TurnIs, g \in {"boolean", "integer"}, k \in 1..3,
              g = "boolean" => setup.numberOfParty # 2
    <3> QED BY ONLY <2>2, <3>2, q = Others(p)[a]
  <2> QED BY <2>1, <2>3
<1>4. Len(t) = 3 * (n - 1)
  <2>1. \E f : t = [i \in 1..3 * (n - 1) |-> f[i]]
    <3>1. t = [i \in 1..3 * (n - 1) |-> t[i]]
      BY n = setup.numberOfParty, t = productShares(p, g) DEF productShares
    <3> QED BY <3>1
  <2> QED BY ONLY <1>0, <2>1
<1>5. ASSUME NEW i \in 1..3 * (n - 1) PROVE StepOk(p, t[i])
  <2> PICK a \in 1..n - 1, k \in 1..3 : t[i] = Task(Others(p)[a], <<g, turn(p, Others(p)[a], k)>>)
    BY <1>3
  <2>1. turn(p, Others(p)[a], k) \in {"sender", "receiver", "bidirection"}
    BY DEF turn
  <2>2. <<g, turn(p, Others(p)[a], k)>> \in Purposes
    BY <2>1 DEF Purposes
  <2> QED BY <1>1, <2>2, TaskIs
<1>6. t \in Seq(Step)
  <2>1. t = [i \in 1..3 * (n - 1) |-> t[i]]
    BY n = setup.numberOfParty, t = productShares(p, g) DEF productShares
  <2>2. t \in [1..3 * (n - 1) -> Step]
    BY <1>5, <2>1 DEF StepOk
  <2> QED BY ONLY <1>0, <2>2
<1>7. ASSUME NEW i \in 1..3 * (n - 1), NEW j \in 1..3 * (n - 1), i < j
      PROVE  Before(p, t[i], t[j])
  <2> PICK a \in 1..n - 1, k \in 1..3 :
        i = 3 * (a - 1) + k /\ t[i] = Task(Others(p)[a], <<g, turn(p, Others(p)[a], k)>>)
    BY <1>3
  <2> PICK b \in 1..n - 1, l \in 1..3 :
        j = 3 * (b - 1) + l /\ t[j] = Task(Others(p)[b], <<g, turn(p, Others(p)[b], l)>>)
    BY <1>3
  <2>1. a < b \/ (a = b /\ k < l)
    BY ONLY i < j, i = 3 * (a - 1) + k, j = 3 * (b - 1) + l, n \in Nat, a \in 1..n - 1,
            b \in 1..n - 1, k \in 1..3, l \in 1..3
  <2>2. /\ rank(p, Others(p)[a], <<g, turn(p, Others(p)[a], k)>>) = firstRank(g) + k - 1
        /\ rank(p, Others(p)[b], <<g, turn(p, Others(p)[b], l)>>) = firstRank(g) + l - 1
        /\ firstRank(g) \in Nat
    <3>1. /\ Others(p)[a] \in Nat /\ Others(p)[b] \in Nat /\ p \in Nat
          /\ Others(p)[a] # p /\ Others(p)[b] # p
      BY <1>0, <1>1
    <3>2. \A q \in Nat : \A m \in 1..3 : p # q =>
            rank(p, q, <<g, turn(p, q, m)>>) = firstRank(g) + m - 1
      BY ONLY <3>1, TurnIs, g \in {"boolean", "integer"}, g = "boolean" => setup.numberOfParty # 2
    <3>3. firstRank(g) \in Nat
      BY DEF firstRank
    <3> QED BY ONLY <3>1, <3>2, <3>3, k \in 1..3, l \in 1..3
  <2>3. /\ Others(p)[a] \in Nat /\ Others(p)[b] \in Nat
        /\ Others(p)[a] = Others(p)[b] => a = b
    <3>1. Others(p)[a] \in Nat /\ Others(p)[b] \in Nat
      BY <1>0, <1>1
    <3>2. a < b => Others(p)[a] < Others(p)[b]
      BY <1>1
    <3> QED BY ONLY <2>1, <3>1, <3>2
  <2>4. \A r : <<g, r>> # Initial
    BY DEF Initial
  <2>5. Others(p)[a] = Others(p)[b] =>
          rank(p, Others(p)[a], <<g, turn(p, Others(p)[a], k)>>)
            < rank(p, Others(p)[a], <<g, turn(p, Others(p)[b], l)>>)
    <3> SUFFICES ASSUME Others(p)[a] = Others(p)[b]
                 PROVE  rank(p, Others(p)[a], <<g, turn(p, Others(p)[a], k)>>)
                          < rank(p, Others(p)[b], <<g, turn(p, Others(p)[b], l)>>)
      OBVIOUS
    <3>1. k < l
      BY <2>1, <2>3
    <3> QED BY ONLY <2>2, <3>1, k \in 1..3, l \in 1..3
  <2> QED BY ONLY <2>3, <2>4, <2>5, BeforeCases,
                  t[i] = Task(Others(p)[a], <<g, turn(p, Others(p)[a], k)>>),
                  t[j] = Task(Others(p)[b], <<g, turn(p, Others(p)[b], l)>>)
<1>8. ASSUME NEW q \in Peers(p), NEW r \in {"sender", "receiver", "bidirection"}
      PROVE  Has(t, Task(q, <<g, r>>))
  <2> PICK a \in 1..n - 1 : Others(p)[a] = q
    BY <1>1
  <2> PICK k \in 1..3 : turn(p, q, k) = r
    BY <1>0, EveryTurn
  <2> PICK i \in 1..3 * (n - 1) : i = 3 * (a - 1) + k
    BY ONLY n \in Nat, a \in 1..n - 1, k \in 1..3
  <2> PICK b \in 1..n - 1, l \in 1..3 :
        i = 3 * (b - 1) + l /\ t[i] = Task(Others(p)[b], <<g, turn(p, Others(p)[b], l)>>)
    BY <1>3
  <2>1. a = b /\ k = l
    BY ONLY i = 3 * (a - 1) + k, i = 3 * (b - 1) + l, n \in Nat, a \in 1..n - 1,
            b \in 1..n - 1, k \in 1..3, l \in 1..3
  <2>2. t[i] = Task(q, <<g, r>>)
    BY <2>1
  <2> QED BY <1>4, <2>2 DEF Has
<1>9. ASSUME NEW s, Has(t, s)
      PROVE  \E q \in Peers(p) : \E r \in {"sender", "receiver", "bidirection"} : s = Task(q, <<g, r>>)
  <2> PICK i \in 1..3 * (n - 1) : t[i] = s
    BY <1>4, <1>9 DEF Has
  <2> PICK a \in 1..n - 1, k \in 1..3 : t[i] = Task(Others(p)[a], <<g, turn(p, Others(p)[a], k)>>)
    BY <1>3
  <2> QED BY <1>1 DEF turn
<1> QED BY ONLY <1>4, <1>5, <1>6, <1>7, <1>8, <1>9, t = productShares(p, g) DEF Planned

(* What a party needs agents for.                                          *)
Roles == {"sender", "receiver", "bidirection"}
Made(g, r) == g \in setup.generators /\ (g = "boolean" /\ setup.numberOfParty = 2 => r # "bidirection")
(* What the generators of the setup ask for.                               *)
Wanted(x) == \/ x \in {Initial, <<"engine">>}
             \/ \E g \in {"boolean", "integer"}, r \in Roles : x = <<g, r>> /\ Made(g, r)

(* A purpose is wanted when the one that corresponds to it is. *)
LEMMA WantedIs ==
  ASSUME NEW x \in Purposes
  PROVE  Wanted(Corresponding(x)) <=> Wanted(x)
<1>1. ASSUME NEW y \in Purposes, Wanted(y) PROVE Wanted(Corresponding(y))
  <2>1. CASE y \in {Initial, <<"engine">>}
    <3>1. Corresponding(y) = y
      BY <2>1 DEF Corresponding, Last, Initial
    <3> QED BY <1>1, <3>1
  <2>2. CASE \E g \in {"boolean", "integer"}, r \in Roles : y = <<g, r>> /\ Made(g, r)
    <3> PICK g \in {"boolean", "integer"}, r \in Roles : y = <<g, r>> /\ Made(g, r)
      BY <2>2
    <3>1. Last(y) = r /\ Head(y) = g
      BY DEF Last
    <3>2. CASE r = "sender"
      <4>1. Corresponding(y) = <<g, "receiver">> /\ Made(g, "receiver")
        BY <3>1, <3>2 DEF Corresponding, Made
      <4> QED BY <4>1 DEF Wanted, Roles
    <3>3. CASE r = "receiver"
      <4>1. Corresponding(y) = <<g, "sender">> /\ Made(g, "sender")
        BY <3>1, <3>3 DEF Corresponding, Made
      <4> QED BY <4>1 DEF Wanted, Roles
    <3>4. CASE r = "bidirection"
      <4>1. Corresponding(y) = y
        BY <3>1, <3>4 DEF Corresponding
      <4> QED BY <1>1, <4>1
    <3> QED BY <3>2, <3>3, <3>4 DEF Roles
  <2> QED BY <1>1, <2>1, <2>2 DEF Wanted
<1> QED BY <1>1, CorrespondingTwice

(* The ranks of the agents of a generator. *)
LEMMA GeneratorRank ==
  ASSUME NEW p \in Nat, NEW q \in Nat, NEW g \in {"boolean", "integer"}, NEW r \in Roles
  PROVE  /\ <<g, r>> \in Purposes \ {Initial, <<"engine">>}
         /\ rank(p, q, <<g, r>>) \in firstRank(g)..firstRank(g) + 2 /\ firstRank(g) \in {2, 5}
         /\ rank(p, q, Initial) = 0 /\ rank(p, q, <<"engine">>) = 1
<1>1. \A h, t : /\ <<h, t>> # Initial /\ <<h, t>> # <<"engine">> /\ <<h, t>>[1] = h /\ <<h, t>>[2] = t
                /\ Last(<<h, t>>) = t /\ Head(<<h, t>>) = h
  BY DEF Initial, Last
<1>2. <<g, r>> \in Purposes
  BY DEF Purposes, Roles
<1>3. \A t : rankAtServer(<<g, t>>) = firstRank(g) + roleRank(g, t)
  BY ONLY <1>1 DEF rankAtServer, firstRank
<1>4. \A t : roleRank(g, t) \in 0..2
  BY DEF roleRank
<1>5. firstRank(g) \in {2, 5}
  BY DEF firstRank
<1>6. \E t : Corresponding(<<g, r>>) = <<g, t>>
  BY ONLY <1>1, r \in Roles DEF Corresponding, Roles
<1>7. rank(p, q, <<g, r>>) \in firstRank(g)..firstRank(g) + 2
  <2>1. \A t : rankAtServer(<<g, t>>) \in firstRank(g)..firstRank(g) + 2
    BY ONLY <1>3, <1>4, <1>5
  <2> QED BY ONLY <1>6, <2>1 DEF rank
<1>8. Corresponding(Initial) = Initial /\ Corresponding(<<"engine">>) = <<"engine">>
  BY DEF Corresponding, Initial, Last
<1>9. rankAtServer(Initial) = 0 /\ rankAtServer(<<"engine">>) = 1
  BY DEF rankAtServer, Initial
<1>10. rank(p, q, Initial) = 0 /\ rank(p, q, <<"engine">>) = 1
  BY ONLY <1>8, <1>9 DEF rank
<1> QED BY ONLY <1>1, <1>2, <1>5, <1>7, <1>10

(* The two agents of the generator for two parties. *)
LEMMA TwoPartyPlanned ==
  ASSUME setup \in Setups, NEW p \in Parties, setup.numberOfParty = 2
  PROVE  /\ Planned(p, twoPartyTuples(p))
         /\ \A s : Has(twoPartyTuples(p), s) <=>
              \E q \in Peers(p) : \E r \in {"sender", "receiver"} : s = Task(q, <<"boolean", r>>)
<1> PICK q : q = 1 - p
  OBVIOUS
<1> PICK a, b : /\ a = IF p = 0 THEN "sender" ELSE "receiver"
                /\ b = IF p = 0 THEN "receiver" ELSE "sender"
  OBVIOUS
<1> PICK t : t = twoPartyTuples(p)
  OBVIOUS
<1>1. p \in {0, 1} /\ q \in {0, 1} /\ p # q /\ Peers(p) = {q} /\ (p < q <=> p = 0)
  BY q = 1 - p DEF Parties, Peers
<1>2. \A r : <<"boolean", r>> # Initial
  BY DEF Initial
<1>3. t = <<Task(q, <<"boolean", a>>), Task(q, <<"boolean", b>>)>>
  BY <1>1, <1>2, t = twoPartyTuples(p), q = 1 - p DEF twoPartyTuples, Task, create
<1>4. a \in Roles /\ b \in Roles /\ {a, b} = {"sender", "receiver"}
  BY DEF Roles
<1>5. StepOk(p, t[1]) /\ StepOk(p, t[2])
  <2>1. <<"boolean", a>> \in Purposes /\ <<"boolean", b>> \in Purposes
    BY <1>4 DEF Purposes, Roles
  <2>2. StepOk(p, Task(q, <<"boolean", a>>)) /\ StepOk(p, Task(q, <<"boolean", b>>))
    BY <1>1, <2>1, TaskIs
  <2> QED BY <1>3, <2>2
<1>6. Len(t) = 2 /\ t \in Seq(Step)
  <2>1. Task(q, <<"boolean", a>>) \in Step /\ Task(q, <<"boolean", b>>) \in Step
    BY <1>3, <1>5 DEF StepOk
  <2> QED BY ONLY <1>3, <2>1
<1>7. Before(p, t[1], t[2])
  <2>1. /\ Corresponding(<<"boolean", "sender">>) = <<"boolean", "receiver">>
        /\ Corresponding(<<"boolean", "receiver">>) = <<"boolean", "sender">>
    <3>1. \A r : Last(<<"boolean", r>>) = r /\ Head(<<"boolean", r>>) = "boolean"
      BY DEF Last
    <3> QED BY ONLY <3>1 DEF Corresponding
  <2>2. rankAtServer(<<"boolean", "sender">>) < rankAtServer(<<"boolean", "receiver">>)
    <3>1. \A r : <<"boolean", r>> # Initial /\ <<"boolean", r>> # <<"engine">>
                /\ <<"boolean", r>>[1] = "boolean" /\ <<"boolean", r>>[2] = r
      BY DEF Initial
    <3>2. \A r : rankAtServer(<<"boolean", r>>) = firstRank("boolean") + roleRank("boolean", r)
      BY ONLY <3>1 DEF rankAtServer, firstRank
    <3>3. roleRank("boolean", "sender") = 0 /\ roleRank("boolean", "receiver") = 1
      BY setup.numberOfParty = 2 DEF roleRank, lowFirst
    <3>4. firstRank("boolean") \in Nat
      BY DEF firstRank
    <3> QED BY ONLY <3>2, <3>3, <3>4
  <2>3. rank(p, q, <<"boolean", a>>) < rank(p, q, <<"boolean", b>>)
    BY <1>1, <2>1, <2>2 DEF rank
  <2>4. q \in Nat
    BY <1>1
  <2>5. Before(p, Task(q, <<"boolean", a>>), Task(q, <<"boolean", b>>))
    BY ONLY <1>2, <2>3, <2>4, BeforeCases
  <2> QED BY <1>3, <2>5
<1>8. \A i, j \in 1..2 : i < j => i = 1 /\ j = 2
  OBVIOUS
<1>9. Planned(p, t)
  BY ONLY <1>5, <1>6, <1>7, <1>8 DEF Planned
<1>10. ASSUME NEW s PROVE Has(t, s) <=> \E r \in {"sender", "receiver"} : s = Task(q, <<"boolean", r>>)
  <2>1. Has(t, s) <=> s = Task(q, <<"boolean", a>>) \/ s = Task(q, <<"boolean", b>>)
    <3>1. t[1] = Task(q, <<"boolean", a>>) /\ t[2] = Task(q, <<"boolean", b>>) /\ 1..Len(t) = {1, 2}
      BY <1>3, <1>6
    <3> QED BY ONLY <3>1 DEF Has
  <2> QED BY ONLY <1>4, <2>1
<1> QED BY ONLY <1>1, <1>9, <1>10, t = twoPartyTuples(p)

(* A Null generator creates none. *)
LEMMA NothingPlanned ==
  ASSUME NEW p
  PROVE  Planned(p, <<>>) /\ \A s : ~Has(<<>>, s)
BY DEF Planned, Has

agentsOf(p, g) == IF g = "boolean" THEN tupleGenerators(p) ELSE arithmeticTupleGenerators(p)

(* The agents of a generator. *)
LEMMA GeneratorPlanned ==
  ASSUME setup \in Setups, NEW p \in Parties, NEW g \in {"boolean", "integer"}
  PROVE  /\ Planned(p, agentsOf(p, g))
         /\ \A s : Has(agentsOf(p, g), s) <=>
              \E q \in Peers(p) : \E r \in Roles : s = Task(q, <<g, r>>) /\ Made(g, r)
<1>1. CASE g \notin setup.generators
  <2>1. agentsOf(p, g) = <<>>
    BY <1>1 DEF agentsOf, tupleGenerators, arithmeticTupleGenerators
  <2> QED BY <1>1, <2>1, NothingPlanned DEF Made
<1>2. CASE g \in setup.generators /\ g = "boolean" /\ setup.numberOfParty = 2
  <2>1. agentsOf(p, g) = twoPartyTuples(p)
    BY <1>2 DEF agentsOf, tupleGenerators
  <2>2. \A r : r \in Roles /\ Made(g, r) <=> r \in {"sender", "receiver"}
    BY <1>2 DEF Made, Roles
  <2>3. /\ Planned(p, twoPartyTuples(p))
        /\ \A s : Has(twoPartyTuples(p), s) <=>
              \E q \in Peers(p) : \E r \in {"sender", "receiver"} : s = Task(q, <<g, r>>)
    BY <1>2, TwoPartyPlanned
  <2> QED BY ONLY <2>1, <2>2, <2>3
<1>3. CASE g \in setup.generators /\ (g = "boolean" => setup.numberOfParty # 2)
  <2>1. agentsOf(p, g) = productShares(p, g)
    BY <1>3 DEF agentsOf, tupleGenerators, arithmeticTupleGenerators
  <2>2. \A r : Made(g, r)
    BY <1>3 DEF Made
  <2>3. /\ Planned(p, productShares(p, g))
        /\ \A s : Has(productShares(p, g), s) <=> \E q \in Peers(p) : \E r \in Roles : s = Task(q, <<g, r>>)
    BY <1>3, SharesPlanned DEF Roles
  <2> QED BY ONLY <2>1, <2>2, <2>3
<1> QED BY <1>1, <1>2, <1>3

(* What the parts of a program have, the program has. *)
LEMMA Joined ==
  ASSUME NEW p, NEW s, NEW t, Planned(p, s), Planned(p, t),
         \A a, b : Has(s, a) /\ Has(t, b) => Before(p, a, b)
  PROVE  Planned(p, s \o t) /\ \A x : Has(s \o t, x) <=> Has(s, x) \/ Has(t, x)
<1>1. \A i \in 1..Len(s), j \in 1..Len(t) : Before(p, s[i], t[j])
  <2>1. (\A i \in 1..Len(s) : Has(s, s[i])) /\ (\A j \in 1..Len(t) : Has(t, t[j]))
    BY DEF Has
  <2> QED BY ONLY <2>1, \A a, b : Has(s, a) /\ Has(t, b) => Before(p, a, b)
<1> QED BY <1>1, Join

(* createEngine, in either order of its two generators. *)
LEMMA EngineProgram ==
  ASSUME setup \in Setups, NEW p \in Parties
  PROVE  /\ Planned(p, createEngine(p))
         /\ \A s : Has(createEngine(p), s) <=>
              \E q \in Peers(p) : \E x \in Purposes : x # Initial /\ Wanted(x) /\ s = Task(q, x)
<1> PICK f \in {"boolean", "integer"}, h \in {"boolean", "integer"} :
      f = first /\ h = IF first = "boolean" THEN "integer" ELSE "boolean"
  BY DEF first
<1> PICK u, v, e : u = agentsOf(p, f) /\ v = agentsOf(p, h) /\ e = getAgentMap(p)
  OBVIOUS
<1>0. {f, h} = {"boolean", "integer"} /\ firstRank(f) = 2 /\ firstRank(h) = 5
  BY DEF firstRank
<1>1. Peers(p) \subseteq Nat /\ p \in Nat
  BY SocketsAssumption DEF Peers, Parties
<1>2. createEngine(p) = e \o (u \o v)
  BY DEF createEngine, agentsOf, first
<1>3. /\ Planned(p, u)
      /\ \A s : Has(u, s) <=> \E q \in Peers(p) : \E r \in Roles : s = Task(q, <<f, r>>) /\ Made(f, r)
  <2>1. /\ Planned(p, agentsOf(p, f))
        /\ \A s : Has(agentsOf(p, f), s) <=>
             \E q \in Peers(p) : \E r \in Roles : s = Task(q, <<f, r>>) /\ Made(f, r)
    BY GeneratorPlanned
  <2> QED BY ONLY <2>1, u = agentsOf(p, f)
<1>4. /\ Planned(p, v)
      /\ \A s : Has(v, s) <=> \E q \in Peers(p) : \E r \in Roles : s = Task(q, <<h, r>>) /\ Made(h, r)
  <2>1. /\ Planned(p, agentsOf(p, h))
        /\ \A s : Has(agentsOf(p, h), s) <=>
             \E q \in Peers(p) : \E r \in Roles : s = Task(q, <<h, r>>) /\ Made(h, r)
    BY GeneratorPlanned
  <2> QED BY ONLY <2>1, v = agentsOf(p, h)
<1>5. /\ Planned(p, e)
      /\ \A s : Has(e, s) <=> \E q \in Peers(p) : s = Task(q, <<"engine">>)
  BY EnginePlanned, e = getAgentMap(p)
<1>6. ASSUME NEW q \in Peers(p), NEW r \in Roles
      PROVE  /\ rank(p, q, <<f, r>>) \in 2..4 /\ rank(p, q, <<h, r>>) \in 5..7
             /\ rank(p, q, <<"engine">>) = 1
             /\ <<f, r>> # Initial /\ <<h, r>> # Initial /\ <<"engine">> # Initial
  <2>1. \A g \in {"boolean", "integer"} :
          /\ rank(p, q, <<g, r>>) \in firstRank(g)..firstRank(g) + 2
          /\ rank(p, q, <<"engine">>) = 1 /\ <<g, r>> # Initial
    BY <1>1, GeneratorRank
  <2>2. <<"engine">> # Initial
    BY DEF Initial
  <2> QED BY ONLY <1>0, <2>1, <2>2
<1>7. ASSUME NEW a, NEW b, Has(u, a), Has(v, b) PROVE Before(p, a, b)
  <2> PICK q \in Peers(p), r \in Roles : a = Task(q, <<f, r>>)
    BY <1>3, <1>7
  <2> PICK w \in Peers(p), t \in Roles : b = Task(w, <<h, t>>)
    BY <1>4, <1>7
  <2>1. rank(p, q, <<f, r>>) < rank(p, q, <<h, t>>)
    <3>1. rank(p, q, <<f, r>>) \in 2..4 /\ rank(p, q, <<h, t>>) \in 5..7
      BY <1>6
    <3> QED BY ONLY <3>1
  <2>2. <<f, r>> # Initial /\ <<h, t>> # Initial /\ q \in Nat /\ w \in Nat
    BY <1>1, <1>6
  <2>3. Before(p, Task(q, <<f, r>>), Task(w, <<h, t>>))
    BY ONLY <2>1, <2>2, BeforeCases
  <2> QED BY <2>3
<1>8. Planned(p, u \o v) /\ \A s : Has(u \o v, s) <=> Has(u, s) \/ Has(v, s)
  BY <1>3, <1>4, <1>7, Joined
<1>9. ASSUME NEW a, NEW b, Has(e, a), Has(u \o v, b) PROVE Before(p, a, b)
  <2> PICK q \in Peers(p) : a = Task(q, <<"engine">>)
    BY <1>5, <1>9
  <2> PICK w \in Peers(p), g \in {f, h}, r \in Roles : b = Task(w, <<g, r>>)
    <3>1. Has(u, b) \/ Has(v, b)
      BY <1>8, <1>9
    <3>2. CASE Has(u, b)
      BY ONLY <1>3, <3>2
    <3>3. CASE Has(v, b)
      BY ONLY <1>4, <3>3
    <3> QED BY ONLY <3>1, <3>2, <3>3
  <2>1. rank(p, q, <<"engine">>) < rank(p, q, <<g, r>>) /\ <<g, r>> # Initial /\ <<"engine">> # Initial
    <3>1. \/ rank(p, q, <<g, r>>) \in 2..4
          \/ rank(p, q, <<g, r>>) \in 5..7
      BY <1>6
    <3>2. rank(p, q, <<"engine">>) = 1 /\ <<g, r>> # Initial /\ <<"engine">> # Initial
      BY <1>6
    <3> QED BY ONLY <3>1, <3>2
  <2>2. q \in Nat /\ w \in Nat
    BY <1>1
  <2>3. Before(p, Task(q, <<"engine">>), Task(w, <<g, r>>))
    BY ONLY <2>1, <2>2, BeforeCases
  <2> QED BY <2>3
<1>10. Planned(p, e \o (u \o v)) /\ \A s : Has(e \o (u \o v), s) <=> Has(e, s) \/ Has(u \o v, s)
  BY <1>5, <1>8, <1>9, Joined
<1>11. ASSUME NEW s
       PROVE  Has(createEngine(p), s) <=>
                \E q \in Peers(p) : \E x \in Purposes : x # Initial /\ Wanted(x) /\ s = Task(q, x)
  <2>0. Has(createEngine(p), s) <=> Has(e, s) \/ Has(u, s) \/ Has(v, s)
    BY <1>2, <1>8, <1>10
  <2>1. Has(createEngine(p), s) <=>
          \/ \E q \in Peers(p) : s = Task(q, <<"engine">>)
          \/ \E q \in Peers(p) : \E g \in {f, h} : \E r \in Roles :
                s = Task(q, <<g, r>>) /\ Made(g, r)
    BY ONLY <1>3, <1>4, <1>5, <2>0
  <2>2. <<"engine">> \in Purposes /\ <<"engine">> # Initial /\ Wanted(<<"engine">>)
    BY DEF Purposes, Initial, Wanted
  <2>3. \A g \in {"boolean", "integer"}, r \in Roles :
          <<g, r>> \in Purposes /\ <<g, r>> # Initial /\ (Made(g, r) => Wanted(<<g, r>>))
    BY DEF Purposes, Initial, Wanted, Roles
  <2>4. \A x : Wanted(x) /\ x # Initial =>
          \/ x = <<"engine">>
          \/ \E g \in {"boolean", "integer"}, r \in Roles : x = <<g, r>> /\ Made(g, r)
    BY DEF Wanted
  <2>5. ASSUME NEW q \in Peers(p), NEW x \in Purposes, x # Initial, Wanted(x), s = Task(q, x)
        PROVE  Has(createEngine(p), s)
    BY ONLY <1>0, <2>1, <2>4, <2>5, q \in Peers(p)
  <2>6. Has(createEngine(p), s) =>
          \E q \in Peers(p) : \E x \in Purposes : x # Initial /\ Wanted(x) /\ s = Task(q, x)
    BY ONLY <1>0, <2>1, <2>2, <2>3
  <2> QED BY ONLY <2>5, <2>6
<1> QED BY <1>2, <1>10, <1>11

(* What a party does, and in which order.                                  *)
LEMMA ProgramPlanned ==
  ASSUME setup \in Setups, NEW p \in Parties
  PROVE  /\ Planned(p, Program(p))
         /\ \A q \in Peers(p) : Has(Program(p), BindTask(q)) <=> p < q
         /\ \A q \in Peers(p) : \A x \in Purposes : Has(Program(p), Task(q, x)) <=> Wanted(x)
<1> PICK b, c, e : b = setupInitialSockets(p) /\ c = setupInitialConnection(p) /\ e = createEngine(p)
  OBVIOUS
<1>1. Peers(p) \subseteq Nat /\ p \in Nat
  BY SocketsAssumption DEF Peers, Parties
<1>2. Program(p) = (b \o c) \o e
  BY b = setupInitialSockets(p), c = setupInitialConnection(p), e = createEngine(p) DEF Program
<1>3. Planned(p, b) /\ \A s : Has(b, s) <=> \E q \in Peers(p) : p < q /\ s = BindTask(q)
  BY BindsPlanned, b = setupInitialSockets(p)
<1>4. Planned(p, c) /\ \A s : Has(c, s) <=> \E q \in Peers(p) : s = Task(q, Initial)
  BY ConnectsPlanned, c = setupInitialConnection(p)
<1>5. /\ Planned(p, e)
      /\ \A s : Has(e, s) <=>
           \E q \in Peers(p) : \E x \in Purposes : x # Initial /\ Wanted(x) /\ s = Task(q, x)
  BY EngineProgram, e = createEngine(p)
<1>6. ASSUME NEW s, NEW t, Has(b, s), Has(c, t) PROVE Before(p, s, t)
  <2> PICK q \in Nat, r \in Nat : s = BindTask(q) /\ t = Task(r, Initial)
    BY <1>1, <1>3, <1>4, <1>6
  <2>1. Before(p, BindTask(q), Task(r, Initial))
    BY ONLY BeforeCases, q \in Nat, r \in Nat
  <2> QED BY <2>1
<1>7. Planned(p, b \o c) /\ \A s : Has(b \o c, s) <=> Has(b, s) \/ Has(c, s)
  BY <1>3, <1>4, <1>6, Joined
<1>8. ASSUME NEW s, NEW t, Has(b \o c, s), Has(e, t) PROVE Before(p, s, t)
  <2> PICK w \in Peers(p), y \in Purposes : y # Initial /\ t = Task(w, y)
    BY <1>5, <1>8
  <2>1. CASE Has(b, s)
    <3> PICK q \in Nat : s = BindTask(q)
      BY <1>1, <1>3, <2>1
    <3>1. w \in Nat
      BY <1>1
    <3>2. Before(p, BindTask(q), Task(w, y))
      BY ONLY <3>1, BeforeCases, q \in Nat
    <3> QED BY <3>2
  <2>2. CASE Has(c, s)
    <3> PICK q \in Peers(p) : s = Task(q, Initial)
      BY <1>4, <2>2
    <3>1. q \in Nat /\ w \in Nat /\ p \in Nat /\ p # q
      BY <1>1 DEF Peers
    <3>2. Initial \in Purposes
      BY DEF Purposes
    <3>3. rank(p, q, Initial) < rank(p, q, y)
      <4>1. rank(p, q, Initial) = 0 /\ rank(p, q, y) \in Nat /\ rank(p, q, y) # 0
        BY <3>1, <3>2, SameRank, y # Initial
      <4> QED BY ONLY <4>1
    <3>4. Before(p, Task(q, Initial), Task(w, y))
      BY ONLY <3>1, <3>3, BeforeCases, y # Initial
    <3> QED BY <3>4
  <2> QED BY <1>7, <1>8, <2>1, <2>2
<1>9. /\ Planned(p, (b \o c) \o e)
      /\ \A s : Has((b \o c) \o e, s) <=> Has(b, s) \/ Has(c, s) \/ Has(e, s)
  BY <1>5, <1>7, <1>8, Joined
<1>10. ASSUME NEW q \in Peers(p) PROVE Has(Program(p), BindTask(q)) <=> p < q
  BY ONLY <1>2, <1>3, <1>4, <1>5, <1>9, TasksDiffer, q \in Peers(p)
<1>11. ASSUME NEW q \in Peers(p), NEW x \in Purposes PROVE Has(Program(p), Task(q, x)) <=> Wanted(x)
  <2>1. Wanted(Initial)
    BY DEF Wanted
  <2>2. ~Has(b, Task(q, x))
    BY ONLY <1>3, TasksDiffer
  <2>3. Has(c, Task(q, x)) <=> x = Initial
    BY ONLY <1>4, TasksDiffer, q \in Peers(p)
  <2>4. Has(e, Task(q, x)) <=> x # Initial /\ Wanted(x)
    BY ONLY <1>5, TasksDiffer, q \in Peers(p), x \in Purposes
  <2> QED BY ONLY <1>2, <1>9, <2>1, <2>2, <2>3, <2>4
<1> QED BY <1>2, <1>9, <1>10, <1>11

-----------------------------------------------------------------------------
(* What a party has still to do, and what it has.                          *)

(* What a party has still to do for a peer, and what it has.               *)
ToBind(p, q) == Has(todo[p], BindTask(q))
Remains(p, q, x) == Has(todo[p], Task(q, x))
(* Where it is in the step it does.                                        *)
Does(p, q, x) == todo[p] # <<>> /\ Now(p) = Task(q, x)
Opens(p, q, x) == at[p].stage = "open" /\ Does(p, q, x)
Shaking(p, q, x) == at[p].stage = "handshake" /\ Does(p, q, x)
(* It has an agent on the connection c, or will when the handshake         *)
(* returns.                                                                *)
Uses(p, q, x, c) ==
  IF x = Initial THEN c # NoConnection /\ initial[p][q] = c
                 ELSE [peer |-> q, connection |-> c, purpose |-> x] \in agents[p]
Holds(p, q, x, c) == Uses(p, q, x, c) \/ (Shaking(p, q, x) /\ at[p].connection = c)
(* It has not connected yet, as a client; it is to listen now, as a        *)
(* server.                                                                 *)
Unmet(p, q, x) == Remains(p, q, x) /\ ~Shaking(p, q, x)
Awaits(p, q, x) ==
  IF x = Initial THEN Remains(p, q, Initial) /\ ~ToBind(p, q) ELSE Opens(p, q, x)
(* Who has left, the port agreed for a pair, whose a connection is, and    *)
(* the sockets p listens on for q.                                         *)
Gone(p) == status[p] \notin {"running", "done"}

Agreed(p, q) == setup.ports[{p, q}]
Between(c, p, q) ==
  c \in DOMAIN connections /\ connections[c].server = p /\ connections[c].client = q
Sock(p, q) == {s \in sockets : s.owner = p /\ s.for = q}

(* The first step of a program comes before the others. *)
LEMMA HeadOf ==
  ASSUME NEW p \in Parties, NEW t, Planned(p, t), t # <<>>
  PROVE  /\ StepOk(p, Head(t)) /\ Has(t, Head(t)) /\ Planned(p, Tail(t))
         /\ \A s : Has(t, s) => s = Head(t) \/ Before(p, Head(t), s)
         /\ \A s : Has(Tail(t), s) <=> Has(t, s) /\ s # Head(t)
         /\ Len(Tail(t)) = Len(t) - 1 /\ Tail(t) \in Seq(Step)
<1> PICK n \in Nat : n = Len(t)
  BY DEF Planned
<1>1. /\ t \in Seq(Step) /\ n > 0 /\ Head(t) = t[1] /\ Tail(t) \in Seq(Step) /\ Len(Tail(t)) = n - 1
      /\ \A i \in 1..n - 1 : Tail(t)[i] = t[i + 1]
  BY DEF Planned
<1>2. /\ \A i \in 1..n : StepOk(p, t[i])
      /\ \A i, j \in 1..n : i < j => Before(p, t[i], t[j])
  BY DEF Planned
<1>3. \A i \in 1..n - 1 : i + 1 \in 1..n /\ i + 1 # 1
  OBVIOUS
<1>4. StepOk(p, Head(t)) /\ Has(t, Head(t))
  <2>1. 1 \in 1..n
    BY ONLY <1>1, n \in Nat
  <2> QED BY ONLY <1>1, <1>2, <2>1, n = Len(t) DEF Has
<1>5. Planned(p, Tail(t))
  <2>1. \A i \in 1..n - 1 : StepOk(p, Tail(t)[i])
    BY ONLY <1>1, <1>2, <1>3
  <2>2. ASSUME NEW i \in 1..n - 1, NEW j \in 1..n - 1, i < j PROVE Before(p, Tail(t)[i], Tail(t)[j])
    <3>1. i + 1 \in 1..n /\ j + 1 \in 1..n /\ i + 1 < j + 1
      BY ONLY n \in Nat, i \in 1..n - 1, j \in 1..n - 1, i < j
    <3> QED BY ONLY <1>1, <1>2, <3>1
  <2> QED BY ONLY <1>1, <2>1, <2>2 DEF Planned
<1>6. ASSUME NEW s, Has(t, s) PROVE s = Head(t) \/ Before(p, Head(t), s)
  <2> PICK i \in 1..n : t[i] = s
    BY ONLY <1>6, n = Len(t) DEF Has
  <2>1. i = 1 \/ 1 < i
    OBVIOUS
  <2>2. 1 \in 1..n
    BY ONLY <1>1, n \in Nat
  <2> QED BY ONLY <1>1, <1>2, <2>1, <2>2, t[i] = s, i \in 1..n
<1>7. ASSUME NEW a, StepOk(p, a) PROVE ~Before(p, a, a)
  <2>1. a.peer \in Nat /\ rank(p, a.peer, a.purpose) \in Nat
    <3>1. a.peer \in Nat /\ p \in Nat /\ a.peer # p /\ a.purpose \in Purposes
      BY <1>7 DEF StepOk, Step, Parties
    <3> QED BY <3>1, SameRank
  <2>2. a.call \in {"bind", "connect", "create"}
    BY <1>7 DEF StepOk, Step
  <2> QED BY ONLY <2>1, <2>2 DEF Before
<1>8. ASSUME NEW s, Has(Tail(t), s) PROVE Has(t, s) /\ s # Head(t)
  <2> PICK i \in 1..n - 1 : Tail(t)[i] = s
    BY ONLY <1>1, <1>8 DEF Has
  <2>1. i + 1 \in 1..n /\ 1 \in 1..n /\ 1 < i + 1 /\ t[i + 1] = s
    BY ONLY <1>1, n \in Nat, i \in 1..n - 1, Tail(t)[i] = s
  <2>2. Before(p, t[1], s)
    BY ONLY <1>2, <2>1
  <2>3. s # t[1]
    BY ONLY <1>4, <1>1, <1>7, <2>2
  <2> QED BY ONLY <1>1, <2>1, <2>3, n = Len(t) DEF Has
<1>9. ASSUME NEW s, Has(t, s), s # Head(t) PROVE Has(Tail(t), s)
  <2> PICK i \in 1..n : t[i] = s
    BY ONLY <1>9, n = Len(t) DEF Has
  <2>1. i # 1
    BY ONLY <1>1, <1>9, t[i] = s
  <2> PICK j \in 1..n - 1 : j + 1 = i
    <3>1. i - 1 \in 1..n - 1 /\ (i - 1) + 1 = i
      BY ONLY <2>1, n \in Nat, i \in 1..n
    <3> QED BY ONLY <3>1
  <2>2. Tail(t)[j] = s
    BY ONLY <1>1, t[i] = s, j \in 1..n - 1, j + 1 = i
  <2> QED BY ONLY <1>1, <2>2, j \in 1..n - 1 DEF Has
<1> QED BY ONLY <1>1, <1>4, <1>5, <1>6, <1>8, <1>9, n = Len(t)

(* What comes first is of the earliest kind and, for its peer, of the      *)
(* lowest rank.                                                            *)
LEMMA NowIs ==
  ASSUME NEW p \in Parties, Planned(p, todo[p]), todo[p] # <<>>
  PROVE  /\ \/ \E q \in Peers(p) : p < q /\ Now(p) = BindTask(q)
            \/ \E q \in Peers(p) : \E x \in Purposes : Now(p) = Task(q, x)
         /\ \A q \in Peers(p) : Now(p) = BindTask(q) =>
              ToBind(p, q) /\ \A r \in Peers(p) : ToBind(p, r) => q <= r
         /\ \A q \in Peers(p) : \A x \in Purposes : Now(p) = Task(q, x) =>
              /\ Remains(p, q, x)
              /\ \A r \in Peers(p) : ~ToBind(p, r)
              /\ \A r \in Peers(p) : Remains(p, r, Initial) => x = Initial /\ q <= r
              /\ \A y \in Purposes : Remains(p, q, y) => rank(p, q, x) <= rank(p, q, y)
<1>1. /\ StepOk(p, Now(p)) /\ Has(todo[p], Now(p))
      /\ \A s : Has(todo[p], s) => s = Now(p) \/ Before(p, Now(p), s)
  BY HeadOf DEF Now
<1>2. p \in Nat /\ Peers(p) \subseteq Nat /\ Initial \in Purposes /\ \A q \in Peers(p) : p # q
  BY DEF Parties, Peers, Purposes
<1>3. \A q, y : /\ Task(q, y).peer = q /\ Task(q, y).purpose = y
                /\ Task(q, y).call = (IF y = Initial THEN "connect" ELSE "create")
                /\ BindTask(q).peer = q /\ BindTask(q).call = "bind"
  BY DEF Task, BindTask
<1>4. ASSUME NEW q \in Peers(p), Now(p) = BindTask(q)
      PROVE  ToBind(p, q) /\ \A r \in Peers(p) : ToBind(p, r) => q <= r
  <2>1. ASSUME NEW r \in Peers(p), ToBind(p, r) PROVE q <= r
    <3>1. BindTask(r) = BindTask(q) \/ Before(p, BindTask(q), BindTask(r))
      BY ONLY <1>1, <1>4, <2>1 DEF ToBind
    <3>2. q \in Nat /\ r \in Nat
      BY <1>2
    <3> QED BY ONLY <1>3, <3>1, <3>2 DEF Before
  <2> QED BY ONLY <1>1, <1>4, <2>1 DEF ToBind
<1>5. ASSUME NEW q \in Peers(p), NEW x \in Purposes, Now(p) = Task(q, x)
      PROVE  /\ Remains(p, q, x)
             /\ \A r \in Peers(p) : ~ToBind(p, r)
             /\ \A r \in Peers(p) : Remains(p, r, Initial) => x = Initial /\ q <= r
             /\ \A y \in Purposes : Remains(p, q, y) => rank(p, q, x) <= rank(p, q, y)
  <2>0. \A s : Has(todo[p], s) => s = Task(q, x) \/ Before(p, Task(q, x), s)
    BY ONLY <1>1, <1>5
  <2>1. ASSUME NEW r \in Peers(p) PROVE ~ToBind(p, r)
    BY ONLY <1>3, <2>0 DEF ToBind, Before
  <2>2. ASSUME NEW r \in Peers(p), Remains(p, r, Initial) PROVE x = Initial /\ q <= r
    <3>1. Task(r, Initial) = Task(q, x) \/ Before(p, Task(q, x), Task(r, Initial))
      BY ONLY <2>0, <2>2 DEF Remains
    <3>2. q \in Nat /\ r \in Nat
      BY <1>2
    <3> QED BY ONLY <1>3, <3>1, <3>2 DEF Before
  <2>3. ASSUME NEW y \in Purposes, Remains(p, q, y) PROVE rank(p, q, x) <= rank(p, q, y)
    <3>1. Task(q, y) = Task(q, x) \/ Before(p, Task(q, x), Task(q, y))
      BY ONLY <2>0, <2>3 DEF Remains
    <3>2. rank(p, q, x) \in Nat /\ rank(p, q, y) \in Nat
      BY <1>2, SameRank
    <3> QED BY ONLY <1>3, <3>1, <3>2 DEF Before
  <2> QED BY ONLY <1>1, <1>5, <2>1, <2>2, <2>3 DEF Remains
<1>6. \/ \E q \in Peers(p) : p < q /\ Now(p) = BindTask(q)
      \/ \E q \in Peers(p) : \E x \in Purposes : Now(p) = Task(q, x)
  BY <1>1, TasksOnly
<1> QED BY ONLY <1>4, <1>5, <1>6

-----------------------------------------------------------------------------
(* A party on its own.                                                     *)

(* Types.                                                                  *)
Positions == [stage : {"start", "open", "handshake"}, port : Nat, connection : Nat]
SocketSet == [host : Nat, port : Nat, owner : Parties, for : Parties, connected : Seq(Nat)]
ConnectionSet == [server : Parties, client : Parties, mail : Seq(Nat), accepted : BOOLEAN]
AgentSet(p) == [peer : Peers(p), connection : Nat, purpose : Purposes \ {Initial}]
Statuses == {"running", "done", "thrown", "aborted", "spinning"}

TypesOk ==
  /\ setup \in Setups
  /\ todo \in [Parties -> Seq(Step)] /\ at \in [Parties -> Positions]
  /\ status \in [Parties -> Statuses]
  /\ sockets \subseteq SocketSet /\ connections \in Seq(ConnectionSet)
  /\ DOMAIN portNo = Parties /\ DOMAIN initial = Parties /\ DOMAIN agents = Parties

(* Binding comes before connecting, and both go by the ids of the parties. *)
InOrder(p) ==
  \A q, r \in Peers(p) :
    /\ ToBind(p, q) => Remains(p, r, Initial)
    /\ q < r /\ ToBind(p, q) => ToBind(p, r)
    /\ q < r /\ Remains(p, q, Initial) => Remains(p, r, Initial)

(* What is true of a party on its own: its program, its place in it, its   *)
(* ports and its initial connections.                                      *)
Local(p) ==
  /\ Planned(p, todo[p]) /\ InOrder(p)
  /\ status[p] = "running" => todo[p] # <<>>
  /\ at[p].stage # "start" => todo[p] # <<>> /\ Now(p).call # "bind"
  /\ at[p].stage = "handshake" => Now(p).peer < p
  /\ DOMAIN portNo[p] = Peers(p) /\ DOMAIN initial[p] = Peers(p) /\ agents[p] \subseteq AgentSet(p)
  /\ \A q \in Peers(p) :
       /\ portNo[p][q] \in Nat /\ initial[p][q] \in Nat
       /\ p > q \/ Remains(p, q, Initial) => portNo[p][q] = Agreed(p, q)
       /\ initial[p][q] = NoConnection <=> Remains(p, q, Initial)

(* What a party's part in a pair is made of.                               *)
SideKept(p, q) ==
  /\ ToBind(p, q)' <=> ToBind(p, q)
  /\ \A x \in Purposes :
       /\ Remains(p, q, x)' <=> Remains(p, q, x)
       /\ Opens(p, q, x)' <=> Opens(p, q, x)
       /\ Unmet(p, q, x)' <=> Unmet(p, q, x)
       /\ Opens(p, q, x) => at[p].port' = at[p].port
       /\ \A c \in Nat : /\ Uses(p, q, x, c)' <=> Uses(p, q, x, c)
                         /\ Holds(p, q, x, c)' <=> Holds(p, q, x, c)

(* Nothing of the party changes, unless it leaves.                         *)
SameParty(p) ==
  /\ todo[p]' = todo[p] /\ at[p]' = at[p] /\ portNo[p]' = portNo[p] /\ initial[p]' = initial[p]
  /\ agents[p]' = agents[p] /\ (status[p]' = status[p] \/ status[p]' # "running")

(* What is said of the setup alone.                                        *)
LEMMA SetupKept ==
  ASSUME setup' = setup
  PROVE  /\ Parties' = Parties /\ Step' = Step /\ Positions' = Positions
         /\ SocketSet' = SocketSet /\ ConnectionSet' = ConnectionSet
         /\ \A p : Peers(p)' = Peers(p) /\ Host(p)' = Host(p) /\ AgentSet(p)' = AgentSet(p)
         /\ \A p, q : Agreed(p, q)' = Agreed(p, q)
         /\ \A p, q, x : rank(p, q, x)' = rank(p, q, x)
         /\ \A p, t : Planned(p, t)' <=> Planned(p, t)
<1>1. /\ Parties' = Parties
      /\ \A p : Peers(p)' = Peers(p) /\ Host(p)' = Host(p)
      /\ \A p, q : Agreed(p, q)' = Agreed(p, q)
  BY DEF Parties, Peers, Agreed, Host
<1>2. Step' = Step /\ SocketSet' = SocketSet /\ ConnectionSet' = ConnectionSet
  BY ONLY <1>1 DEF Step, SocketSet, ConnectionSet
<1>3. \A p : AgentSet(p)' = AgentSet(p)
  BY ONLY <1>1 DEF AgentSet
<1>4. /\ \A s, p : StepOk(p, s)' <=> StepOk(p, s)
      /\ \A x : rankAtServer(x)' = rankAtServer(x)
  <2>1. first' = first /\ \A g : lowFirst(g)' = lowFirst(g)
    BY DEF first, lowFirst
  <2>2. \A g, r : roleRank(g, r)' = roleRank(g, r)
    BY ONLY <2>1 DEF roleRank
  <2> QED BY ONLY <1>2, <2>1, <2>2 DEF StepOk, rankAtServer
<1>5. \A p, q, x : rank(p, q, x)' = rank(p, q, x)
  BY ONLY <1>4 DEF rank
<1>6. \A p, s, t : Before(p, s, t)' <=> Before(p, s, t)
  BY ONLY <1>5 DEF Before
<1>7. \A p, t : Planned(p, t)' <=> Planned(p, t)
  BY ONLY <1>2, <1>4, <1>6 DEF Planned
<1>8. Positions' = Positions
  BY DEF Positions
<1> QED BY ONLY <1>1, <1>2, <1>3, <1>5, <1>7, <1>8

(* A party whose state is kept keeps its part in every pair. *)
LEMMA PartyKept ==
  ASSUME NEW p \in Parties, setup' = setup, SameParty(p)
  PROVE  (Local(p) => Local(p)') /\ \A q \in Peers(p) : SideKept(p, q)
<1>1. /\ todo[p]' = todo[p] /\ at[p]' = at[p] /\ portNo[p]' = portNo[p] /\ initial[p]' = initial[p]
      /\ agents[p]' = agents[p] /\ (status[p]' = status[p] \/ status[p]' # "running")
  BY DEF SameParty
<1>2. /\ Parties' = Parties
      /\ \A q : Peers(q)' = Peers(q) /\ AgentSet(q)' = AgentSet(q)
      /\ \A q, r : Agreed(q, r)' = Agreed(q, r)
  BY SetupKept
<1>3. /\ \A q : ToBind(p, q)' <=> ToBind(p, q)
      /\ \A q, x : Remains(p, q, x)' <=> Remains(p, q, x)
      /\ \A q, x : Does(p, q, x)' <=> Does(p, q, x)
      /\ Now(p)' = Now(p)
  BY ONLY <1>1 DEF ToBind, Remains, Does, Now
<1>4. /\ \A q, x : Opens(p, q, x)' <=> Opens(p, q, x)
      /\ \A q, x : Shaking(p, q, x)' <=> Shaking(p, q, x)
      /\ \A q, x, c : Uses(p, q, x, c)' <=> Uses(p, q, x, c)
  BY ONLY <1>1, <1>3 DEF Opens, Shaking, Uses
<1>5. /\ \A q, x : Unmet(p, q, x)' <=> Unmet(p, q, x)
      /\ \A q, x, c : Holds(p, q, x, c)' <=> Holds(p, q, x, c)
  BY ONLY <1>1, <1>3, <1>4 DEF Unmet, Holds
<1>6. ASSUME NEW q \in Peers(p) PROVE SideKept(p, q)
  BY ONLY <1>1, <1>3, <1>4, <1>5 DEF SideKept
<1>7. ASSUME Local(p) PROVE Local(p)'
  <2>1. Planned(p, todo[p])'
    <3>1. Planned(p, todo[p])
      BY <1>7 DEF Local
    <3>2. \A t : Planned(p, t)' <=> Planned(p, t)
      BY SetupKept
    <3> QED BY <1>1, <3>1, <3>2
  <2>2. InOrder(p)'
    BY <1>2, <1>3, <1>7 DEF Local, InOrder
  <2>3. /\ status[p]' = "running" => todo[p]' # <<>>
        /\ at[p]'.stage # "start" => todo[p]' # <<>> /\ Now(p)'.call # "bind"
        /\ at[p]'.stage = "handshake" => Now(p)'.peer < p
    BY <1>1, <1>3, <1>7 DEF Local
  <2>4. /\ DOMAIN portNo[p]' = Peers(p)' /\ DOMAIN initial[p]' = Peers(p)'
        /\ agents[p]' \subseteq AgentSet(p)'
    BY <1>1, <1>2, <1>7 DEF Local
  <2>5. \A q \in Peers(p)' :
          /\ portNo[p][q]' \in Nat /\ initial[p][q]' \in Nat
          /\ p > q \/ Remains(p, q, Initial)' => portNo[p][q]' = Agreed(p, q)'
          /\ initial[p][q]' = NoConnection <=> Remains(p, q, Initial)'
    BY <1>1, <1>2, <1>3, <1>7 DEF Local
  <2> QED BY ONLY <2>1, <2>2, <2>3, <2>4, <2>5 DEF Local
<1> QED BY <1>6, <1>7

(* A step that is over.                                                    *)
LEMMA FinishParty ==
  ASSUME TypesOk, NEW r \in Parties, Local(r), status[r] = "running", NEW c, Finish(r, c)
  PROVE  /\ todo' \in [Parties -> Seq(Step)] /\ at' \in [Parties -> Positions]
         /\ status' \in [Parties -> Statuses]
         /\ DOMAIN initial' = Parties /\ DOMAIN agents' = Parties
         /\ todo[r]' = Tail(todo[r]) /\ at[r]' = Start /\ status[r]' \in {"running", "done"}
         /\ status[r]' = "running" => todo[r]' # <<>>
         /\ \A u \in Parties \ {r} :
              /\ todo[u]' = todo[u] /\ at[u]' = at[u] /\ status[u]' = status[u]
              /\ initial[u]' = initial[u] /\ agents[u]' = agents[u]
<1>1. todo' = [todo EXCEPT ![r] = Tail(@)] /\ todo \in [Parties -> Seq(Step)]
  BY DEF Finish, TypesOk
<1>2. at' = [at EXCEPT ![r] = Start] /\ at \in [Parties -> Positions] /\ Start \in Positions
  BY DEF Finish, TypesOk, Start, Positions, NoConnection
<1>3. /\ status' = [status EXCEPT ![r] = IF Len(todo[r]) = 1 THEN "done" ELSE @]
      /\ status \in [Parties -> Statuses]
  BY DEF Finish, TypesOk
<1>4. /\ todo[r] # <<>> /\ Planned(r, todo[r])
  BY DEF Local
<1>5. Len(Tail(todo[r])) = Len(todo[r]) - 1 /\ Tail(todo[r]) \in Seq(Step)
  BY <1>4, HeadOf
<1>6. todo' \in [Parties -> Seq(Step)] /\ todo[r]' = Tail(todo[r])
  BY ONLY <1>1, <1>5, r \in Parties
<1>7. at' \in [Parties -> Positions] /\ at[r]' = Start
  BY ONLY <1>2, r \in Parties
<1>8. /\ status' \in [Parties -> Statuses]
      /\ status[r]' = IF Len(todo[r]) = 1 THEN "done" ELSE "running"
  BY ONLY <1>3, r \in Parties, status[r] = "running" DEF Statuses
<1>9. status[r]' = "running" => todo[r]' # <<>>
  <2>1. Len(todo[r]) \in Nat
    BY <1>1, r \in Parties
  <2>2. Len(todo[r]') = Len(todo[r]) - 1
    BY ONLY <1>5, <1>6
  <2>3. todo[r]' = <<>> => Len(todo[r]') = 0
    OBVIOUS
  <2>4. Len(todo[r]) = 1 => status[r]' = "done"
    BY ONLY <1>8
  <2> QED BY ONLY <2>1, <2>2, <2>3, <2>4
<1>10. /\ DOMAIN initial' = Parties
       /\ \A u \in Parties \ {r} : initial[u]' = initial[u]
  <2>1. DOMAIN initial = Parties
    BY DEF TypesOk
  <2>2. \/ initial' = initial
        \/ initial' = [initial EXCEPT ![r][Now(r).peer] = c]
    BY DEF Finish
  <2> QED BY ONLY <2>1, <2>2, r \in Parties
<1>11. /\ DOMAIN agents' = Parties
       /\ \A u \in Parties \ {r} : agents[u]' = agents[u]
  <2>1. DOMAIN agents = Parties
    BY DEF TypesOk
  <2>2. \/ agents' = agents
        \/ \E b : agents' = [agents EXCEPT ![r] = b]
    BY DEF Finish
  <2> QED BY ONLY <2>1, <2>2, r \in Parties
<1>12. \A u \in Parties \ {r} : todo[u]' = todo[u] /\ at[u]' = at[u] /\ status[u]' = status[u]
  BY ONLY <1>1, <1>2, <1>3
<1> QED BY ONLY <1>6, <1>7, <1>8, <1>9, <1>10, <1>11, <1>12

(* The view after a step that opened an agent.                             *)
Finished(r, t, x, c) ==
  \A q \in Peers(r) :
    /\ ToBind(r, q)' <=> ToBind(r, q)
    /\ \A y \in Purposes :
         /\ Remains(r, q, y)' <=> Remains(r, q, y) /\ ~(q = t /\ y = x)
         /\ ~Opens(r, q, y)' /\ ~Shaking(r, q, y)'
         /\ \A d \in Nat : Uses(r, q, y, d)' <=> Uses(r, q, y, d) \/ (q = t /\ y = x /\ d = c)

(* A step that opened an agent is over: the party has the agent and goes   *)
(* on.                                                                     *)
LEMMA FinishTask ==
  ASSUME TypesOk, NEW r \in Parties, Local(r), status[r] = "running", setup' = setup,
         NEW c \in Nat, c # NoConnection, Finish(r, c), portNo[r]' = portNo[r],
         NEW t \in Peers(r), NEW x \in Purposes, Now(r) = Task(t, x)
  PROVE  Local(r)' /\ Finished(r, t, x, c)
<1>0. /\ Now(r).peer = t /\ Now(r).purpose = x
      /\ Now(r).call = (IF x = Initial THEN "connect" ELSE "create")
  BY DEF Task
<1>1. /\ todo[r] # <<>> /\ Planned(r, todo[r]) /\ InOrder(r)
      /\ DOMAIN portNo[r] = Peers(r) /\ DOMAIN initial[r] = Peers(r) /\ agents[r] \subseteq AgentSet(r)
      /\ \A q \in Peers(r) :
           /\ portNo[r][q] \in Nat /\ initial[r][q] \in Nat
           /\ r > q \/ Remains(r, q, Initial) => portNo[r][q] = Agreed(r, q)
           /\ initial[r][q] = NoConnection <=> Remains(r, q, Initial)
  BY DEF Local
<1>2. /\ todo[r]' = Tail(todo[r]) /\ at[r]' = Start /\ status[r]' \in {"running", "done"}
      /\ status[r]' = "running" => todo[r]' # <<>>
  BY FinishParty
<1>3. /\ Has(todo[r], Now(r)) /\ Planned(r, Tail(todo[r]))
      /\ \A s : Has(Tail(todo[r]), s) <=> Has(todo[r], s) /\ s # Task(t, x)
  BY <1>1, HeadOf DEF Now
<1>4. /\ \A q : ToBind(r, q)' <=> ToBind(r, q)
      /\ \A q, y : Remains(r, q, y)' <=> Remains(r, q, y) /\ ~(q = t /\ y = x)
  BY ONLY <1>2, <1>3, TasksDiffer DEF ToBind, Remains
<1>5. \A q, y : ~Opens(r, q, y)' /\ ~Shaking(r, q, y)'
  BY ONLY <1>2 DEF Opens, Shaking, Start
<1>6. initial[r]' = IF x = Initial THEN [initial[r] EXCEPT ![t] = c] ELSE initial[r]
  <2>1. DOMAIN initial = Parties
    BY DEF TypesOk
  <2>2. initial' = IF x = Initial THEN [initial EXCEPT ![r][t] = c] ELSE initial
    BY <1>0 DEF Finish
  <2> QED BY ONLY <2>1, <2>2, r \in Parties
<1>7. agents[r]' = IF x = Initial THEN agents[r]
                   ELSE agents[r] \cup {[peer |-> t, connection |-> c, purpose |-> x]}
  <2>1. DOMAIN agents = Parties
    BY DEF TypesOk
  <2>2. agents' = IF x = Initial THEN agents
                  ELSE [agents EXCEPT ![r] = @ \cup {[peer |-> t, connection |-> c, purpose |-> x]}]
    BY <1>0 DEF Finish
  <2> QED BY ONLY <2>1, <2>2, r \in Parties
<1>8. ASSUME NEW q \in Peers(r), NEW y \in Purposes, NEW d \in Nat
      PROVE  Uses(r, q, y, d)' <=> Uses(r, q, y, d) \/ (q = t /\ y = x /\ d = c)
  <2>1. CASE y = Initial
    <3>1. x = Initial => initial[r][t] = NoConnection
      BY <1>1, <1>3 DEF Remains
    <3>2. initial[r][q]' = IF x = Initial /\ q = t THEN c ELSE initial[r][q]
      BY ONLY <1>1, <1>6, q \in Peers(r)
    <3> QED BY ONLY <2>1, <3>1, <3>2, c # NoConnection DEF Uses
  <2>2. CASE y # Initial
    <3>1. [peer |-> q, connection |-> d, purpose |-> y] = [peer |-> t, connection |-> c, purpose |-> x]
            <=> q = t /\ y = x /\ d = c
      OBVIOUS
    <3> QED BY ONLY <1>7, <2>2, <3>1 DEF Uses
  <2> QED BY <2>1, <2>2
<1>9. Finished(r, t, x, c)
  BY ONLY <1>4, <1>5, <1>8 DEF Finished
<1>10. Local(r)'
  <2>0. /\ Parties' = Parties
        /\ \A q : Peers(q)' = Peers(q) /\ AgentSet(q)' = AgentSet(q)
        /\ \A q, u : Agreed(q, u)' = Agreed(q, u)
        /\ \A u : Planned(r, u)' <=> Planned(r, u)
    BY SetupKept
  <2>1. Planned(r, todo[r])'
    BY <1>2, <1>3, <2>0
  <2>2. InOrder(r)'
    <3>1. \A q \in Peers(r) : ~ToBind(r, q) /\ (Remains(r, q, Initial) => x = Initial /\ t <= q)
      BY <1>1, NowIs
    <3>2. Peers(r) \subseteq Nat
      BY DEF Peers, Parties
    <3>3. ASSUME NEW q \in Peers(r), NEW u \in Peers(r), q < u, Remains(r, q, Initial)'
          PROVE  Remains(r, u, Initial)'
      <4>1. Remains(r, q, Initial) /\ Remains(r, u, Initial) /\ t <= q
        BY <1>1, <1>4, <3>1, <3>3 DEF InOrder
      <4>2. u # t
        BY ONLY <3>2, <3>3, <4>1, q \in Peers(r), u \in Peers(r), t \in Peers(r)
      <4> QED BY ONLY <1>4, <4>1, <4>2
    <3> QED BY ONLY <1>4, <2>0, <3>1, <3>3 DEF InOrder
  <2>3. agents[r]' \subseteq AgentSet(r)
    <3>1. x # Initial => [peer |-> t, connection |-> c, purpose |-> x] \in AgentSet(r)
      BY DEF AgentSet
    <3> QED BY ONLY <1>1, <1>7, <3>1
  <2>4. DOMAIN initial[r]' = Peers(r)
    BY ONLY <1>1, <1>6
  <2>5. ASSUME NEW q \in Peers(r)
        PROVE  /\ portNo[r][q]' \in Nat /\ initial[r][q]' \in Nat
               /\ r > q \/ Remains(r, q, Initial)' => portNo[r][q]' = Agreed(r, q)
               /\ initial[r][q]' = NoConnection <=> Remains(r, q, Initial)'
    <3>1. initial[r][q]' = IF x = Initial /\ q = t THEN c ELSE initial[r][q]
      BY ONLY <1>1, <1>6, q \in Peers(r)
    <3>2. portNo[r][q]' = portNo[r][q]
      BY portNo[r]' = portNo[r]
    <3> QED BY ONLY <1>1, <1>4, <3>1, <3>2, c \in Nat, c # NoConnection, q \in Peers(r)
  <2>6. at[r]'.stage = "start"
    BY ONLY <1>2 DEF Start
  <2> QED BY ONLY <1>1, <1>2, <2>0, <2>1, <2>2, <2>3, <2>4, <2>5, <2>6, portNo[r]' = portNo[r] DEF Local
<1> QED BY <1>9, <1>10

-----------------------------------------------------------------------------
(* A pair: a server and its client.                                        *)

(* A server p and its client q.                                            *)
Served(p, q) ==
  \A x \in Purposes : \A c \in Nat : Uses(p, q, x, c) =>
    /\ Between(c, p, q) /\ connections[c].accepted
    /\ \A y \in Purposes : Uses(p, q, y, c) => x = y

(* A connection of the client is one it has met the server with, for one   *)
(* purpose; once accepted, the server has it for the purpose that          *)
(* corresponds.                                                            *)
Met(p, q) ==
  \A x \in Purposes : \A c \in Nat : Holds(q, p, x, c) =>
    /\ Between(c, p, q) /\ ~Unmet(q, p, x)
    /\ connections[c].accepted => Uses(p, q, Corresponding(x), c)
    /\ \A y \in Purposes : Holds(q, p, y, c) => x = y

(* The socket has been reached by nobody, and the client has yet to        *)
(* connect; or by the client, for what corresponds.                        *)
Reached(p, q, x, s) ==
  \/ s.connected = <<>> /\ Unmet(q, p, Corresponding(x))
  \/ \E c \in Nat : /\ s.connected = <<c>> /\ Between(c, p, q)
                    /\ ~connections[c].accepted /\ Holds(q, p, Corresponding(x), c)

(* The server listens on one socket for the client, for the agent it is    *)
(* at.                                                                     *)
Listens(p, q) ==
  /\ \A s, t \in Sock(p, q) : s = t
  /\ \A s \in Sock(p, q) : \E x \in Purposes :
       Awaits(p, q, x) /\ (x = Initial => s.port = Agreed(p, q)) /\ Reached(p, q, x, s)

(* And it does listen when it is to, unless it has left.                   *)
Heard(p, q) ==
  ~Gone(p) => \A x \in Purposes : Awaits(p, q, x) => Sock(p, q) # {}

(* A client that opens an agent knows the port, and the server is at the   *)
(* agent that corresponds.                                                 *)
Told(p, q) ==
  /\ Opens(q, p, Initial) => at[q].port = Agreed(p, q)
  /\ ~Gone(p) => \A y \in Purposes \ {Initial} : Opens(q, p, y) =>
       Opens(p, q, Corresponding(y)) /\ \A s \in Sock(p, q) : s.port = at[q].port

(* A port that was sent is that of the socket the server listens on now.   *)
Carries(p, q, c) ==
  \E x \in Purposes \ {Initial} : \E s \in Sock(p, q) :
    /\ Opens(p, q, x) /\ Unmet(q, p, Corresponding(x)) /\ connections[c].mail = <<s.port>>
    /\ \A y \in Purposes \ {Initial} : ~Opens(q, p, y)
Post(p, q) ==
  ~Gone(p) => \A c \in Nat : Uses(p, q, Initial, c) => connections[c].mail = <<>> \/ Carries(p, q, c)

(* The server is never ahead of its client: while the client has yet to    *)
(* connect the server has its step to do, and when the client has          *)
(* connected it is at it.                                                  *)
Ahead(p, q) ==
  \A x \in Purposes :
    /\ Remains(p, q, x) /\ ~Unmet(q, p, Corresponding(x)) /\ ~Gone(p) => Awaits(p, q, x)
    /\ Unmet(q, p, Corresponding(x)) => Remains(p, q, x)

Pair(p, q) == /\ Served(p, q) /\ Met(p, q) /\ Listens(p, q) /\ Heard(p, q)
              /\ Told(p, q) /\ Post(p, q) /\ Ahead(p, q)

(* What a pair sees of its server, of its client, and of what is between   *)
(* them.                                                                   *)
ServerKept(p, q) ==
  /\ ToBind(p, q)' <=> ToBind(p, q)
  /\ \A x \in Purposes :
       /\ Remains(p, q, x)' <=> Remains(p, q, x)
       /\ x # Initial => (Opens(p, q, x)' <=> Opens(p, q, x))
       /\ \A c \in Nat : Uses(p, q, x, c)' <=> Uses(p, q, x, c)

ClientKept(p, q) ==
  /\ \A x \in Purposes :
       /\ Unmet(p, q, x)' <=> Unmet(p, q, x)
       /\ \A c \in Nat : Holds(p, q, x, c)' <=> Holds(p, q, x, c)
  /\ \A x \in Purposes \ {Initial} :
       /\ Opens(p, q, x)' <=> Opens(p, q, x)
       /\ Opens(p, q, x) => at[p].port' = at[p].port
  /\ Opens(p, q, Initial)' => \/ Opens(p, q, Initial) /\ at[p].port' = at[p].port
                              \/ at[p].port' = Agreed(q, p)

LinkKept(p, q) ==
  /\ Sock(p, q)' = Sock(p, q)
  /\ \A c : Between(c, p, q) => connections[c]' = connections[c]
  /\ \A c : Between(c, p, q)' <=> Between(c, p, q)

(* A part that is kept is kept as a server and as a client. *)
LEMMA SidesKept ==
  ASSUME NEW p, NEW q, SideKept(p, q)
  PROVE  ServerKept(p, q) /\ ClientKept(p, q)
<1>1. Initial \in Purposes
  BY DEF Purposes
<1> QED BY <1>1 DEF SideKept, ServerKept, ClientKept

(* Only the initial connection corresponds to the initial connection. *)
LEMMA CorrespondingInitial ==
  Corresponding(Initial) = Initial /\ \A x \in Purposes \ {Initial} : Corresponding(x) # Initial
<1>1. Corresponding(Initial) = Initial
  BY DEF Corresponding, Last, Initial
<1> QED BY <1>1, CorrespondingTwice

(* A pair stays as it is when its parts and what is between them are kept. *)
LEMMA PairKept ==
  ASSUME NEW p \in Parties, NEW q \in Parties, setup' = setup, Gone(p)' <=> Gone(p),
         Pair(p, q), ServerKept(p, q), ClientKept(q, p), LinkKept(p, q)
  PROVE  Pair(p, q)'
<1>1. Agreed(p, q)' = Agreed(p, q)
  BY SetupKept
<1>2. /\ ToBind(p, q)' <=> ToBind(p, q)
      /\ \A x \in Purposes : Remains(p, q, x)' <=> Remains(p, q, x)
      /\ \A x \in Purposes : x # Initial => (Opens(p, q, x)' <=> Opens(p, q, x))
      /\ \A x \in Purposes : \A c \in Nat : Uses(p, q, x, c)' <=> Uses(p, q, x, c)
  BY DEF ServerKept
<1>3. /\ \A x \in Purposes \ {Initial} : Opens(q, p, x)' <=> Opens(q, p, x)
      /\ \A x \in Purposes : Unmet(q, p, x)' <=> Unmet(q, p, x)
      /\ \A x \in Purposes \ {Initial} : Opens(q, p, x) => at[q].port' = at[q].port
      /\ Opens(q, p, Initial)' => \/ Opens(q, p, Initial) /\ at[q].port' = at[q].port
                                  \/ at[q].port' = Agreed(p, q)
      /\ \A x \in Purposes : \A c \in Nat : Holds(q, p, x, c)' <=> Holds(q, p, x, c)
  BY DEF ClientKept
<1>4. /\ Sock(p, q)' = Sock(p, q)
      /\ \A c : Between(c, p, q) => connections[c]' = connections[c]
      /\ \A c : Between(c, p, q)' <=> Between(c, p, q)
  BY DEF LinkKept
<1>5. /\ Initial \in Purposes /\ \A x \in Purposes : Corresponding(x) \in Purposes
      /\ \A x \in Purposes \ {Initial} : Corresponding(x) # Initial
  BY CorrespondingInitial, CorrespondingTwice DEF Purposes
<1>6. \A x \in Purposes : Awaits(p, q, x)' <=> Awaits(p, q, x)
  BY ONLY <1>2, <1>5 DEF Awaits
<1>7. Served(p, q)'
  <2>1. Served(p, q)
    BY DEF Pair
  <2> QED BY ONLY <1>2, <1>4, <2>1 DEF Served
<1>8. Met(p, q)'
  <2>1. Met(p, q)
    BY DEF Pair
  <2> QED BY ONLY <1>2, <1>3, <1>4, <1>5, <2>1 DEF Met
<1>9. Listens(p, q)'
  <2>1. Listens(p, q)
    BY DEF Pair
  <2>2. \A s : \A x \in Purposes : Reached(p, q, x, s)' <=> Reached(p, q, x, s)
    BY ONLY <1>3, <1>4, <1>5 DEF Reached
  <2> QED BY ONLY <1>1, <1>4, <1>6, <2>1, <2>2 DEF Listens
<1>10. Heard(p, q)'
  <2>1. Heard(p, q)
    BY DEF Pair
  <2> QED BY ONLY <1>4, <1>6, <2>1, Gone(p)' <=> Gone(p) DEF Heard
<1>11. Told(p, q)'
  <2>1. Told(p, q)
    BY DEF Pair
  <2> QED BY ONLY <1>1, <1>2, <1>3, <1>4, <1>5, <2>1, Gone(p)' <=> Gone(p) DEF Told
<1>12. Post(p, q)'
  <2>1. Post(p, q) /\ Served(p, q)
    BY DEF Pair
  <2>2. \A c \in Nat : Uses(p, q, Initial, c) => connections[c]' = connections[c]
    BY ONLY <1>4, <1>5, <2>1 DEF Served
  <2>3. \A c \in Nat : Uses(p, q, Initial, c) => (Carries(p, q, c)' <=> Carries(p, q, c))
    BY ONLY <1>2, <1>3, <1>4, <1>5, <2>2 DEF Carries
  <2> QED BY ONLY <1>2, <1>5, <2>1, <2>2, <2>3, Gone(p)' <=> Gone(p) DEF Post
<1>13. Ahead(p, q)'
  <2>1. Ahead(p, q)
    BY DEF Pair
  <2> QED BY ONLY <1>1, <1>2, <1>3, <1>5, <1>6, <2>1, Gone(p)' <=> Gone(p) DEF Ahead
<1> QED BY ONLY <1>7, <1>8, <1>9, <1>10, <1>11, <1>12, <1>13 DEF Pair

-----------------------------------------------------------------------------
(* What a step changes for a party.                                        *)

(* The view after a client has connected, and after a step has begun to    *)
(* open.                                                                   *)
Connected(r, t, x, c) ==
  \A y \in Purposes :
    /\ ~Opens(r, t, y)'
    /\ Unmet(r, t, y)' <=> Unmet(r, t, y) /\ y # x
    /\ \A d \in Nat : Holds(r, t, y, d)' <=> Holds(r, t, y, d) \/ (y = x /\ d = c)

Opening(r, t, x) ==
  /\ ToBind(r, t)' <=> ToBind(r, t)
  /\ \A y \in Purposes :
       /\ Remains(r, t, y)' <=> Remains(r, t, y)
       /\ ~Opens(r, t, y) /\ (Opens(r, t, y)' <=> y = x)
       /\ Unmet(r, t, y)' <=> Unmet(r, t, y)
       /\ \A d \in Nat : /\ Uses(r, t, y, d)' <=> Uses(r, t, y, d)
                         /\ Holds(r, t, y, d)' <=> Holds(r, t, y, d)

(* A party does one step at a time. *)
LEMMA DoesOne ==
  ASSUME NEW r, NEW t, NEW x, Now(r) = Task(t, x), todo[r] # <<>>
  PROVE  \A q, y : Does(r, q, y) <=> q = t /\ y = x
BY TasksDiffer DEF Does

(* What a finished step is for the pairs of the party. *)
LEMMA FinishSides ==
  ASSUME NEW r \in Parties, NEW t \in Peers(r), NEW x \in Purposes, NEW c \in Nat,
         Now(r) = Task(t, x), todo[r] # <<>>, Finished(r, t, x, c)
  PROVE  /\ \A q \in Peers(r) \ {t} : SideKept(r, q)
         /\ at[r].stage = "open" /\ Remains(r, t, x) => Connected(r, t, x, c)
         /\ at[r].stage = "handshake" /\ at[r].connection = c => ClientKept(r, t)
<1>1. \A q, y : Does(r, q, y) <=> q = t /\ y = x
  BY DoesOne
<1>2. /\ \A q \in Peers(r) : ToBind(r, q)' <=> ToBind(r, q)
      /\ \A q \in Peers(r) : \A y \in Purposes :
         /\ Remains(r, q, y)' <=> Remains(r, q, y) /\ ~(q = t /\ y = x)
         /\ ~Opens(r, q, y)' /\ ~Shaking(r, q, y)'
         /\ \A d \in Nat : Uses(r, q, y, d)' <=> Uses(r, q, y, d) \/ (q = t /\ y = x /\ d = c)
  BY DEF Finished
<1>3. /\ \A q, y : Opens(r, q, y) <=> at[r].stage = "open" /\ q = t /\ y = x
      /\ \A q, y : Shaking(r, q, y) <=> at[r].stage = "handshake" /\ q = t /\ y = x
  BY ONLY <1>1 DEF Opens, Shaking
<1>4. ASSUME NEW q \in Peers(r) \ {t} PROVE SideKept(r, q)
  <2>1. \A y \in Purposes : /\ ~Opens(r, q, y) /\ ~Shaking(r, q, y) /\ ~Opens(r, q, y)' /\ ~Shaking(r, q, y)'
                            /\ Remains(r, q, y)' <=> Remains(r, q, y)
                            /\ \A d \in Nat : Uses(r, q, y, d)' <=> Uses(r, q, y, d)
    BY ONLY <1>2, <1>3, q \in Peers(r) \ {t}
  <2>2. ToBind(r, q)' <=> ToBind(r, q)
    BY <1>2
  <2> QED BY ONLY <2>1, <2>2 DEF SideKept, Unmet, Holds
<1>5. ASSUME at[r].stage = "open", Remains(r, t, x) PROVE Connected(r, t, x, c)
  <2>1. \A y \in Purposes : ~Shaking(r, t, y)
    BY <1>3, <1>5
  <2> QED BY ONLY <1>2, <2>1, t \in Peers(r) DEF Connected, Unmet, Holds
<1>6. ASSUME at[r].stage = "handshake", at[r].connection = c PROVE ClientKept(r, t)
  <2>1. \A y \in Purposes : ~Opens(r, t, y) /\ (Shaking(r, t, y) <=> y = x)
    BY ONLY <1>3, <1>6
  <2>2. Initial \in Purposes
    BY DEF Purposes
  <2> QED BY ONLY <1>2, <1>6, <2>1, <2>2, t \in Peers(r) DEF ClientKept, Unmet, Holds
<1> QED BY <1>4, <1>5, <1>6

(* A step that goes on to another stage.                                   *)
LEMMA StageMoves ==
  ASSUME TypesOk, NEW r \in Parties, Local(r), setup' = setup, todo' = todo, initial' = initial,
         agents' = agents, status' = status,
         NEW t \in Peers(r), NEW x \in Purposes, Now(r) = Task(t, x), todo[r] # <<>>,
         NEW a \in Positions, at' = [at EXCEPT ![r] = a], a.stage = "handshake" => t < r,
         DOMAIN portNo[r]' = Peers(r),
         \A q \in Peers(r) :
           portNo[r][q]' \in Nat /\ (r > q \/ Remains(r, q, Initial) => portNo[r][q]' = portNo[r][q])
  PROVE  /\ Local(r)' /\ at' \in [Parties -> Positions] /\ at[r]' = a
         /\ \A u \in Parties \ {r} : at[u]' = at[u]
         /\ \A q \in Peers(r) \ {t} : SideKept(r, q)
         /\ at[r].stage = "start" /\ a.stage = "open" => Opening(r, t, x)
         /\ at[r].stage = "open" /\ a.stage = "handshake" => Connected(r, t, x, a.connection)
<1>1. /\ at \in [Parties -> Positions]
  BY DEF TypesOk
<1>2. /\ at' \in [Parties -> Positions] /\ at[r]' = a
      /\ \A u \in Parties \ {r} : at[u]' = at[u]
  BY <1>1
<1>3. \A q, y : Does(r, q, y) <=> q = t /\ y = x
  BY DoesOne
<1>4. /\ \A q : ToBind(r, q)' <=> ToBind(r, q)
      /\ \A q, y : Remains(r, q, y)' <=> Remains(r, q, y)
      /\ \A q, y : Does(r, q, y)' <=> Does(r, q, y)
      /\ Now(r)' = Now(r)
  BY ONLY todo' = todo DEF ToBind, Remains, Does, Now
<1>5. \A q, y, d : Uses(r, q, y, d)' <=> Uses(r, q, y, d)
  BY ONLY initial' = initial, agents' = agents DEF Uses
<1>6. /\ \A q, y : Opens(r, q, y) <=> at[r].stage = "open" /\ q = t /\ y = x
      /\ \A q, y : Shaking(r, q, y) <=> at[r].stage = "handshake" /\ q = t /\ y = x
      /\ \A q, y : Opens(r, q, y)' <=> a.stage = "open" /\ q = t /\ y = x
      /\ \A q, y : Shaking(r, q, y)' <=> a.stage = "handshake" /\ q = t /\ y = x
  BY ONLY <1>2, <1>3, <1>4 DEF Opens, Shaking
<1>7. ASSUME NEW q \in Peers(r) \ {t} PROVE SideKept(r, q)
  <2>1. \A y : ~Opens(r, q, y) /\ ~Shaking(r, q, y) /\ ~Opens(r, q, y)' /\ ~Shaking(r, q, y)'
    BY ONLY <1>6, q \in Peers(r) \ {t}
  <2> QED BY ONLY <1>4, <1>5, <2>1 DEF SideKept, Unmet, Holds
<1>8. ASSUME at[r].stage = "start", a.stage = "open" PROVE Opening(r, t, x)
  <2>1. \A y : ~Opens(r, t, y) /\ ~Shaking(r, t, y) /\ (Opens(r, t, y)' <=> y = x) /\ ~Shaking(r, t, y)'
    BY ONLY <1>6, <1>8
  <2> QED BY ONLY <1>4, <1>5, <2>1 DEF Opening, Unmet, Holds
<1>9. ASSUME at[r].stage = "open", a.stage = "handshake" PROVE Connected(r, t, x, a.connection)
  <2>1. \A y : ~Shaking(r, t, y) /\ ~Opens(r, t, y)' /\ (Shaking(r, t, y)' <=> y = x)
    BY ONLY <1>6, <1>9
  <2> QED BY ONLY <1>2, <1>4, <1>5, <2>1 DEF Connected, Unmet, Holds
<1>10. Local(r)'
  <2>0. /\ Parties' = Parties
        /\ \A q : Peers(q)' = Peers(q) /\ AgentSet(q)' = AgentSet(q)
        /\ \A q, u : Agreed(q, u)' = Agreed(q, u)
        /\ \A u : Planned(r, u)' <=> Planned(r, u)
    BY SetupKept
  <2>1. /\ Planned(r, todo[r]) /\ InOrder(r) /\ (status[r] = "running" => todo[r] # <<>>)
        /\ DOMAIN initial[r] = Peers(r) /\ agents[r] \subseteq AgentSet(r)
        /\ \A q \in Peers(r) :
             /\ initial[r][q] \in Nat
             /\ r > q \/ Remains(r, q, Initial) => portNo[r][q] = Agreed(r, q)
             /\ initial[r][q] = NoConnection <=> Remains(r, q, Initial)
    BY DEF Local
  <2>2. Planned(r, todo[r])'
    BY <2>0, <2>1
  <2>3. InOrder(r)'
    BY ONLY <1>4, <2>0, <2>1 DEF InOrder
  <2>4. Now(r).call # "bind" /\ Now(r).peer = t
    BY DEF Task
  <2>5. \A q \in Peers(r) :
          /\ portNo[r][q]' \in Nat /\ initial[r][q]' \in Nat
          /\ r > q \/ Remains(r, q, Initial)' => portNo[r][q]' = Agreed(r, q)
          /\ initial[r][q]' = NoConnection <=> Remains(r, q, Initial)'
    BY ONLY <1>4, <2>1, initial' = initial,
         \A q \in Peers(r) :
           portNo[r][q]' \in Nat /\ (r > q \/ Remains(r, q, Initial) => portNo[r][q]' = portNo[r][q])
  <2> QED BY ONLY <1>2, <1>4, <2>0, <2>1, <2>2, <2>3, <2>4, <2>5, todo' = todo, initial' = initial,
                  agents' = agents, status' = status, a.stage = "handshake" => t < r,
                  todo[r] # <<>>, DOMAIN portNo[r]' = Peers(r) DEF Local
<1> QED BY ONLY <1>2, <1>7, <1>8, <1>9, <1>10

(* The view after a socket has been bound.                                 *)
LEMMA FinishBind ==
  ASSUME TypesOk, NEW r \in Parties, Local(r), status[r] = "running", setup' = setup,
         at[r].stage = "start",
         Finish(r, NoConnection), portNo' = portNo, NEW t \in Peers(r), Now(r) = BindTask(t)
  PROVE  /\ Local(r)' /\ initial' = initial /\ agents' = agents
         /\ \A q \in Peers(r) : ToBind(r, q)' <=> ToBind(r, q) /\ q # t
         /\ \A q \in Peers(r) \ {t} : SideKept(r, q)
         /\ ClientKept(r, t)
         /\ \A y \in Purposes :
              /\ Remains(r, t, y)' <=> Remains(r, t, y)
              /\ ~Opens(r, t, y) /\ ~Opens(r, t, y)'
              /\ \A d \in Nat : Uses(r, t, y, d)' <=> Uses(r, t, y, d)
<1>0. Now(r).call = "bind"
  BY DEF BindTask
<1>1. /\ todo[r] # <<>> /\ Planned(r, todo[r]) /\ InOrder(r)
      /\ DOMAIN portNo[r] = Peers(r) /\ DOMAIN initial[r] = Peers(r) /\ agents[r] \subseteq AgentSet(r)
      /\ \A q \in Peers(r) :
           /\ portNo[r][q] \in Nat /\ initial[r][q] \in Nat
           /\ r > q \/ Remains(r, q, Initial) => portNo[r][q] = Agreed(r, q)
           /\ initial[r][q] = NoConnection <=> Remains(r, q, Initial)
  BY DEF Local
<1>2. /\ todo[r]' = Tail(todo[r]) /\ at[r]' = Start /\ status[r]' \in {"running", "done"}
      /\ status[r]' = "running" => todo[r]' # <<>>
  BY FinishParty
<1>3. /\ Planned(r, Tail(todo[r]))
      /\ \A s : Has(Tail(todo[r]), s) <=> Has(todo[r], s) /\ s # BindTask(t)
  BY <1>1, HeadOf DEF Now
<1>4. /\ \A q : ToBind(r, q)' <=> ToBind(r, q) /\ q # t
      /\ \A q, y : Remains(r, q, y)' <=> Remains(r, q, y)
  BY ONLY <1>2, <1>3, TasksDiffer DEF ToBind, Remains
<1>5. \A q, y : ~Opens(r, q, y)' /\ ~Shaking(r, q, y)' /\ ~Opens(r, q, y) /\ ~Shaking(r, q, y)
  BY ONLY <1>2, at[r].stage = "start" DEF Opens, Shaking, Start
<1>6. initial' = initial /\ agents' = agents
  BY <1>0 DEF Finish
<1>7. \A q, y, d : Uses(r, q, y, d)' <=> Uses(r, q, y, d)
  BY ONLY <1>6 DEF Uses
<1>8. \A q \in Peers(r) \ {t} : SideKept(r, q)
  BY ONLY <1>4, <1>5, <1>7 DEF SideKept, Unmet, Holds
<1>9. ClientKept(r, t)
  BY ONLY <1>4, <1>5, <1>7 DEF ClientKept, Unmet, Holds
<1>10. Local(r)'
  <2>0. /\ Parties' = Parties
        /\ \A q : Peers(q)' = Peers(q) /\ AgentSet(q)' = AgentSet(q)
        /\ \A q, u : Agreed(q, u)' = Agreed(q, u)
        /\ \A u : Planned(r, u)' <=> Planned(r, u)
    BY SetupKept
  <2>1. Planned(r, todo[r])'
    BY <1>2, <1>3, <2>0
  <2>2. InOrder(r)'
    <3>1. \A q \in Peers(r) : ToBind(r, q) => t <= q
      BY <1>1, NowIs
    <3>2. Peers(r) \subseteq Nat
      BY DEF Peers, Parties
    <3>3. ASSUME NEW q \in Peers(r), NEW u \in Peers(r), q < u, ToBind(r, q)'
          PROVE  ToBind(r, u)'
      <4>1. ToBind(r, q) /\ ToBind(r, u) /\ t <= q
        BY <1>1, <1>4, <3>1, <3>3 DEF InOrder
      <4>2. u # t
        BY ONLY <3>2, <3>3, <4>1, q \in Peers(r), u \in Peers(r), t \in Peers(r)
      <4> QED BY ONLY <1>4, <4>1, <4>2
    <3> QED BY ONLY <1>1, <1>4, <2>0, <3>3 DEF InOrder
  <2>3. at[r]'.stage = "start"
    BY ONLY <1>2 DEF Start
  <2> QED BY ONLY <1>1, <1>2, <1>4, <1>6, <2>0, <2>1, <2>2, <2>3, portNo' = portNo DEF Local
<1> QED BY ONLY <1>4, <1>5, <1>6, <1>7, <1>8, <1>9, <1>10

-----------------------------------------------------------------------------
(* The invariant, and that it pairs the agents.                            *)

(* A port of a host is of one socket, of a party that has not left, and no *)
(* port that was agreed is taken before its server binds it.               *)
SocketsOk ==
  /\ \A s \in sockets : s.owner < s.for /\ s.host = Host(s.owner) /\ ~Gone(s.owner)
  /\ \A s, t \in sockets : s.host = t.host /\ s.port = t.port => s = t
  /\ \A s \in sockets : \A p, q \in Parties :
       p < q /\ ToBind(p, q) /\ s.host = Host(p) => s.port # Agreed(p, q)

(* Mail is in the initial connections alone.                               *)
Letters ==
  \A c \in DOMAIN connections :
    /\ connections[c].server < connections[c].client
    /\ connections[c].mail # <<>> =>
         Uses(connections[c].server, connections[c].client, Initial, c)

(* On a shared host nobody has left (PortsKept).                           *)
Staying == setup.oneHost => \A p \in Parties : ~Gone(p)

(* The invariant of a setup in which the ports are free and are kept.      *)
Inv == /\ TypesOk /\ \A p \in Parties : Local(p)
       /\ \A p, q \in Parties : p < q => Pair(p, q)
       /\ SocketsOk /\ Letters /\ Staying

(* The parties are numbers. *)
LEMMA PartiesNat == Parties \subseteq Nat /\ \A p : Peers(p) = Parties \ {p}
BY DEF Parties, Peers

(* What a party does with one peer leaves the other pairs alone.           *)
LEMMA OthersKept ==
  ASSUME setup' = setup, NEW r \in Parties, NEW t \in Peers(r),
         \A p \in Parties : Local(p), Local(r)',
         \A u \in Parties \ {r} : SameParty(u),
         \A q \in Peers(r) \ {t} : SideKept(r, q),
         \A u \in Parties : Gone(u)' <=> Gone(u),
         \A p, q \in Parties : p < q /\ ~({p, q} = {r, t}) => LinkKept(p, q),
         \A p, q \in Parties : p < q => Pair(p, q)
  PROVE  /\ \A p \in Parties : Local(p)'
         /\ \A p, q \in Parties : p < q /\ ~({p, q} = {r, t}) => Pair(p, q)'
         /\ \A u \in Parties \ {r} : \A q \in Peers(u) : SideKept(u, q)
<1>1. \A u \in Parties \ {r} : Local(u)' /\ \A q \in Peers(u) : SideKept(u, q)
  BY PartyKept
<1>2. ASSUME NEW p \in Parties, NEW q \in Parties, p < q, ~({p, q} = {r, t})
      PROVE  Pair(p, q)'
  <2>0. p # q /\ p \in Peers(q) /\ q \in Peers(p)
    BY <1>2, PartiesNat
  <2>1. SideKept(p, q)
    <3>1. CASE p = r
      BY <1>2, <2>0, <3>1
    <3>2. CASE p # r
      BY <1>1, <2>0, <3>2
    <3> QED BY <3>1, <3>2
  <2>2. SideKept(q, p)
    <3>1. CASE q = r
      BY <1>2, <2>0, <3>1
    <3>2. CASE q # r
      BY <1>1, <2>0, <3>2
    <3> QED BY <3>1, <3>2
  <2>3. ServerKept(p, q) /\ ClientKept(q, p)
    BY <2>1, <2>2, SidesKept
  <2>4. LinkKept(p, q) /\ Pair(p, q)
    BY <1>2
  <2> QED BY <2>3, <2>4, PairKept
<1> QED BY <1>1, <1>2

(* On a host, a port is agreed for one pair only (SocketsAssumption). *)
LEMMA AgreedOnce ==
  ASSUME setup \in Setups, NEW p \in Parties, NEW q \in Parties, p < q
  PROVE  /\ Agreed(p, q) \in Nat /\ Agreed(q, p) = Agreed(p, q)
         /\ \A r, t \in Parties : r < t /\ Host(r) = Host(p) /\ Agreed(r, t) = Agreed(p, q) =>
              r = p /\ t = q
<1>1. {q, p} = {p, q}
  OBVIOUS
<1>2. /\ setup.ports[{p, q}] \in Nat
      /\ \A r, t \in 0 .. setup.numberOfParty - 1 :
           r < t /\ (setup.oneHost \/ r = p) /\ setup.ports[{r, t}] = setup.ports[{p, q}] =>
             r = p /\ t = q
  BY SocketsAssumption DEF Parties
<1>3. \A r : Host(r) = Host(p) => setup.oneHost \/ r = p
  BY DEF Host
<1> QED BY ONLY <1>1, <1>2, <1>3 DEF Agreed, Parties

(* A server waits for a peer with one agent at a time. *)
LEMMA AwaitsOne ==
  ASSUME NEW p \in Parties, Local(p), NEW q \in Peers(p), NEW x \in Purposes, NEW y \in Purposes,
         Awaits(p, q, x), Awaits(p, q, y) \/ Does(p, q, y)
  PROVE  x = y
<1>1. Planned(p, todo[p])
  BY DEF Local
<1>2. \A z \in Purposes : Does(p, q, z) /\ Remains(p, q, Initial) => z = Initial
  BY <1>1, NowIs DEF Does
<1>3. ASSUME NEW z, NEW u, Does(p, q, z), Does(p, q, u) PROVE z = u
  <2>1. Task(q, z) = Task(q, u)
    BY <1>3 DEF Does
  <2> QED BY ONLY <2>1, TasksDiffer
<1>4. \A z : Awaits(p, q, z) => IF z = Initial THEN Remains(p, q, Initial) ELSE Does(p, q, z)
  BY DEF Awaits, Opens
<1> QED BY ONLY <1>2, <1>3, <1>4, x \in Purposes, y \in Purposes, Awaits(p, q, x),
                Awaits(p, q, y) \/ Does(p, q, y)

(* What a party has done when it is at a step. *)
LEMMA DoingIs ==
  ASSUME NEW p \in Parties, Local(p), NEW q \in Peers(p), NEW x \in Purposes, Does(p, q, x)
  PROVE  /\ Remains(p, q, x) /\ \A r \in Peers(p) : ~ToBind(p, r)
         /\ \A r \in Peers(p) : Remains(p, r, Initial) => x = Initial /\ q <= r
         /\ \A y \in Purposes : Remains(p, q, y) => rank(p, q, x) <= rank(p, q, y)
         /\ at[p].stage # "handshake" => Unmet(p, q, x)
BY NowIs DEF Does, Local, Unmet, Shaking

(* The initial connection of a peer is there once its step is over. *)
LEMMA UsesInitial ==
  ASSUME NEW p \in Parties, Local(p), NEW q \in Peers(p)
  PROVE  /\ ~Remains(p, q, Initial) => Uses(p, q, Initial, initial[p][q])
         /\ \A c \in Nat : Uses(p, q, Initial, c) => c = initial[p][q] /\ ~Remains(p, q, Initial)
         /\ initial[p][q] \in Nat
BY DEF Local, Uses

(* The two ends of a connection.                                           *)
LEMMA PairsAgree ==
  ASSUME Inv PROVE AgentsPaired
<1> SUFFICES ASSUME NEW p \in Parties, NEW q \in Parties, NEW a \in agents[p], NEW b \in agents[q],
                    p # q, a.connection = b.connection
             PROVE  a.peer = q /\ b.peer = p /\ b.purpose = Corresponding(a.purpose)
  BY DEF AgentsPaired
<1>1. a \in AgentSet(p) /\ b \in AgentSet(q)
  BY DEF Inv, Local
<1> PICK c \in Nat, x \in Purposes \ {Initial}, y \in Purposes \ {Initial}, t \in Peers(p), u \in Peers(q) :
      /\ c = a.connection /\ x = a.purpose /\ t = a.peer
      /\ y = b.purpose /\ u = b.peer
  BY <1>1 DEF AgentSet
<1>2. Uses(p, t, x, c) /\ Uses(q, u, y, c)
  <2>1. a = [peer |-> t, connection |-> c, purpose |-> x] /\ b = [peer |-> u, connection |-> c, purpose |-> y]
    BY <1>1 DEF AgentSet
  <2> QED BY <2>1 DEF Uses
<1>3. ASSUME NEW v \in Parties, NEW w \in Peers(v), NEW z \in Purposes, Uses(v, w, z, c)
      PROVE  c \in DOMAIN connections /\ {v, w} = {connections[c].server, connections[c].client}
  <2>1. v \in Nat /\ w \in Nat /\ v # w /\ w \in Parties
    BY PartiesNat
  <2>2. CASE v < w
    <3>1. Served(v, w)
      BY <2>1, <2>2 DEF Inv, Pair
    <3>2. Between(c, v, w)
      BY <1>3, <3>1 DEF Served
    <3> QED BY <3>2 DEF Between
  <2>3. CASE w < v
    <3>1. Met(w, v)
      BY <2>1, <2>3 DEF Inv, Pair
    <3>2. Between(c, w, v)
      BY <1>3, <3>1 DEF Met, Holds
    <3> QED BY <3>2 DEF Between
  <2> QED BY ONLY <2>1, <2>2, <2>3
<1>4. t = q /\ u = p
  <2>1. {p, t} = {q, u}
    BY <1>2, <1>3
  <2> QED BY <2>1, p # q
<1>5. ASSUME NEW v \in Parties, NEW w \in Parties, v < w, NEW z \in Purposes, NEW o \in Purposes,
             Uses(v, w, z, c), Uses(w, v, o, c)
      PROVE  z = Corresponding(o)
  <2>1. Served(v, w) /\ Met(v, w)
    BY <1>5 DEF Inv, Pair
  <2>2. connections[c].accepted /\ \A n \in Purposes : Uses(v, w, n, c) => z = n
    BY <1>5, <2>1 DEF Served
  <2>3. Uses(v, w, Corresponding(o), c)
    BY <1>5, <2>1, <2>2 DEF Met, Holds
  <2> QED BY <2>2, <2>3, CorrespondingTwice
<1>6. y = Corresponding(x)
  <2>1. p \in Nat /\ q \in Nat /\ (p < q \/ q < p)
    BY PartiesNat
  <2>2. CASE p < q
    <3>1. x = Corresponding(y)
      BY <1>2, <1>4, <1>5, <2>2
    <3> QED BY <3>1, CorrespondingTwice
  <2>3. CASE q < p
    BY <1>2, <1>4, <1>5, <2>3
  <2> QED BY <2>1, <2>2, <2>3
<1> QED BY <1>4, <1>6

-----------------------------------------------------------------------------
(* It holds at first, and when a party leaves.                             *)

(* The invariant holds at first. *)
LEMMA InitHolds ==
  ASSUME Init PROVE Inv
<1>1. /\ setup \in Setups /\ sockets = {} /\ connections = <<>>
      /\ todo = [p \in Parties |-> Program(p)]
      /\ at = [p \in Parties |-> Start]
      /\ portNo = [p \in Parties |-> [q \in Peers(p) |-> setup.ports[{p, q}]]]
      /\ initial = [p \in Parties |-> [q \in Peers(p) |-> NoConnection]]
      /\ agents = [p \in Parties |-> {}]
      /\ status = [p \in Parties |-> "running"]
  BY DEF Init
<1>2. \A p \in Parties :
        /\ Planned(p, todo[p])
        /\ \A q \in Peers(p) : ToBind(p, q) <=> p < q
        /\ \A q \in Peers(p) : \A x \in Purposes : Remains(p, q, x) <=> Wanted(x)
  BY ONLY <1>1, ProgramPlanned DEF ToBind, Remains
<1>3. Wanted(Initial) /\ Initial \in Purposes
  BY DEF Wanted, Purposes
<1>4. TypesOk
  <2>1. todo \in [Parties -> Seq(Step)]
    BY <1>1, <1>2 DEF Planned
  <2>2. Start \in Positions
    BY DEF Start, Positions, NoConnection
  <2>3. at \in [Parties -> Positions] /\ status \in [Parties -> Statuses]
    BY ONLY <1>1, <2>2 DEF Statuses
  <2>4. connections \in Seq(ConnectionSet)
    BY ONLY <1>1
  <2> QED BY ONLY <1>1, <2>1, <2>3, <2>4 DEF TypesOk
<1>5. \A p \in Parties : at[p].stage = "start" /\ status[p] = "running"
  BY <1>1 DEF Start
<1>6. ASSUME NEW p \in Parties, NEW q \in Peers(p), NEW x \in Purposes
      PROVE  /\ ~Opens(p, q, x) /\ ~Shaking(p, q, x)
             /\ \A c : ~Uses(p, q, x, c)
  <2>1. initial[p][q] = NoConnection /\ agents[p] = {}
    BY <1>1
  <2> QED BY ONLY <1>5, <2>1, p \in Parties DEF Opens, Shaking, Uses
<1>7. ASSUME NEW p \in Parties PROVE Local(p)
  <2>1. todo[p] # <<>>
    <3>1. PICK q \in Peers(p) : TRUE
      <4>1. setup.numberOfParty \in Nat \ {0, 1}
        BY <1>1, SocketsAssumption
      <4>2. (IF p = 0 THEN 1 ELSE 0) \in Peers(p)
        BY <4>1 DEF Peers, Parties
      <4> QED BY <4>2
    <3>2. Has(todo[p], Task(q, Initial))
      BY <1>2, <1>3 DEF Remains
    <3> QED BY <3>2 DEF Has
  <2>2. InOrder(p)
    <3>1. Peers(p) \subseteq Nat /\ p \in Nat
      BY PartiesNat
    <3> QED BY ONLY <1>2, <1>3, <3>1, p \in Parties DEF InOrder
  <2>3. \A q \in Peers(p) :
          /\ portNo[p][q] \in Nat /\ initial[p][q] \in Nat
          /\ portNo[p][q] = Agreed(p, q) /\ initial[p][q] = NoConnection /\ Remains(p, q, Initial)
    <3> SUFFICES ASSUME NEW q \in Peers(p)
                 PROVE  /\ portNo[p][q] \in Nat /\ initial[p][q] \in Nat
                        /\ portNo[p][q] = Agreed(p, q) /\ initial[p][q] = NoConnection
                        /\ Remains(p, q, Initial)
      OBVIOUS
    <3>1. portNo[p][q] = Agreed(p, q) /\ initial[p][q] = NoConnection
      BY <1>1 DEF Agreed
    <3>2. Agreed(p, q) \in Nat
      <4>1. p \in Nat /\ q \in Nat /\ p # q /\ q \in Parties
        BY PartiesNat
      <4>2. CASE p < q
        BY <1>1, <4>1, <4>2, AgreedOnce
      <4>3. CASE q < p
        BY <1>1, <4>1, <4>3, AgreedOnce
      <4> QED BY <4>1, <4>2, <4>3
    <3> QED BY <1>2, <1>3, <3>1, <3>2 DEF NoConnection
  <2>4. DOMAIN portNo[p] = Peers(p) /\ DOMAIN initial[p] = Peers(p) /\ agents[p] = {}
    BY <1>1
  <2> QED BY <1>2, <1>5, <2>1, <2>2, <2>3, <2>4 DEF Local
<1>8. ASSUME NEW p \in Parties, NEW q \in Parties, p < q PROVE Pair(p, q)
  <2>0. q \in Peers(p) /\ p \in Peers(q)
    BY <1>8, PartiesNat
  <2>1. Sock(p, q) = {}
    BY <1>1 DEF Sock
  <2>2. \A x \in Purposes : /\ ~Opens(p, q, x) /\ ~Opens(q, p, x) /\ ~Awaits(p, q, x)
                            /\ Remains(p, q, x) <=> Wanted(x)
                            /\ Unmet(q, p, x) <=> Wanted(x)
                            /\ \A c : ~Uses(p, q, x, c) /\ ~Holds(q, p, x, c)
    BY <1>2, <1>6, <1>8, <2>0 DEF Awaits, Unmet, Holds
  <2>3. \A x \in Purposes : Corresponding(x) \in Purposes /\ (Wanted(Corresponding(x)) <=> Wanted(x))
    BY CorrespondingTwice, WantedIs
  <2>4. Ahead(p, q)
    BY ONLY <2>2, <2>3 DEF Ahead
  <2> QED BY ONLY <1>3, <2>1, <2>2, <2>4 DEF Pair, Served, Met, Listens, Heard, Told, Post
<1>9. SocketsOk /\ Letters /\ Staying
  <2>1. SocketsOk
    BY <1>1 DEF SocketsOk
  <2>2. Letters
    BY ONLY <1>1 DEF Letters
  <2>3. Staying
    BY <1>5 DEF Staying, Gone
  <2> QED BY <2>1, <2>2, <2>3
<1> QED BY <1>4, <1>7, <1>8, <1>9 DEF Inv

(* A party leaves: its sockets are closed.                                 *)
LEMMA EndKeeps ==
  ASSUME Inv, NEW r \in Parties, NEW how \in {"thrown", "aborted", "spinning"}, End(r, how),
         ~setup.oneHost
  PROVE  Inv'
<1>1. /\ status' = [status EXCEPT ![r] = how] /\ sockets' = {s \in sockets : s.owner # r}
      /\ setup' = setup /\ todo' = todo /\ at' = at /\ portNo' = portNo
      /\ connections' = connections /\ initial' = initial /\ agents' = agents
  BY DEF End
<1>2. TypesOk /\ status \in [Parties -> Statuses]
  BY DEF Inv, TypesOk
<1>3. /\ Parties' = Parties /\ \A u : Peers(u)' = Peers(u) /\ Host(u)' = Host(u)
      /\ \A u, v : Agreed(u, v)' = Agreed(u, v)
  BY <1>1, SetupKept
<1>4. TypesOk'
  <2>1. Step' = Step /\ Positions' = Positions /\ SocketSet' = SocketSet /\ ConnectionSet' = ConnectionSet
    BY <1>1, SetupKept
  <2>2. status' \in [Parties -> Statuses]
    BY ONLY <1>1, <1>2, how \in {"thrown", "aborted", "spinning"} DEF Statuses
  <2>3. sockets' \subseteq SocketSet
    BY <1>1, <1>2 DEF TypesOk
  <2>4. Statuses' = Statuses
    BY DEF Statuses
  <2> QED BY ONLY <1>1, <1>2, <1>3, <2>1, <2>2, <2>3, <2>4 DEF TypesOk
<1>5. \A u \in Parties : SameParty(u)
  <2>1. \A u \in Parties : status[u]' = status[u] \/ status[u]' # "running"
    BY ONLY <1>1, <1>2, how \in {"thrown", "aborted", "spinning"}
  <2> QED BY <1>1, <2>1 DEF SameParty
<1>6. \A u \in Parties : Local(u)' /\ \A q \in Peers(u) : SideKept(u, q)
  BY <1>1, <1>5, PartyKept DEF Inv
<1>7. \A u \in Parties \ {r} : Gone(u)' <=> Gone(u)
  BY ONLY <1>1, <1>2 DEF Gone
<1>8. ASSUME NEW p \in Parties, NEW q \in Parties, p < q PROVE Pair(p, q)'
  <2>0. q \in Peers(p) /\ p \in Peers(q)
    BY <1>8, PartiesNat
  <2>1. Pair(p, q) /\ ServerKept(p, q) /\ ClientKept(q, p)
    BY <1>6, <1>8, <2>0, SidesKept DEF Inv
  <2>2. \A c : /\ connections[c]' = connections[c]
               /\ Between(c, p, q)' <=> Between(c, p, q)
    BY <1>1 DEF Between
  <2>3. CASE p # r
    <3>1. Sock(p, q)' = Sock(p, q)
      BY <1>1, <2>3 DEF Sock
    <3> QED BY <1>1, <1>7, <2>1, <2>2, <2>3, <3>1, PairKept DEF LinkKept
  <2>4. CASE p = r
    <3>1. Sock(p, q)' = {}
      BY <1>1, <2>4 DEF Sock
    <3>2. Gone(p)'
      BY ONLY <1>1, <1>2, <2>4, how \in {"thrown", "aborted", "spinning"}, r \in Parties DEF Gone
    <3>3. /\ \A x \in Purposes : Remains(p, q, x)' <=> Remains(p, q, x)
          /\ \A x \in Purposes : \A c \in Nat : Uses(p, q, x, c)' <=> Uses(p, q, x, c)
      BY <2>1 DEF ServerKept
    <3>4. /\ \A x \in Purposes : Unmet(q, p, x)' <=> Unmet(q, p, x)
          /\ \A x \in Purposes : \A c \in Nat : Holds(q, p, x, c)' <=> Holds(q, p, x, c)
          /\ Opens(q, p, Initial)' => \/ Opens(q, p, Initial) /\ at[q].port' = at[q].port
                                      \/ at[q].port' = Agreed(p, q)
      BY <2>1 DEF ClientKept
    <3>5. \A x \in Purposes : Corresponding(x) \in Purposes
      BY CorrespondingTwice
    <3>6. Served(p, q)' /\ Met(p, q)'
      <4>1. Served(p, q) /\ Met(p, q)
        BY <2>1 DEF Pair
      <4> QED BY ONLY <2>2, <3>3, <3>4, <3>5, <4>1 DEF Served, Met
    <3>7. Ahead(p, q)'
      <4>1. Ahead(p, q)
        BY <2>1 DEF Pair
      <4> QED BY ONLY <3>2, <3>3, <3>4, <3>5, <4>1 DEF Ahead
    <3>8. Told(p, q)'
      <4>1. Told(p, q)
        BY <2>1 DEF Pair
      <4> QED BY ONLY <1>3, <3>2, <3>4, <4>1 DEF Told
    <3>9. Listens(p, q)' /\ Heard(p, q)' /\ Post(p, q)'
      BY ONLY <3>1, <3>2 DEF Listens, Heard, Post
    <3> QED BY ONLY <3>6, <3>7, <3>8, <3>9 DEF Pair
  <2> QED BY <2>3, <2>4
<1>9. SocketsOk'
  <2>1. SocketsOk /\ sockets \subseteq SocketSet
    BY <1>2 DEF Inv, TypesOk
  <2>2. ASSUME NEW s \in sockets'
        PROVE  /\ s \in sockets /\ s.owner # r /\ s.owner \in Parties /\ ~Gone(s.owner)'
    BY <1>1, <1>7, <2>1 DEF SocketsOk, SocketSet
  <2>3. \A p, q \in Parties : p < q => (ToBind(p, q)' <=> ToBind(p, q))
    <3>1. ASSUME NEW p \in Parties, NEW q \in Parties, p < q PROVE ToBind(p, q)' <=> ToBind(p, q)
      <4>1. q \in Peers(p)
        BY <3>1, PartiesNat
      <4> QED BY <1>6, <4>1 DEF SideKept
    <3> QED BY <3>1
  <2> QED BY ONLY <1>3, <2>1, <2>2, <2>3 DEF SocketsOk
<1>10. Letters' /\ Staying'
  <2>1. Letters
    BY DEF Inv
  <2>2. \A p, q, x, c : Uses(p, q, x, c)' <=> Uses(p, q, x, c)
    BY ONLY <1>1 DEF Uses
  <2>3. Letters'
    BY ONLY <1>1, <2>1, <2>2 DEF Letters
  <2>4. Staying'
    BY <1>1, ~setup.oneHost DEF Staying
  <2> QED BY <2>3, <2>4
<1> QED BY ONLY <1>3, <1>4, <1>6, <1>8, <1>9, <1>10 DEF Inv

-----------------------------------------------------------------------------
(* A step of one party, for one peer.                                      *)

(* The step a party is at.                                                 *)
LEMMA TaskAt ==
  ASSUME NEW r \in Parties, Local(r), status[r] = "running"
  PROVE  /\ todo[r] # <<>> /\ Planned(r, todo[r])
         /\ Now(r).call = "bind" => \E t \in Peers(r) : r < t /\ Now(r) = BindTask(t)
         /\ Now(r).call = "connect" => \E t \in Peers(r) : Now(r) = Task(t, Initial)
         /\ Now(r).call = "create" =>
              \E t \in Peers(r) : \E x \in Purposes \ {Initial} : Now(r) = Task(t, x)
         /\ at[r].stage # "start" =>
              \E t \in Peers(r) : \E x \in Purposes :
                Now(r) = Task(t, x) /\ (at[r].stage = "handshake" => t < r)
<1>1. todo[r] # <<>> /\ Planned(r, todo[r])
  BY DEF Local
<1>2. \/ \E t \in Peers(r) : r < t /\ Now(r) = BindTask(t)
      \/ \E t \in Peers(r) : \E x \in Purposes : Now(r) = Task(t, x)
  BY <1>1, NowIs
<1>3. /\ \A t : BindTask(t).call = "bind"
      /\ \A t, x : /\ Task(t, x).call = IF x = Initial THEN "connect" ELSE "create"
                   /\ Task(t, x).peer = t
  BY DEF BindTask, Task
<1>4. /\ at[r].stage # "start" => Now(r).call # "bind"
      /\ at[r].stage = "handshake" => Now(r).peer < r
  BY DEF Local
<1>5. Now(r).call = "bind" => \E t \in Peers(r) : r < t /\ Now(r) = BindTask(t)
  BY ONLY <1>2, <1>3
<1>6. Now(r).call = "connect" => \E t \in Peers(r) : Now(r) = Task(t, Initial)
  BY ONLY <1>2, <1>3
<1>7. Now(r).call = "create" => \E t \in Peers(r) : \E x \in Purposes \ {Initial} : Now(r) = Task(t, x)
  BY ONLY <1>2, <1>3
<1>8. at[r].stage # "start" => \E t \in Peers(r) : \E x \in Purposes :
        Now(r) = Task(t, x) /\ (at[r].stage = "handshake" => t < r)
  BY ONLY <1>2, <1>3, <1>4
<1> QED BY ONLY <1>1, <1>5, <1>6, <1>7, <1>8

(* Mail is only for who has the initial connection.                        *)
LEMMA LettersKept ==
  ASSUME Letters, connections \in Seq(ConnectionSet), Parties' = Parties,
         \A c \in DOMAIN connections' : connections[c]'.server < connections[c]'.client,
         \A c \in DOMAIN connections' : connections[c]'.mail # <<>> =>
           /\ c \in DOMAIN connections /\ connections[c].mail # <<>>
           /\ connections[c]'.server = connections[c].server
           /\ connections[c]'.client = connections[c].client,
         \A p, q \in Parties : \A c \in Nat :
           p < q /\ Uses(p, q, Initial, c) => Uses(p, q, Initial, c)'
  PROVE  Letters'
<1> SUFFICES ASSUME NEW c \in (DOMAIN connections)', connections[c]'.mail # <<>>
             PROVE  Uses(connections[c].server, connections[c].client, Initial, c)'
  BY DEF Letters
<1>1. /\ c \in DOMAIN connections /\ connections[c].mail # <<>>
      /\ connections[c]'.server = connections[c].server
      /\ connections[c]'.client = connections[c].client
      /\ connections[c].server < connections[c].client
  BY DEF Letters
<1>2. c \in Nat /\ connections[c].server \in Parties /\ connections[c].client \in Parties
  <2>1. c \in Nat /\ connections[c] \in ConnectionSet
    BY ONLY <1>1, connections \in Seq(ConnectionSet)
  <2> QED BY ONLY <2>1 DEF ConnectionSet
<1> DEFINE p == connections[c].server
           q == connections[c].client
<1>3. Uses(p, q, Initial, c)
  BY ONLY <1>1, Letters DEF Letters
<1>4. Uses(p, q, Initial, c)'
  BY <1>1, <1>2, <1>3
<1>5. p' = p /\ q' = q
  BY <1>1
<1> QED BY ONLY <1>4, <1>5 DEF Uses

(* A step of r for its peer t: what there is to show.                      *)
LEMMA StepKeeps ==
  ASSUME Inv, setup' = setup, NEW r \in Parties, NEW t \in Peers(r), Local(r)', TypesOk',
         \A u \in Parties \ {r} : SameParty(u),
         \A q \in Peers(r) \ {t} : SideKept(r, q),
         \A u \in Parties : Gone(u)' <=> Gone(u),
         \A p, q \in Parties : p < q /\ ~({p, q} = {r, t}) => LinkKept(p, q),
         r < t => Pair(r, t)', t < r => Pair(t, r)', SocketsOk', Letters'
  PROVE  Inv'
<1>1. /\ \A p \in Parties : Local(p)'
      /\ \A p, q \in Parties : p < q /\ ~({p, q} = {r, t}) => Pair(p, q)'
  BY OthersKept DEF Inv
<1>2. Parties' = Parties
  BY SetupKept
<1>3. \A p, q \in Parties : p < q => Pair(p, q)'
  <2> SUFFICES ASSUME NEW p \in Parties, NEW q \in Parties, p < q PROVE Pair(p, q)'
    OBVIOUS
  <2>1. CASE ~({p, q} = {r, t})
    BY <1>1, <2>1
  <2>2. CASE {p, q} = {r, t}
    <3>1. (p = r /\ q = t) \/ (p = t /\ q = r)
      <4>1. r # t
        BY PartiesNat
      <4> QED BY <2>2, <4>1
    <3> QED BY <3>1
  <2> QED BY <2>1, <2>2
<1>4. Staying'
  BY <1>2 DEF Inv, Staying
<1> QED BY ONLY <1>1, <1>2, <1>3, <1>4, TypesOk', SocketsOk', Letters' DEF Inv

(* A client, and a server that opens the initial connection, begins to     *)
(* open.                                                                   *)
LEMMA OpenInitialKeeps ==
  ASSUME Inv, NEW r \in Parties, status[r] = "running", openInitial(r)
  PROVE  Inv'
<1>0. /\ at[r].stage = "start" /\ Now(r).call = "connect"
      /\ at' = [at EXCEPT ![r] = [Start EXCEPT !.stage = "open", !.port = portNo[r][Now(r).peer]]]
      /\ setup' = setup /\ todo' = todo /\ sockets' = sockets /\ portNo' = portNo
      /\ connections' = connections /\ initial' = initial /\ agents' = agents /\ status' = status
  BY DEF openInitial, In
<1>1. TypesOk /\ Local(r) /\ SocketsOk /\ Letters
  BY DEF Inv
<1>2. todo[r] # <<>>
  BY <1>1, TaskAt
<1> PICK t \in Peers(r) : Now(r) = Task(t, Initial)
  BY <1>0, <1>1, TaskAt
<1> PICK a : a = [Start EXCEPT !.stage = "open", !.port = portNo[r][t]]
  OBVIOUS
<1>3. Remains(r, t, Initial) /\ Initial \in Purposes
  <2>1. Initial \in Purposes
    BY DEF Purposes
  <2> QED BY <1>1, <1>2, <2>1, DoingIs DEF Does
<1>4. portNo[r][t] = Agreed(r, t) /\ portNo[r][t] \in Nat
  BY <1>1, <1>3 DEF Local
<1>5. a \in Positions /\ a.stage = "open" /\ a.port = portNo[r][t] /\ at' = [at EXCEPT ![r] = a]
  <2>1. Now(r).peer = t
    BY DEF Task
  <2>2. a \in Positions /\ a.stage = "open" /\ a.port = portNo[r][t]
    BY <1>4 DEF Positions, Start, NoConnection
  <2> QED BY ONLY <1>0, <2>1, <2>2, a = [Start EXCEPT !.stage = "open", !.port = portNo[r][t]]
<1>6. /\ Local(r)' /\ at' \in [Parties -> Positions] /\ at[r]' = a
      /\ \A u \in Parties \ {r} : at[u]' = at[u]
      /\ \A q \in Peers(r) \ {t} : SideKept(r, q)
      /\ Opening(r, t, Initial)
  <2>1. /\ DOMAIN portNo[r]' = Peers(r)
        /\ \A q \in Peers(r) :
             portNo[r][q]' \in Nat /\ (r > q \/ Remains(r, q, Initial) => portNo[r][q]' = portNo[r][q])
    BY <1>0, <1>1 DEF Local
  <2>2. a.stage = "handshake" => t < r
    BY ONLY <1>5
  <2>3. /\ Local(r)' /\ at' \in [Parties -> Positions] /\ at[r]' = a
        /\ \A u \in Parties \ {r} : at[u]' = at[u]
        /\ \A q \in Peers(r) \ {t} : SideKept(r, q)
        /\ at[r].stage = "start" /\ a.stage = "open" => Opening(r, t, Initial)
        /\ at[r].stage = "open" /\ a.stage = "handshake" => Connected(r, t, Initial, a.connection)
    <3>1. TypesOk /\ Local(r) /\ setup' = setup /\ todo' = todo /\ initial' = initial /\ agents' = agents
          /\ status' = status /\ at' = [at EXCEPT ![r] = a] /\ a \in Positions
      BY <1>0, <1>1, <1>5
    <3> QED BY ONLY <1>2, <1>3, <2>1, <2>2, <3>1, r \in Parties, t \in Peers(r),
                    Now(r) = Task(t, Initial), StageMoves
  <2> QED BY ONLY <1>0, <1>5, <2>3
<1>7. Parties' = Parties /\ \A u, v : Agreed(u, v)' = Agreed(u, v)
  BY <1>0, SetupKept
<1>8. /\ \A u \in Parties \ {r} : SameParty(u)
      /\ \A u \in Parties : Gone(u)' <=> Gone(u)
      /\ \A p, q \in Parties : LinkKept(p, q)
  <2>1. \A u \in Parties \ {r} : SameParty(u)
    BY ONLY <1>0, <1>6 DEF SameParty
  <2>2. \A u \in Parties : Gone(u)' <=> Gone(u)
    BY ONLY <1>0 DEF Gone
  <2>3. \A p, q \in Parties : LinkKept(p, q)
    BY ONLY <1>0 DEF LinkKept, Sock, Between
  <2> QED BY <2>1, <2>2, <2>3
<1>9. TypesOk'
  BY <1>0, <1>1, <1>6, SetupKept DEF TypesOk, Statuses
<1>10. ServerKept(r, t) /\ ClientKept(r, t)
  <2>1. \A x \in Purposes \ {Initial} : ~Opens(r, t, x) /\ ~Opens(r, t, x)'
    BY ONLY <1>6 DEF Opening
  <2>2. at[r]'.port = Agreed(r, t) /\ Agreed(r, t) = Agreed(t, r)
    <3>1. {r, t} = {t, r}
      OBVIOUS
    <3> QED BY ONLY <1>4, <1>5, <1>6, <3>1 DEF Agreed
  <2> QED BY ONLY <1>6, <2>1, <2>2 DEF Opening, ServerKept, ClientKept
<1>11. t \in Parties /\ t # r /\ r \in Peers(t)
  BY PartiesNat
<1>12. SideKept(t, r)
  BY <1>0, <1>8, <1>11, PartyKept
<1>13. r < t => Pair(r, t)'
  BY <1>0, <1>8, <1>10, <1>11, <1>12, SidesKept, PairKept DEF Inv
<1>14. t < r => Pair(t, r)'
  BY <1>0, <1>8, <1>10, <1>11, <1>12, SidesKept, PairKept DEF Inv
<1>15. SocketsOk'
  <2>1. \A u : Host(u)' = Host(u)
    BY <1>0, SetupKept
  <2>2. \A p, q : ToBind(p, q)' <=> ToBind(p, q)
    BY ONLY <1>0 DEF ToBind
  <2>3. \A u : Gone(u)' <=> Gone(u)
    BY ONLY <1>0 DEF Gone
  <2> QED BY ONLY <1>0, <1>1, <1>7, <2>1, <2>2, <2>3 DEF SocketsOk
<1>16. Letters'
  BY ONLY <1>0, <1>1 DEF Letters, Uses
<1> QED BY <1>0, <1>6, <1>8, <1>9, <1>13, <1>14, <1>15, <1>16, StepKeeps

(* The handshake of a client returns.                                      *)
LEMMA HandshakeKeeps ==
  ASSUME Inv, NEW r \in Parties, status[r] = "running", at[r].stage = "handshake",
         Finish(r, at[r].connection), UNCHANGED <<setup, sockets, portNo, connections>>
  PROVE  Inv'
<1>0. /\ setup' = setup /\ sockets' = sockets /\ portNo' = portNo /\ connections' = connections
  OBVIOUS
<1>1. TypesOk /\ Local(r) /\ SocketsOk /\ Letters
  BY DEF Inv
<1>2. todo[r] # <<>>
  BY <1>1, TaskAt
<1> PICK t \in Peers(r), x \in Purposes : Now(r) = Task(t, x) /\ t < r
  BY <1>1, TaskAt
<1>3. t \in Parties /\ t # r /\ r \in Peers(t)
  BY PartiesNat
<1> PICK c \in Nat : c = at[r].connection
  BY <1>1 DEF TypesOk, Positions
<1>4. c \in DOMAIN connections /\ c # NoConnection
  <2>1. Holds(r, t, x, c)
    BY <1>2 DEF Holds, Shaking, Does
  <2>2. Between(c, t, r)
    BY <1>3, <2>1 DEF Inv, Pair, Met
  <2>3. c \in DOMAIN connections
    BY <2>2 DEF Between
  <2>4. c # 0
    BY ONLY <1>1, <2>3 DEF TypesOk
  <2> QED BY <2>3, <2>4 DEF NoConnection
<1>5. Local(r)' /\ Finished(r, t, x, c)
  BY <1>0, <1>1, <1>4, FinishTask
<1>6. /\ \A q \in Peers(r) \ {t} : SideKept(r, q)
      /\ ClientKept(r, t)
  BY <1>2, <1>5, FinishSides
<1>7. /\ todo' \in [Parties -> Seq(Step)] /\ at' \in [Parties -> Positions]
      /\ status' \in [Parties -> Statuses]
      /\ DOMAIN initial' = Parties /\ DOMAIN agents' = Parties
      /\ status[r]' \in {"running", "done"}
      /\ \A u \in Parties \ {r} :
           /\ todo[u]' = todo[u] /\ at[u]' = at[u] /\ status[u]' = status[u]
           /\ initial[u]' = initial[u] /\ agents[u]' = agents[u]
  BY <1>1, FinishParty
<1>8. Parties' = Parties /\ \A u : Host(u)' = Host(u) /\ \A v : Agreed(u, v)' = Agreed(u, v)
  BY <1>0, SetupKept
<1>9. \A u \in Parties \ {r} : SameParty(u)
  BY ONLY <1>0, <1>7 DEF SameParty
<1>10. \A u \in Parties : Gone(u)' <=> Gone(u)
  BY ONLY <1>7, status[r] = "running" DEF Gone
<1>11. \A p, q \in Parties : LinkKept(p, q)
  BY ONLY <1>0 DEF LinkKept, Sock, Between
<1>12. TypesOk'
  BY <1>0, <1>1, <1>7, SetupKept DEF TypesOk, Statuses
<1>13. SideKept(t, r)
  BY <1>0, <1>3, <1>9, PartyKept
<1>14. Pair(t, r)'
  BY <1>0, <1>3, <1>6, <1>10, <1>11, <1>13, SidesKept, PairKept DEF Inv
<1>15. \A p \in Parties : \A q \in Peers(p) : ToBind(p, q)' <=> ToBind(p, q)
  <2>1. \A u \in Parties \ {r} : \A q : ToBind(u, q)' <=> ToBind(u, q)
    BY ONLY <1>7 DEF ToBind
  <2> QED BY <1>5, <2>1 DEF Finished
<1>16. SocketsOk'
  <2>1. \A p, q \in Parties : p < q => (ToBind(p, q)' <=> ToBind(p, q))
    BY <1>15, PartiesNat
  <2>2. \A s \in sockets : s.owner \in Parties
    BY ONLY <1>1 DEF TypesOk, SocketSet
  <2> QED BY ONLY <1>0, <1>1, <1>8, <1>10, <2>1, <2>2 DEF SocketsOk
<1>17. Letters'
  <2>1. \A p, q \in Parties : \A d \in Nat : p < q /\ Uses(p, q, Initial, d) => Uses(p, q, Initial, d)'
    <3> SUFFICES ASSUME NEW p \in Parties, NEW q \in Parties, NEW d \in Nat, p < q, Uses(p, q, Initial, d)
                 PROVE  Uses(p, q, Initial, d)'
      OBVIOUS
    <3>1. CASE p # r
      BY <1>7, <3>1 DEF Uses
    <3>2. CASE p = r
      <4>1. q \in Peers(r) \ {t}
        BY <3>2, PartiesNat
      <4> QED BY <1>6, <3>2, <4>1 DEF SideKept, Purposes
    <3> QED BY <3>1, <3>2
  <2>2. \A d \in DOMAIN connections' : connections[d]'.server < connections[d]'.client
    BY ONLY <1>0, <1>1 DEF Letters
  <2> QED BY <1>0, <1>1, <1>8, <2>1, <2>2, LettersKept DEF TypesOk
<1>18. ~(r < t)
  <2>1. r \in Nat /\ t \in Nat
    BY PartiesNat
  <2> QED BY ONLY <2>1, t < r
<1> QED BY <1>0, <1>5, <1>6, <1>9, <1>10, <1>11, <1>12, <1>14, <1>16, <1>17, <1>18, StepKeeps

(* A host is a number. *)
LEMMA HostIs == \A p \in Parties : Host(p) \in Nat
BY PartiesNat DEF Host

(* The peer of a party. *)
LEMMA OtherSide ==
  ASSUME NEW r \in Parties, NEW t \in Peers(r)
  PROVE  /\ t \in Parties /\ t # r /\ r \in Peers(t) /\ Initial \in Purposes
         /\ Parties \subseteq Nat
         /\ (r < t /\ ~(t < r)) \/ (t < r /\ ~(r < t))
<1>1. t \in Parties /\ t # r /\ r \in Peers(t) /\ Parties \subseteq Nat
  BY PartiesNat
<1>2. Initial \in Purposes
  BY DEF Purposes
<1>3. (r < t /\ ~(t < r)) \/ (t < r /\ ~(r < t))
  <2>1. r \in Nat /\ t \in Nat /\ t # r
    BY <1>1
  <2> QED BY ONLY <2>1
<1> QED BY ONLY <1>1, <1>2, <1>3

(* A socket is bound: the port that was agreed is free.                    *)
LEMMA BindKeeps ==
  ASSUME Inv, InitialPortsFree, NEW r \in Parties, status[r] = "running", Bind(r)
  PROVE  Inv'
<1>0. /\ at[r].stage = "start" /\ Now(r).call = "bind" /\ Finish(r, NoConnection)
      /\ setup' = setup /\ portNo' = portNo /\ connections' = connections
      /\ \E port \in createSocketFromMaybeFreePort(r, portNo[r][Now(r).peer]) :
           sockets' = sockets \cup {Listening(r, Now(r).peer, port)}
  BY DEF Bind, In
<1>1. TypesOk /\ Local(r) /\ SocketsOk /\ Letters
  BY DEF Inv
<1>2. todo[r] # <<>> /\ Planned(r, todo[r])
  BY <1>1, TaskAt
<1> PICK t \in Peers(r) : r < t /\ Now(r) = BindTask(t)
  BY <1>0, <1>1, TaskAt
<1>3. /\ t \in Parties /\ t # r /\ r \in Peers(t) /\ ~(t < r) /\ Initial \in Purposes
      /\ Parties \subseteq Nat
  BY OtherSide
<1>4. ToBind(r, t) /\ Remains(r, t, Initial)
  BY <1>1, <1>2, NowIs DEF Local, InOrder
<1>5. portNo[r][t] = Agreed(r, t) /\ Agreed(r, t) \in Nat
  BY <1>1, <1>4 DEF Local
<1>6. Agreed(r, t) \notin PortsInUse(Host(r))
  <2>1. Agreed(r, t) \notin setup.taken[Host(r)]
    BY <1>3 DEF InitialPortsFree, Agreed
  <2>2. \A s \in sockets : s.host = Host(r) => s.port # Agreed(r, t)
    BY <1>1, <1>3, <1>4 DEF SocketsOk
  <2> QED BY ONLY <2>1, <2>2 DEF PortsInUse
<1> PICK s0 : s0 = Listening(r, t, Agreed(r, t))
  OBVIOUS
<1>7. sockets' = sockets \cup {s0}
  <2>1. Now(r).peer = t
    BY DEF BindTask
  <2>2. createSocketFromMaybeFreePort(r, Agreed(r, t)) = {Agreed(r, t)}
    BY <1>6 DEF createSocketFromMaybeFreePort
  <2> QED BY ONLY <1>0, <1>5, <2>1, <2>2, s0 = Listening(r, t, Agreed(r, t))
<1>8. /\ s0.host = Host(r) /\ s0.port = Agreed(r, t) /\ s0.owner = r /\ s0.for = t
      /\ s0.connected = <<>> /\ s0 \in SocketSet
  <2>1. Host(r) \in Nat
    BY HostIs
  <2> QED BY <1>3, <1>5, <2>1 DEF Listening, SocketSet
<1>9. /\ Local(r)' /\ initial' = initial /\ agents' = agents
      /\ \A q \in Peers(r) : ToBind(r, q)' <=> ToBind(r, q) /\ q # t
      /\ \A q \in Peers(r) \ {t} : SideKept(r, q)
      /\ \A y \in Purposes :
           /\ Remains(r, t, y)' <=> Remains(r, t, y)
           /\ ~Opens(r, t, y) /\ ~Opens(r, t, y)'
           /\ \A d \in Nat : Uses(r, t, y, d)' <=> Uses(r, t, y, d)
  BY <1>0, <1>1, FinishBind
<1>10. /\ todo' \in [Parties -> Seq(Step)] /\ at' \in [Parties -> Positions]
       /\ status' \in [Parties -> Statuses]
       /\ DOMAIN initial' = Parties /\ DOMAIN agents' = Parties
       /\ status[r]' \in {"running", "done"}
       /\ \A u \in Parties \ {r} :
            /\ todo[u]' = todo[u] /\ at[u]' = at[u] /\ status[u]' = status[u]
            /\ initial[u]' = initial[u] /\ agents[u]' = agents[u]
  BY <1>0, <1>1, FinishParty
<1>11. Parties' = Parties /\ \A u : Host(u)' = Host(u) /\ \A v : Agreed(u, v)' = Agreed(u, v)
  BY <1>0, SetupKept
<1>12. \A u \in Parties \ {r} : SameParty(u)
  BY ONLY <1>0, <1>10 DEF SameParty
<1>13. \A u \in Parties : Gone(u)' <=> Gone(u)
  BY ONLY <1>10, status[r] = "running" DEF Gone
<1>14. \A p, q \in Parties : p < q /\ ~({p, q} = {r, t}) => LinkKept(p, q)
  <2>1. \A p, q \in Parties : ~({p, q} = {r, t}) => Sock(p, q)' = Sock(p, q)
    BY ONLY <1>7, <1>8 DEF Sock
  <2> QED BY ONLY <1>0, <2>1 DEF LinkKept, Between
<1>15. TypesOk'
  <2>1. sockets' \subseteq SocketSet
    BY ONLY <1>1, <1>7, <1>8 DEF TypesOk
  <2> QED BY <1>0, <1>1, <1>10, <2>1, SetupKept DEF TypesOk, Statuses
<1>16. SideKept(t, r)
  BY <1>0, <1>3, <1>12, PartyKept
<1>17. Pair(r, t)'
  <2>1. Pair(r, t) /\ ~Gone(r)
    BY <1>3 DEF Inv, Gone
  <2>2. Corresponding(Initial) = Initial /\ \A x \in Purposes : Corresponding(x) \in Purposes
    BY CorrespondingInitial, CorrespondingTwice
  <2>3. /\ ~Awaits(r, t, Initial) /\ Awaits(r, t, Initial)'
        /\ \A x \in Purposes : ~Awaits(r, t, x)
        /\ \A x \in Purposes \ {Initial} : ~Awaits(r, t, x)'
    BY ONLY <1>3, <1>4, <1>9, t \in Peers(r) DEF Awaits
  <2>4. Sock(r, t) = {}
    BY ONLY <2>1, <2>3 DEF Pair, Listens
  <2>5. Sock(r, t)' = {s0}
    BY ONLY <1>7, <1>8, <2>4 DEF Sock
  <2>6. Unmet(t, r, Initial)
    BY ONLY <1>3, <1>4, <2>1, <2>2, <2>3 DEF Pair, Ahead
  <2>7. /\ \A x \in Purposes : Unmet(t, r, x)' <=> Unmet(t, r, x)
        /\ \A x \in Purposes : Opens(t, r, x)' <=> Opens(t, r, x)
        /\ \A x \in Purposes : Opens(t, r, x) => at[t].port' = at[t].port
        /\ \A x \in Purposes : \A c \in Nat : Holds(t, r, x, c)' <=> Holds(t, r, x, c)
    BY ONLY <1>16 DEF SideKept
  <2>8. \A c : connections[c]' = connections[c] /\ (Between(c, r, t)' <=> Between(c, r, t))
    BY ONLY <1>0 DEF Between
  <2>9. Served(r, t)' /\ Met(r, t)'
    <3>1. Served(r, t) /\ Met(r, t)
      BY <2>1 DEF Pair
    <3> QED BY ONLY <1>9, <2>2, <2>7, <2>8, <3>1 DEF Served, Met
  <2>10. Listens(r, t)' /\ Heard(r, t)'
    <3>1. Reached(r, t, Initial, s0)'
      BY ONLY <1>3, <1>8, <2>2, <2>6, <2>7 DEF Reached
    <3>2. s0.port = Agreed(r, t)'
      BY ONLY <1>8, <1>11
    <3>3. Listens(r, t)'
      BY ONLY <1>3, <2>3, <2>5, <3>1, <3>2 DEF Listens
    <3> QED BY ONLY <2>5, <3>3 DEF Heard
  <2>11. Told(r, t)'
    <3>1. Told(r, t)
      BY <2>1 DEF Pair
    <3>2. \A y \in Purposes : ~Opens(r, t, y)
      BY ONLY <1>9
    <3>3. \A y \in Purposes \ {Initial} : ~Opens(t, r, y)'
      BY ONLY <2>1, <2>2, <2>7, <3>1, <3>2 DEF Told
    <3>4. Opens(t, r, Initial)' => at[t]'.port = Agreed(r, t)'
      BY ONLY <1>3, <1>11, <2>7, <3>1 DEF Told
    <3> QED BY ONLY <3>3, <3>4 DEF Told
  <2>12. Post(r, t)'
    <3>1. \A c \in Nat : ~Uses(r, t, Initial, c)
      BY <1>1, <1>4, UsesInitial
    <3>2. \A c \in Nat : ~Uses(r, t, Initial, c)'
      BY ONLY <1>3, <1>9, <3>1
    <3> QED BY ONLY <3>2 DEF Post
  <2>13. Ahead(r, t)'
    <3>1. Ahead(r, t)
      BY <2>1 DEF Pair
    <3> QED BY ONLY <1>3, <1>9, <1>13, <2>1, <2>2, <2>3, <2>7, <3>1, r \in Parties DEF Ahead
  <2> QED BY ONLY <2>9, <2>10, <2>11, <2>12, <2>13 DEF Pair
<1>18. SocketsOk'
  <2>1. \A p, q \in Parties : p < q /\ ToBind(p, q)' => ToBind(p, q) /\ ~(p = r /\ q = t)
    <3> SUFFICES ASSUME NEW p \in Parties, NEW q \in Parties, p < q, ToBind(p, q)'
                 PROVE  ToBind(p, q) /\ ~(p = r /\ q = t)
      OBVIOUS
    <3>1. CASE p = r
      <4>1. q \in Peers(r)
        BY <1>3, <3>1, PartiesNat
      <4> QED BY ONLY <1>9, <3>1, <4>1, ToBind(p, q)'
    <3>2. CASE p # r
      BY ONLY <1>10, <3>2, p \in Parties, ToBind(p, q)' DEF ToBind
    <3> QED BY <3>1, <3>2
  <2>2. \A p, q \in Parties : p < q /\ Host(p) = Host(r) /\ Agreed(p, q) = Agreed(r, t) => p = r /\ q = t
    BY <1>1, <1>3, AgreedOnce DEF TypesOk
  <2>3. \A s \in sockets : s.owner \in Parties
    BY ONLY <1>1 DEF TypesOk, SocketSet
  <2>4. ~Gone(r)
    BY DEF Gone
  <2>5. \A s \in sockets : s.host = Host(r) => s.port # Agreed(r, t)
    BY <1>1, <1>3, <1>4 DEF SocketsOk
  <2>6. \A s \in sockets' : s.owner < s.for /\ s.host = Host(s.owner) /\ ~Gone(s.owner)'
    BY ONLY <1>1, <1>7, <1>8, <1>13, <2>3, <2>4, r < t, r \in Parties DEF SocketsOk
  <2>7. \A s, u \in sockets' : s.host = u.host /\ s.port = u.port => s = u
    BY ONLY <1>1, <1>7, <1>8, <2>5 DEF SocketsOk
  <2>8. \A s \in sockets' : \A p, q \in Parties :
          p < q /\ ToBind(p, q)' /\ s.host = Host(p) => s.port # Agreed(p, q)
    BY ONLY <1>1, <1>7, <1>8, <2>1, <2>2 DEF SocketsOk
  <2> QED BY ONLY <1>11, <2>6, <2>7, <2>8 DEF SocketsOk
<1>19. Letters'
  BY ONLY <1>0, <1>1, <1>9 DEF Letters, Uses
<1> QED BY <1>0, <1>3, <1>9, <1>12, <1>13, <1>14, <1>15, <1>17, <1>18, <1>19, StepKeeps

(* The sockets after some were closed or have had a client connect.        *)
LEMMA SocketsKept ==
  ASSUME setup' = setup, SocketsOk, sockets \subseteq SocketSet,
         \A s \in sockets' : \E o \in sockets :
           s.host = o.host /\ s.port = o.port /\ s.owner = o.owner /\ s.for = o.for,
         \A s, u \in sockets' : s.host = u.host /\ s.port = u.port => s = u,
         \A u \in Parties : Gone(u)' <=> Gone(u),
         \A p \in Parties : \A q \in Peers(p) : ToBind(p, q)' <=> ToBind(p, q)
  PROVE  SocketsOk'
<1>1. Parties' = Parties /\ \A u : Host(u)' = Host(u) /\ \A v : Agreed(u, v)' = Agreed(u, v)
  BY SetupKept
<1>2. \A p, q \in Parties : p < q => (ToBind(p, q)' <=> ToBind(p, q))
  <2> SUFFICES ASSUME NEW p \in Parties, NEW q \in Parties, p < q
               PROVE  ToBind(p, q)' <=> ToBind(p, q)
    OBVIOUS
  <2>1. q \in Peers(p)
    BY PartiesNat
  <2> QED BY <2>1
<1>3. \A s \in sockets : s.owner \in Parties
  BY DEF SocketSet
<1>4. \A s \in sockets' : s.owner < s.for /\ s.host = Host(s.owner) /\ ~Gone(s.owner)'
  <2> SUFFICES ASSUME NEW s \in sockets'
               PROVE  s.owner < s.for /\ s.host = Host(s.owner) /\ ~Gone(s.owner)'
    OBVIOUS
  <2> PICK o \in sockets : s.host = o.host /\ s.port = o.port /\ s.owner = o.owner /\ s.for = o.for
    OBVIOUS
  <2>1. o.owner < o.for /\ o.host = Host(o.owner) /\ ~Gone(o.owner)
    BY DEF SocketsOk
  <2>2. s.owner = o.owner /\ o.owner \in Parties
    BY <1>3
  <2>3. ~Gone(s.owner)'
    BY <2>1, <2>2
  <2> QED BY ONLY <2>1, <2>2, <2>3, s.host = o.host, s.for = o.for
<1>5. \A s \in sockets' : \A p, q \in Parties :
        p < q /\ ToBind(p, q)' /\ s.host = Host(p) => s.port # Agreed(p, q)
  <2> SUFFICES ASSUME NEW s \in sockets', NEW p \in Parties, NEW q \in Parties,
                      p < q, ToBind(p, q)', s.host = Host(p)
               PROVE  s.port # Agreed(p, q)
    OBVIOUS
  <2> PICK o \in sockets : s.host = o.host /\ s.port = o.port
    OBVIOUS
  <2>1. ToBind(p, q)
    BY <1>2
  <2> QED BY ONLY <2>1, SocketsOk, o \in sockets, s.host = o.host, s.port = o.port,
                  p \in Parties, q \in Parties, p < q, s.host = Host(p) DEF SocketsOk
<1>6. \A s, u \in sockets' : s.host = u.host /\ s.port = u.port => s = u
  OBVIOUS
<1> QED BY ONLY <1>1, <1>4, <1>5, <1>6 DEF SocketsOk

(* What a finished step leaves alone, but for the pair it is of.           *)
LEMMA FinishFrame ==
  ASSUME TypesOk, setup' = setup, portNo' = portNo, NEW r \in Parties, Local(r),
         status[r] = "running", NEW c, Finish(r, c), NEW t \in Peers(r), NEW x, Finished(r, t, x, c)
  PROVE  /\ \A u \in Parties \ {r} : SameParty(u) /\ \A q \in Peers(u) : SideKept(u, q)
         /\ \A u \in Parties : Gone(u)' <=> Gone(u)
         /\ \A p \in Parties : \A q \in Peers(p) : ToBind(p, q)' <=> ToBind(p, q)
         /\ \A p, q \in Parties : \A d \in Nat :
              p < q /\ Uses(p, q, Initial, d) => Uses(p, q, Initial, d)'
         /\ sockets' \subseteq SocketSet /\ connections' \in Seq(ConnectionSet) => TypesOk'
<1>1. /\ todo' \in [Parties -> Seq(Step)] /\ at' \in [Parties -> Positions]
      /\ status' \in [Parties -> Statuses]
      /\ DOMAIN initial' = Parties /\ DOMAIN agents' = Parties
      /\ status[r]' \in {"running", "done"}
      /\ \A u \in Parties \ {r} :
           /\ todo[u]' = todo[u] /\ at[u]' = at[u] /\ status[u]' = status[u]
           /\ initial[u]' = initial[u] /\ agents[u]' = agents[u]
  BY FinishParty
<1>2. \A u \in Parties \ {r} : SameParty(u)
  BY ONLY <1>1, portNo' = portNo DEF SameParty
<1>3. \A u \in Parties \ {r} : \A q \in Peers(u) : SideKept(u, q)
  BY <1>2, PartyKept
<1>4. \A u \in Parties : Gone(u)' <=> Gone(u)
  BY ONLY <1>1, status[r] = "running" DEF Gone
<1>5. \A p \in Parties : \A q \in Peers(p) : ToBind(p, q)' <=> ToBind(p, q)
  <2>1. \A u \in Parties \ {r} : \A q : ToBind(u, q)' <=> ToBind(u, q)
    BY ONLY <1>1 DEF ToBind
  <2> QED BY <2>1 DEF Finished
<1>6. \A p, q \in Parties : \A d \in Nat : p < q /\ Uses(p, q, Initial, d) => Uses(p, q, Initial, d)'
  <2> SUFFICES ASSUME NEW p \in Parties, NEW q \in Parties, NEW d \in Nat, p < q, Uses(p, q, Initial, d)
               PROVE  Uses(p, q, Initial, d)'
    OBVIOUS
  <2>1. CASE p # r
    BY <1>1, <2>1 DEF Uses
  <2>2. CASE p = r
    <3>1. q \in Peers(r) /\ Initial \in Purposes
      BY <2>2, PartiesNat DEF Purposes
    <3> QED BY <2>2, <3>1 DEF Finished
  <2> QED BY <2>1, <2>2
<1>7. ASSUME sockets' \subseteq SocketSet, connections' \in Seq(ConnectionSet) PROVE TypesOk'
  BY <1>1, <1>7, SetupKept DEF TypesOk, Statuses
<1> QED BY <1>2, <1>3, <1>4, <1>5, <1>6, <1>7

(* A server accepts who has connected to the socket it listens on.         *)
LEMMA AcceptKeeps ==
  ASSUME Inv, NEW r \in Parties, status[r] = "running", NEW s \in sockets, receiveFromClient(r, s),
         sockets' = sockets \ {s}, setup' = setup, portNo' = portNo,
         connections' = [connections EXCEPT ![Head(s.connected)].accepted = TRUE],
         Finish(r, Head(s.connected))
  PROVE  Inv'
<1>0. /\ at[r].stage = "open" /\ Serves(r)
      /\ s.owner = r /\ s.for = Now(r).peer /\ s.connected # <<>>
  BY DEF receiveFromClient, In
<1>1. TypesOk /\ Local(r) /\ SocketsOk /\ Letters
  BY DEF Inv
<1>2. todo[r] # <<>> /\ Planned(r, todo[r])
  BY <1>1, TaskAt
<1> PICK t \in Peers(r), x \in Purposes : Now(r) = Task(t, x)
  BY <1>0, <1>1, TaskAt
<1>3. /\ r < t /\ ~(t < r) /\ s \in Sock(r, t)
      /\ t \in Parties /\ t # r /\ r \in Peers(t) /\ Initial \in Purposes
  <2>1. Now(r).peer = t
    BY DEF Task
  <2>2. r < t /\ s \in Sock(r, t)
    BY <1>0, <2>1 DEF Serves, Sock
  <2> QED BY <2>2, OtherSide
<1>4. Pair(r, t) /\ ~Gone(r) /\ Local(t)
  BY <1>3 DEF Inv, Gone
<1>5. /\ Corresponding(Initial) = Initial
      /\ \A z \in Purposes : /\ Corresponding(z) \in Purposes /\ Corresponding(Corresponding(z)) = z
                             /\ z # Initial => Corresponding(z) # Initial
  BY CorrespondingInitial, CorrespondingTwice
<1>6. \A q, y : Does(r, q, y) <=> q = t /\ y = x
  BY <1>2, DoesOne
<1>7. \A z \in Purposes : Awaits(r, t, z) => z = x
  BY <1>1, <1>6, AwaitsOne
<1> PICK c \in Nat : /\ s.connected = <<c>> /\ Between(c, r, t)
                     /\ ~connections[c].accepted /\ Holds(t, r, Corresponding(x), c)
  <2>1. Listens(r, t)
    BY <1>4 DEF Pair
  <2>2. PICK z \in Purposes : Awaits(r, t, z) /\ Reached(r, t, z, s)
    BY ONLY <1>3, <2>1 DEF Listens
  <2>3. z = x
    BY <1>7, <2>2
  <2> QED BY ONLY <1>0, <2>2, <2>3 DEF Reached
<1>8. /\ c \in DOMAIN connections /\ c # NoConnection /\ connections[c] \in ConnectionSet
      /\ connections \in Seq(ConnectionSet)
  <2>1. c \in DOMAIN connections /\ connections \in Seq(ConnectionSet)
    BY <1>1 DEF Between, TypesOk
  <2> QED BY ONLY <2>1 DEF NoConnection
<1>9. /\ DOMAIN connections' = DOMAIN connections /\ connections' \in Seq(ConnectionSet)
      /\ connections[c]'.accepted
      /\ \A d \in DOMAIN connections :
           /\ connections[d]'.server = connections[d].server
           /\ connections[d]'.client = connections[d].client
           /\ connections[d]'.mail = connections[d].mail
           /\ d # c => connections[d]' = connections[d]
  <2>1. connections' = [connections EXCEPT ![c].accepted = TRUE]
    BY s.connected = <<c>>
  <2>2. [connections[c] EXCEPT !.accepted = TRUE] \in ConnectionSet
    BY ONLY <1>8 DEF ConnectionSet
  <2>3. connections' = [connections EXCEPT ![c] = [connections[c] EXCEPT !.accepted = TRUE]]
    BY ONLY <2>1
  <2>4. connections' \in Seq(ConnectionSet) /\ DOMAIN connections' = DOMAIN connections
    BY ONLY <1>8, <2>2, <2>3
  <2>5. connections[c]' = [connections[c] EXCEPT !.accepted = TRUE]
    BY ONLY <1>8, <2>3
  <2>6. \A d \in DOMAIN connections : d # c => connections[d]' = connections[d]
    BY ONLY <1>8, <2>3
  <2>7. /\ connections[c]'.server = connections[c].server
        /\ connections[c]'.client = connections[c].client
        /\ connections[c]'.mail = connections[c].mail
        /\ connections[c]'.accepted = TRUE
    BY ONLY <1>8, <2>5 DEF ConnectionSet
  <2> QED BY ONLY <2>4, <2>6, <2>7
<1>10. Finish(r, c)
  BY s.connected = <<c>>
<1>11. Local(r)' /\ Finished(r, t, x, c)
  BY <1>1, <1>8, <1>10, FinishTask
<1>12. \A q \in Peers(r) \ {t} : SideKept(r, q)
  BY <1>2, <1>11, FinishSides
<1>13. /\ \A u \in Parties \ {r} : SameParty(u) /\ \A q \in Peers(u) : SideKept(u, q)
       /\ \A u \in Parties : Gone(u)' <=> Gone(u)
       /\ \A p \in Parties : \A q \in Peers(p) : ToBind(p, q)' <=> ToBind(p, q)
       /\ \A p, q \in Parties : \A d \in Nat :
            p < q /\ Uses(p, q, Initial, d) => Uses(p, q, Initial, d)'
       /\ sockets' \subseteq SocketSet /\ connections' \in Seq(ConnectionSet) => TypesOk'
  BY <1>1, <1>10, <1>11, FinishFrame
<1>14. TypesOk'
  BY <1>1, <1>9, <1>13 DEF TypesOk
<1>15. Parties' = Parties /\ \A u : Host(u)' = Host(u) /\ \A v : Agreed(u, v)' = Agreed(u, v)
  BY SetupKept
<1>16. \A d, p, q : Between(d, p, q)' <=> Between(d, p, q)
  BY ONLY <1>9 DEF Between
<1>17. \A p, q \in Parties : p < q /\ ~({p, q} = {r, t}) => LinkKept(p, q)
  <2> SUFFICES ASSUME NEW p \in Parties, NEW q \in Parties, ~({p, q} = {r, t}) PROVE LinkKept(p, q)
    OBVIOUS
  <2>1. ~(p = r /\ q = t)
    OBVIOUS
  <2>2. Sock(p, q)' = Sock(p, q)
    BY ONLY <1>3, <2>1, sockets' = sockets \ {s} DEF Sock
  <2>3. \A d : Between(d, p, q) => connections[d]' = connections[d]
    BY ONLY <1>9, <2>1, Between(c, r, t) DEF Between
  <2> QED BY ONLY <1>16, <2>2, <2>3 DEF LinkKept
<1>18. /\ \A z \in Purposes : /\ Unmet(t, r, z)' <=> Unmet(t, r, z)
                              /\ Opens(t, r, z)' <=> Opens(t, r, z)
                              /\ Opens(t, r, z) => at[t].port' = at[t].port
                              /\ \A d \in Nat : Holds(t, r, z, d)' <=> Holds(t, r, z, d)
       /\ \A z \in Purposes :
            /\ Remains(r, t, z)' <=> Remains(r, t, z) /\ z # x
            /\ ~Opens(r, t, z)'
            /\ \A d \in Nat : Uses(r, t, z, d)' <=> Uses(r, t, z, d) \/ (z = x /\ d = c)
  <2>1. SideKept(t, r)
    BY <1>3, <1>13
  <2> QED BY ONLY <1>11, <2>1, t \in Peers(r) DEF SideKept, Finished
<1>19. Pair(r, t)'
  <2>0. Served(r, t) /\ Met(r, t) /\ Listens(r, t) /\ Told(r, t) /\ Post(r, t) /\ Ahead(r, t)
    BY <1>4 DEF Pair
  <2>1. ~Unmet(t, r, Corresponding(x))
    BY ONLY <1>5, <2>0, Holds(t, r, Corresponding(x), c), x \in Purposes, c \in Nat DEF Met
  <2>2. \A z \in Purposes : ~Uses(r, t, z, c)
    BY ONLY <2>0, ~connections[c].accepted, c \in Nat DEF Served
  <2>3. Sock(r, t)' = {}
    BY ONLY <1>3, <2>0, sockets' = sockets \ {s} DEF Listens, Sock
  <2>4. \A z \in Purposes : ~Awaits(r, t, z)'
    <3>1. Remains(r, t, Initial) => x = Initial
      BY <1>1, <1>6, DoingIs
    <3> QED BY ONLY <1>3, <1>18, <3>1 DEF Awaits
  <2>5. Served(r, t)'
    <3> SUFFICES ASSUME NEW z \in Purposes, NEW d \in Nat, Uses(r, t, z, d)'
                 PROVE  /\ Between(d, r, t)' /\ connections[d]'.accepted
                        /\ \A y \in Purposes : Uses(r, t, y, d)' => z = y
      BY DEF Served
    <3>1. CASE z = x /\ d = c
      BY ONLY <1>9, <1>16, <1>18, <2>2, <3>1, Between(c, r, t)
    <3>2. CASE Uses(r, t, z, d)
      <4>1. /\ Between(d, r, t) /\ connections[d].accepted /\ d # c
            /\ \A y \in Purposes : Uses(r, t, y, d) => z = y
        BY ONLY <2>0, <2>2, <3>2, z \in Purposes, d \in Nat DEF Served
      <4>2. connections[d]' = connections[d]
        BY ONLY <1>9, <4>1 DEF Between
      <4> QED BY ONLY <1>16, <1>18, <4>1, <4>2, d \in Nat
    <3> QED BY <1>18, <3>1, <3>2
  <2>6. Met(r, t)'
    <3> SUFFICES ASSUME NEW z \in Purposes, NEW d \in Nat, Holds(t, r, z, d)'
                 PROVE  /\ Between(d, r, t)' /\ ~Unmet(t, r, z)'
                        /\ connections[d]'.accepted => Uses(r, t, Corresponding(z), d)'
                        /\ \A y \in Purposes : Holds(t, r, y, d)' => z = y
      BY DEF Met
    <3>1. /\ Between(d, r, t) /\ ~Unmet(t, r, z)
          /\ connections[d].accepted => Uses(r, t, Corresponding(z), d)
          /\ \A y \in Purposes : Holds(t, r, y, d) => z = y
      BY ONLY <1>18, <2>0, z \in Purposes, d \in Nat, Holds(t, r, z, d)' DEF Met
    <3>2. connections[d]'.accepted => Uses(r, t, Corresponding(z), d)'
      <4>1. CASE d = c
        <5>1. z = Corresponding(x)
          BY ONLY <1>5, <3>1, <4>1, x \in Purposes, Holds(t, r, Corresponding(x), c)
        <5>2. Corresponding(z) = x
          BY ONLY <1>5, <5>1, x \in Purposes
        <5> QED BY ONLY <1>18, <4>1, <5>2, x \in Purposes, c \in Nat
      <4>2. CASE d # c
        <5>1. connections[d]' = connections[d]
          BY ONLY <1>9, <3>1, <4>2 DEF Between
        <5> QED BY ONLY <1>5, <1>18, <3>1, <5>1, z \in Purposes, d \in Nat
      <4> QED BY <4>1, <4>2
    <3> QED BY ONLY <1>16, <1>18, <3>1, <3>2, z \in Purposes, d \in Nat
  <2>7. Listens(r, t)' /\ Heard(r, t)'
    BY ONLY <2>3, <2>4 DEF Listens, Heard
  <2>8. Told(r, t)'
    <3>1. ASSUME NEW y \in Purposes \ {Initial}, Opens(t, r, y) PROVE FALSE
      <4>1. Opens(r, t, Corresponding(y))
        BY ONLY <1>4, <2>0, <3>1 DEF Told
      <4>2. Corresponding(y) = x
        BY ONLY <1>6, <4>1 DEF Opens
      <4>3. y = Corresponding(x)
        BY ONLY <1>5, <4>2, y \in Purposes \ {Initial}
      <4>4. Unmet(t, r, y)
        BY <1>3, <1>4, <3>1, DoingIs DEF Opens
      <4> QED BY ONLY <2>1, <4>3, <4>4
    <3>2. Opens(t, r, Initial)' => at[t]'.port = Agreed(r, t)'
      BY ONLY <1>3, <1>15, <1>18, <2>0 DEF Told
    <3> QED BY ONLY <1>18, <3>1, <3>2 DEF Told
  <2>9. Post(r, t)'
    <3> SUFFICES ASSUME NEW d \in Nat, Uses(r, t, Initial, d)' PROVE connections[d]'.mail = <<>>
      BY DEF Post
    <3>1. CASE Uses(r, t, Initial, d)
      <4>1. ~Carries(r, t, d)
        <5>1. \A z \in Purposes : Opens(r, t, z) => z = x
          BY ONLY <1>6 DEF Opens
        <5> QED BY ONLY <2>1, <5>1 DEF Carries
      <4>2. connections[d].mail = <<>>
        BY ONLY <1>4, <2>0, <3>1, <4>1, d \in Nat DEF Post
      <4>3. d \in DOMAIN connections
        BY ONLY <1>3, <2>0, <3>1, d \in Nat DEF Served, Between
      <4> QED BY ONLY <1>9, <4>2, <4>3
    <3>2. CASE d = c
      <4>1. connections[c].mail = <<>>
        BY ONLY <1>1, <1>3, <1>8, <2>2, Between(c, r, t) DEF Letters, Between
      <4> QED BY ONLY <1>8, <1>9, <3>2, <4>1
    <3> QED BY <1>3, <1>18, <3>1, <3>2
  <2>10. Ahead(r, t)'
    <3>1. ASSUME NEW z \in Purposes
          PROVE  /\ Remains(r, t, z)' /\ ~Unmet(t, r, Corresponding(z))' /\ ~Gone(r)' => FALSE
                 /\ Unmet(t, r, Corresponding(z))' => Remains(r, t, z)'
      <4>1. /\ Remains(r, t, z) /\ ~Unmet(t, r, Corresponding(z)) => Awaits(r, t, z)
            /\ Unmet(t, r, Corresponding(z)) => Remains(r, t, z)
        BY ONLY <1>4, <2>0, z \in Purposes DEF Ahead
      <4> QED BY ONLY <1>5, <1>7, <1>18, <2>1, <4>1, z \in Purposes
    <3> QED BY ONLY <3>1 DEF Ahead
  <2> QED BY ONLY <2>5, <2>6, <2>7, <2>8, <2>9, <2>10 DEF Pair
<1>20. SocketsOk'
  <2>1. \A u, v \in sockets' : u.host = v.host /\ u.port = v.port => u = v
    BY ONLY <1>1, sockets' = sockets \ {s} DEF SocketsOk
  <2>2. \A u \in sockets' : \E o \in sockets :
          u.host = o.host /\ u.port = o.port /\ u.owner = o.owner /\ u.for = o.for
    BY sockets' = sockets \ {s}
  <2> QED BY <1>1, <1>13, <2>1, <2>2, SocketsKept DEF TypesOk
<1>21. Letters'
  <2>1. \A d \in DOMAIN connections' : connections[d]'.server < connections[d]'.client
    BY ONLY <1>1, <1>9 DEF Letters
  <2>2. \A d \in DOMAIN connections' : connections[d]'.mail # <<>> =>
           /\ d \in DOMAIN connections /\ connections[d].mail # <<>>
           /\ connections[d]'.server = connections[d].server
           /\ connections[d]'.client = connections[d].client
    BY ONLY <1>9
  <2> QED BY <1>1, <1>8, <1>13, <1>15, <2>1, <2>2, LettersKept
<1> QED BY <1>3, <1>11, <1>12, <1>13, <1>14, <1>17, <1>19, <1>20, <1>21, StepKeeps

(* The socket a client connects to is the one that is meant.               *)
LEMMA ClientFinds ==
  ASSUME Inv, NEW r \in Parties, status[r] = "running", at[r].stage = "open",
         NEW t \in Peers(r), t < r, NEW y \in Purposes, Now(r) = Task(t, y),
         NEW s \in sockets, s.host = Host(t), s.port = at[r].port
  PROVE  /\ s \in Sock(t, r) /\ s.connected = <<>> /\ ~Gone(t)
         /\ Awaits(t, r, Corresponding(y)) /\ Opens(r, t, y) /\ Unmet(r, t, y)
         /\ y = Initial => s.port = Agreed(t, r)
<1>1. TypesOk /\ Local(r) /\ SocketsOk /\ Staying
  BY DEF Inv
<1>2. todo[r] # <<>>
  BY <1>1, TaskAt
<1>3. t \in Parties /\ t # r /\ r \in Peers(t) /\ Initial \in Purposes
  BY OtherSide
<1>4. Pair(t, r) /\ Local(t)
  BY <1>3 DEF Inv
<1>5. /\ Corresponding(Initial) = Initial
      /\ \A z \in Purposes : /\ Corresponding(z) \in Purposes /\ Corresponding(Corresponding(z)) = z
                             /\ z # Initial => Corresponding(z) # Initial
  BY CorrespondingInitial, CorrespondingTwice
<1>6. Opens(r, t, y) /\ Unmet(r, t, y)
  <2>1. Does(r, t, y)
    BY <1>2 DEF Does
  <2> QED BY <1>1, <2>1, DoingIs DEF Opens
<1>7. ~Gone(t)
  <2>1. CASE setup.oneHost
    BY ONLY <1>1, <1>3, <2>1 DEF Staying
  <2>2. CASE ~setup.oneHost
    <3>1. s.host = Host(s.owner) /\ ~Gone(s.owner)
      BY ONLY <1>1, s \in sockets DEF SocketsOk
    <3>2. s.owner = t
      BY ONLY <2>2, <3>1, s.host = Host(t) DEF Host
    <3> QED BY ONLY <3>1, <3>2
  <2> QED BY <2>1, <2>2
<1>8. Awaits(t, r, Corresponding(y)) /\ (y = Initial => s.port = Agreed(t, r))
  <2>1. CASE y = Initial
    <3>1. s.port = Agreed(t, r)
      BY ONLY <1>4, <1>6, <2>1, s.port = at[r].port DEF Pair, Told
    <3>2. ~ToBind(t, r)
      BY ONLY <1>1, <1>3, <3>1, s \in sockets, s.host = Host(t), t < r, r \in Parties DEF SocketsOk
    <3>3. Remains(t, r, Initial)
      BY ONLY <1>3, <1>4, <1>5, <1>6, <2>1 DEF Pair, Ahead
    <3> QED BY ONLY <1>5, <2>1, <3>1, <3>2, <3>3 DEF Awaits
  <2>2. CASE y # Initial
    <3>1. Opens(t, r, Corresponding(y))
      BY ONLY <1>4, <1>6, <1>7, <2>2, y \in Purposes DEF Pair, Told
    <3> QED BY ONLY <1>5, <2>2, <3>1, y \in Purposes DEF Awaits
  <2> QED BY <2>1, <2>2
<1> PICK s1 \in Sock(t, r) : TRUE
  BY ONLY <1>4, <1>5, <1>7, <1>8, y \in Purposes DEF Pair, Heard
<1> PICK z \in Purposes :
      Awaits(t, r, z) /\ (z = Initial => s1.port = Agreed(t, r)) /\ Reached(t, r, z, s1)
  BY ONLY <1>4, s1 \in Sock(t, r) DEF Pair, Listens
<1>9. z = Corresponding(y)
  BY <1>3, <1>4, <1>5, <1>8, AwaitsOne
<1>10. s1.port = s.port
  <2>1. CASE y = Initial
    BY ONLY <1>5, <1>8, <1>9, <2>1, z = Initial => s1.port = Agreed(t, r)
  <2>2. CASE y # Initial
    BY ONLY <1>4, <1>6, <1>7, <2>2, y \in Purposes, s1 \in Sock(t, r), s.port = at[r].port DEF Pair, Told
  <2> QED BY <2>1, <2>2
<1>11. s1 = s
  <2>1. s1 \in sockets /\ s1.owner = t
    BY ONLY s1 \in Sock(t, r) DEF Sock
  <2>2. s1.host = Host(t)
    BY ONLY <1>1, <2>1 DEF SocketsOk
  <2> QED BY ONLY <1>1, <1>10, <2>1, <2>2, s \in sockets, s.host = Host(t) DEF SocketsOk
<1>12. s.connected = <<>>
  <2>1. Corresponding(z) = y
    BY ONLY <1>5, <1>9, y \in Purposes
  <2>2. \A c \in Nat : ~Holds(r, t, y, c)
    BY ONLY <1>4, <1>6, y \in Purposes DEF Pair, Met
  <2> QED BY ONLY <1>11, <2>1, <2>2, Reached(t, r, z, s1) DEF Reached
<1> QED BY ONLY <1>6, <1>7, <1>8, <1>11, <1>12, s1 \in Sock(t, r)

(* The pair after the client has connected.                                *)
LEMMA ConnectPair ==
  ASSUME Inv, setup' = setup, NEW r \in Parties, NEW t \in Peers(r), t < r, NEW y \in Purposes,
         Opens(r, t, y), Unmet(r, t, y), Awaits(t, r, Corresponding(y)),
         NEW s \in Sock(t, r), y = Initial => s.port = Agreed(t, r),
         NEW c \in Nat, c \notin DOMAIN connections,
         NEW s1, s1.port = s.port, s1.connected = <<c>>, Sock(t, r)' = {s1},
         Between(c, t, r)', connections[c]'.accepted = FALSE,
         \A d \in DOMAIN connections : connections[d]' = connections[d],
         \A d : d # c => (Between(d, t, r)' <=> Between(d, t, r)),
         Connected(r, t, y, c), SideKept(t, r), Gone(t)' <=> Gone(t)
  PROVE  Pair(t, r)'
<1>1. t \in Parties /\ t # r /\ r \in Peers(t) /\ Initial \in Purposes
  BY OtherSide
<1>2. Pair(t, r) /\ Local(t)
  BY <1>1 DEF Inv
<1>3. Served(t, r) /\ Met(t, r) /\ Listens(t, r) /\ Told(t, r) /\ Post(t, r) /\ Ahead(t, r)
  BY <1>2 DEF Pair
<1>4. /\ Corresponding(Initial) = Initial
      /\ \A z \in Purposes : /\ Corresponding(z) \in Purposes /\ Corresponding(Corresponding(z)) = z
                             /\ z # Initial => Corresponding(z) # Initial
  BY CorrespondingInitial, CorrespondingTwice
<1>5. \A z \in Purposes : /\ ~Opens(r, t, z)'
                          /\ Unmet(r, t, z)' <=> Unmet(r, t, z) /\ z # y
                          /\ \A d \in Nat : Holds(r, t, z, d)' <=> Holds(r, t, z, d) \/ (z = y /\ d = c)
  BY ONLY Connected(r, t, y, c) DEF Connected
<1>6. \A z \in Purposes :
        /\ Awaits(t, r, z)' <=> Awaits(t, r, z)
        /\ Remains(t, r, z)' <=> Remains(t, r, z)
        /\ \A d \in Nat : Uses(t, r, z, d)' <=> Uses(t, r, z, d)
  BY ONLY <1>1, SideKept(t, r) DEF SideKept, Awaits
<1>7. \A d, p, q : Between(d, p, q) => d # c
  BY ONLY c \notin DOMAIN connections DEF Between
<1>8. \A d : Between(d, t, r) => Between(d, t, r)' /\ connections[d]' = connections[d]
  <2>1. \A d : Between(d, t, r) => d \in DOMAIN connections
    BY DEF Between
  <2> QED BY <1>7, <2>1
<1>9. Served(t, r)'
  BY ONLY <1>3, <1>6, <1>8 DEF Served
<1>10. Met(t, r)'
  <2> SUFFICES ASSUME NEW z \in Purposes, NEW d \in Nat, Holds(r, t, z, d)'
               PROVE  /\ Between(d, t, r)' /\ ~Unmet(r, t, z)'
                      /\ connections[d]'.accepted => Uses(t, r, Corresponding(z), d)'
                      /\ \A x \in Purposes : Holds(r, t, x, d)' => z = x
    BY DEF Met
  <2>1. CASE Holds(r, t, z, d)
    <3>1. /\ Between(d, t, r) /\ ~Unmet(r, t, z)
          /\ connections[d].accepted => Uses(t, r, Corresponding(z), d)
          /\ \A x \in Purposes : Holds(r, t, x, d) => z = x
      BY ONLY <1>3, <2>1, z \in Purposes, d \in Nat DEF Met
    <3> QED BY ONLY <1>4, <1>5, <1>6, <1>7, <1>8, <3>1, z \in Purposes, d \in Nat
  <2>2. CASE z = y /\ d = c
    <3>1. \A x \in Purposes : ~Holds(r, t, x, c)
      BY ONLY <1>3, <1>7, c \in Nat DEF Met
    <3> QED BY ONLY <1>5, <2>2, <3>1, Between(c, t, r)', connections[c]'.accepted = FALSE,
                    y \in Purposes, c \in Nat
  <2> QED BY <1>5, <2>1, <2>2
<1>11. Listens(t, r)' /\ Heard(t, r)'
  <2>1. Reached(t, r, Corresponding(y), s1)'
    <3>1. Holds(r, t, Corresponding(Corresponding(y)), c)'
      BY ONLY <1>4, <1>5, y \in Purposes, c \in Nat
    <3> QED BY ONLY <3>1, s1.connected = <<c>>, Between(c, t, r)', connections[c]'.accepted = FALSE,
                    c \in Nat DEF Reached
  <2>2. Corresponding(y) = Initial => s1.port = Agreed(t, r)'
    <3>1. Agreed(t, r)' = Agreed(t, r)
      BY SetupKept
    <3> QED BY ONLY <1>4, <3>1, y \in Purposes, y = Initial => s.port = Agreed(t, r), s1.port = s.port
  <2>3. Listens(t, r)'
    BY ONLY <1>4, <1>6, <2>1, <2>2, Sock(t, r)' = {s1}, y \in Purposes,
            Awaits(t, r, Corresponding(y)) DEF Listens
  <2> QED BY ONLY <2>3, Sock(t, r)' = {s1} DEF Heard
<1>12. Told(t, r)'
  BY ONLY <1>1, <1>5 DEF Told
<1>13. Post(t, r)'
  <2> SUFFICES ASSUME NEW d \in Nat, ~Gone(t)', Uses(t, r, Initial, d)'
               PROVE  connections[d]'.mail = <<>>
    BY DEF Post
  <2>1. ~Carries(t, r, d)
    <3> SUFFICES ASSUME NEW x \in Purposes \ {Initial}, Opens(t, r, x),
                        \A z \in Purposes \ {Initial} : ~Opens(r, t, z)
                 PROVE  FALSE
      BY DEF Carries
    <3>1. Awaits(t, r, x)
      BY DEF Awaits
    <3>2. x = Corresponding(y)
      BY <1>1, <1>2, <1>4, <3>1, AwaitsOne
    <3> QED BY <1>4, <3>2
  <2>2. Uses(t, r, Initial, d)
    BY <1>1, <1>6
  <2>3. connections[d].mail = <<>>
    BY ONLY <1>3, <2>1, <2>2, ~Gone(t)', Gone(t)' <=> Gone(t), d \in Nat DEF Post
  <2>4. Between(d, t, r)
    BY ONLY <1>1, <1>3, <2>2, d \in Nat DEF Served
  <2> QED BY ONLY <1>8, <2>3, <2>4
<1>14. Ahead(t, r)'
  <2>1. \A x \in Purposes : Corresponding(x) = y => x = Corresponding(y)
    BY ONLY <1>4
  <2> QED BY ONLY <1>3, <1>4, <1>5, <1>6, <2>1, Awaits(t, r, Corresponding(y)), Gone(t)' <=> Gone(t)
          DEF Ahead
<1> QED BY ONLY <1>9, <1>10, <1>11, <1>12, <1>13, <1>14 DEF Pair

(* A client connects.                                                      *)
LEMMA ConnectKeeps ==
  ASSUME Inv, setup' = setup, NEW r \in Parties, status[r] = "running",
         NEW t \in Peers(r), NEW y \in Purposes, Now(r) = Task(t, y),
         NEW s \in sockets, connectToHost(r, s),
         Connected(r, t, y, Len(connections) + 1), Local(r)',
         \A q \in Peers(r) \ {t} : SideKept(r, q),
         \A u \in Parties \ {r} : SameParty(u) /\ \A q \in Peers(u) : SideKept(u, q),
         \A u \in Parties : Gone(u)' <=> Gone(u),
         \A p \in Parties : \A q \in Peers(p) : ToBind(p, q)' <=> ToBind(p, q),
         \A p, q \in Parties : \A d \in Nat :
           p < q /\ Uses(p, q, Initial, d) => Uses(p, q, Initial, d)',
         sockets' \subseteq SocketSet /\ connections' \in Seq(ConnectionSet) => TypesOk'
  PROVE  Inv'
<1>0. /\ at[r].stage = "open" /\ ~Serves(r)
      /\ s.host = Host(Now(r).peer) /\ s.port = at[r].port
  BY DEF connectToHost, In
<1>1. TypesOk /\ Local(r) /\ SocketsOk /\ Letters
  BY DEF Inv
<1>2. /\ t < r /\ ~(r < t) /\ s.host = Host(t)
      /\ t \in Parties /\ t # r /\ r \in Peers(t)
  <2>1. Now(r).peer = t
    BY DEF Task
  <2> QED BY <1>0, <2>1, OtherSide DEF Serves
<1>3. /\ s \in Sock(t, r) /\ s.connected = <<>> /\ ~Gone(t)
      /\ Awaits(t, r, Corresponding(y)) /\ Opens(r, t, y) /\ Unmet(r, t, y)
      /\ y = Initial => s.port = Agreed(t, r)
  BY <1>0, <1>2, ClientFinds
<1> PICK c \in Nat : c = Len(connections) + 1
  BY <1>1 DEF TypesOk
<1> PICK k : k = [server |-> t, client |-> r, mail |-> <<>>, accepted |-> FALSE]
  OBVIOUS
<1> PICK s1 : s1 = [s EXCEPT !.connected = <<c>>]
  OBVIOUS
<1>4. s.owner = t /\ s.for = r /\ s \in SocketSet /\ connections \in Seq(ConnectionSet)
  BY <1>1, <1>3 DEF Sock, TypesOk
<1>5. connections' = Append(connections, k) /\ sockets' = (sockets \ {s}) \cup {s1}
  <2>1. Append(s.connected, c) = <<c>>
    BY ONLY <1>3
  <2> QED BY ONLY <1>4, <2>1, connectToHost(r, s), c = Len(connections) + 1,
                  k = [server |-> t, client |-> r, mail |-> <<>>, accepted |-> FALSE],
                  s1 = [s EXCEPT !.connected = <<c>>] DEF connectToHost
<1>6. /\ s1.host = s.host /\ s1.port = s.port /\ s1.owner = t /\ s1.for = r
      /\ s1.connected = <<c>> /\ s1 \in SocketSet
  <2>1. <<c>> \in Seq(Nat)
    OBVIOUS
  <2> QED BY ONLY <1>4, <2>1, s1 = [s EXCEPT !.connected = <<c>>] DEF SocketSet
<1>7. k \in ConnectionSet /\ k.server = t /\ k.client = r /\ k.mail = <<>> /\ k.accepted = FALSE
  BY ONLY <1>2, r \in Parties, k = [server |-> t, client |-> r, mail |-> <<>>, accepted |-> FALSE]
     DEF ConnectionSet
<1>8. /\ connections' \in Seq(ConnectionSet) /\ DOMAIN connections' = DOMAIN connections \cup {c}
      /\ c \notin DOMAIN connections /\ connections[c]' = k
      /\ \A d \in DOMAIN connections : connections[d]' = connections[d]
  BY ONLY <1>4, <1>5, <1>7, c = Len(connections) + 1
<1>9. TypesOk'
  <2>1. sockets' \subseteq SocketSet
    BY ONLY <1>1, <1>5, <1>6 DEF TypesOk
  <2> QED BY <1>8, <2>1
<1>10. /\ \A d : d # c => \A p, q : Between(d, p, q)' <=> Between(d, p, q)
       /\ Between(c, t, r)'
       /\ \A p, q : Between(c, p, q)' => p = t /\ q = r
       /\ \A p, q : ~Between(c, p, q)
  BY ONLY <1>7, <1>8 DEF Between
<1>11. \A p, q \in Parties : p < q /\ ~({p, q} = {r, t}) => LinkKept(p, q)
  <2> SUFFICES ASSUME NEW p \in Parties, NEW q \in Parties, ~({p, q} = {r, t}) PROVE LinkKept(p, q)
    OBVIOUS
  <2>1. ~(p = t /\ q = r)
    OBVIOUS
  <2>2. Sock(p, q)' = Sock(p, q)
    BY ONLY <1>4, <1>5, <1>6, <2>1 DEF Sock
  <2>3. \A d : Between(d, p, q) => connections[d]' = connections[d]
    BY ONLY <1>8 DEF Between
  <2>4. \A d : Between(d, p, q)' <=> Between(d, p, q)
    BY ONLY <1>10, <2>1
  <2> QED BY ONLY <2>2, <2>3, <2>4 DEF LinkKept
<1>12. Pair(t, r)'
  <2>1. Sock(t, r)' = {s1}
    <3>1. \A o \in Sock(t, r) : o = s
      BY <1>2, <1>3 DEF Inv, Pair, Listens
    <3> QED BY ONLY <1>4, <1>5, <1>6, <3>1 DEF Sock
  <2>2. Connected(r, t, y, c) /\ SideKept(t, r) /\ (Gone(t)' <=> Gone(t))
    BY <1>2
  <2>3. connections[c]'.accepted = FALSE /\ s1.port = s.port /\ s1.connected = <<c>>
    BY ONLY <1>6, <1>7, <1>8
  <2>4. \A d : d # c => (Between(d, t, r)' <=> Between(d, t, r))
    BY ONLY <1>10
  <2>5. \A d \in DOMAIN connections : connections[d]' = connections[d]
    BY ONLY <1>8
  <2>6. /\ s \in Sock(t, r)
        /\ y = Initial => s.port = Agreed(t, r)
        /\ Awaits(t, r, Corresponding(y)) /\ Opens(r, t, y) /\ Unmet(r, t, y)
        /\ Between(c, t, r)' /\ c \notin DOMAIN connections
    BY ONLY <1>3, <1>8, <1>10
  <2> QED BY ONLY <1>2, <2>1, <2>2, <2>3, <2>4, <2>5, <2>6, Inv, setup' = setup, r \in Parties,
                  t \in Peers(r), y \in Purposes, c \in Nat, ConnectPair
<1>13. SocketsOk'
  <2>1. \A u \in sockets' : \E o \in sockets :
          u.host = o.host /\ u.port = o.port /\ u.owner = o.owner /\ u.for = o.for
    BY ONLY <1>4, <1>5, <1>6, s \in sockets
  <2>2. \A u, v \in sockets' : u.host = v.host /\ u.port = v.port => u = v
    <3>1. \A u, v \in sockets : u.host = v.host /\ u.port = v.port => u = v
      BY ONLY <1>1 DEF SocketsOk
    <3> QED BY ONLY <1>5, <1>6, <3>1, s \in sockets
  <2> QED BY <1>1, <2>1, <2>2, SocketsKept DEF TypesOk
<1>14. Letters'
  <2>1. \A d \in DOMAIN connections' : connections[d]'.server < connections[d]'.client
    BY ONLY <1>1, <1>2, <1>7, <1>8 DEF Letters
  <2>2. \A d \in DOMAIN connections' : connections[d]'.mail # <<>> =>
           /\ d \in DOMAIN connections /\ connections[d].mail # <<>>
           /\ connections[d]'.server = connections[d].server
           /\ connections[d]'.client = connections[d].client
    BY ONLY <1>7, <1>8
  <2>3. Parties' = Parties
    BY SetupKept
  <2> QED BY <1>1, <1>4, <2>1, <2>2, <2>3, LettersKept
<1> QED BY <1>2, <1>9, <1>11, <1>12, <1>13, <1>14, StepKeeps

(* A client connects without TLS: its agent is created. *)
LEMMA OpenClientPortKeeps ==
  ASSUME Inv, NEW r \in Parties, status[r] = "running", openClientPort(r)
  PROVE  Inv'
<1>0. /\ Finish(r, Len(connections) + 1) /\ setup' = setup /\ portNo' = portNo
      /\ \E s \in sockets : connectToHost(r, s)
  BY DEF openClientPort
<1> PICK s \in sockets : connectToHost(r, s)
  BY <1>0
<1>1. TypesOk /\ Local(r) /\ at[r].stage = "open"
  BY DEF Inv, connectToHost, In
<1>2. todo[r] # <<>> /\ Planned(r, todo[r])
  BY <1>1, TaskAt
<1> PICK t \in Peers(r), y \in Purposes : Now(r) = Task(t, y)
  BY <1>1, TaskAt
<1> PICK c \in Nat : c = Len(connections) + 1 /\ c # NoConnection
  <2>1. Len(connections) \in Nat
    BY <1>1 DEF TypesOk
  <2> QED BY ONLY <2>1 DEF NoConnection
<1>3. Finish(r, c)
  BY <1>0
<1>4. Local(r)' /\ Finished(r, t, y, c)
  BY <1>0, <1>1, <1>3, FinishTask
<1>5. Remains(r, t, y)
  <2>1. Does(r, t, y)
    BY <1>2 DEF Does
  <2> QED BY <1>1, <2>1, DoingIs
<1>6. /\ \A q \in Peers(r) \ {t} : SideKept(r, q)
      /\ Connected(r, t, y, c)
  BY <1>1, <1>2, <1>4, <1>5, FinishSides
<1>7. /\ \A u \in Parties \ {r} : SameParty(u) /\ \A q \in Peers(u) : SideKept(u, q)
      /\ \A u \in Parties : Gone(u)' <=> Gone(u)
      /\ \A p \in Parties : \A q \in Peers(p) : ToBind(p, q)' <=> ToBind(p, q)
      /\ \A p, q \in Parties : \A d \in Nat :
           p < q /\ Uses(p, q, Initial, d) => Uses(p, q, Initial, d)'
      /\ sockets' \subseteq SocketSet /\ connections' \in Seq(ConnectionSet) => TypesOk'
  BY <1>0, <1>1, <1>3, <1>4, FinishFrame
<1> QED BY <1>0, <1>4, <1>6, <1>7, ConnectKeeps

(* A client connects with TLS: the handshake follows. *)
LEMMA OpenClientPortWithTlsKeeps ==
  ASSUME Inv, NEW r \in Parties, status[r] = "running", openClientPortWithTls(r)
  PROVE  Inv'
<1>0. /\ setup' = setup /\ todo' = todo /\ portNo' = portNo /\ initial' = initial
      /\ agents' = agents /\ status' = status
      /\ \E s \in sockets : connectToHost(r, s)
      /\ at' = [at EXCEPT ![r].stage = "handshake", ![r].connection = Len(connections) + 1]
  BY DEF openClientPortWithTls
<1> PICK s \in sockets : connectToHost(r, s)
  BY <1>0
<1>1. TypesOk /\ Local(r) /\ at[r].stage = "open"
  BY DEF Inv, connectToHost, In
<1>2. todo[r] # <<>> /\ Planned(r, todo[r])
  BY <1>1, TaskAt
<1> PICK t \in Peers(r), y \in Purposes : Now(r) = Task(t, y)
  BY <1>1, TaskAt
<1> PICK c \in Nat : c = Len(connections) + 1
  <2>1. Len(connections) \in Nat
    BY <1>1 DEF TypesOk
  <2> QED BY ONLY <2>1
<1> PICK a : a = [at[r] EXCEPT !.stage = "handshake", !.connection = c]
  OBVIOUS
<1>3. a \in Positions /\ a.stage = "handshake" /\ a.connection = c
  <2>1. at[r] \in Positions
    BY <1>1 DEF TypesOk
  <2> QED BY ONLY <2>1, a = [at[r] EXCEPT !.stage = "handshake", !.connection = c], c \in Nat
          DEF Positions
<1>4. at' = [at EXCEPT ![r] = a]
  <2>1. at \in [Parties -> Positions]
    BY <1>1 DEF TypesOk
  <2> QED BY ONLY <1>0, <2>1, r \in Parties, c = Len(connections) + 1,
                  a = [at[r] EXCEPT !.stage = "handshake", !.connection = c]
<1>5. t < r
  <2>1. ~(r < t)
    BY DEF connectToHost, Serves, Task
  <2> QED BY <2>1, OtherSide
<1>6. /\ Local(r)' /\ at' \in [Parties -> Positions] /\ at[r]' = a
      /\ \A u \in Parties \ {r} : at[u]' = at[u]
      /\ \A q \in Peers(r) \ {t} : SideKept(r, q)
      /\ at[r].stage = "start" /\ a.stage = "open" => Opening(r, t, y)
      /\ at[r].stage = "open" /\ a.stage = "handshake" => Connected(r, t, y, a.connection)
  <2>1. /\ DOMAIN portNo[r]' = Peers(r)
        /\ \A q \in Peers(r) :
             portNo[r][q]' \in Nat /\ (r > q \/ Remains(r, q, Initial) => portNo[r][q]' = portNo[r][q])
    BY <1>0, <1>1 DEF Local
  <2>2. TypesOk /\ Local(r) /\ setup' = setup /\ todo' = todo /\ initial' = initial /\ agents' = agents
        /\ status' = status
    BY <1>0, <1>1
  <2> QED BY ONLY <1>2, <1>3, <1>4, <1>5, <2>1, <2>2, r \in Parties, t \in Peers(r), y \in Purposes,
                  Now(r) = Task(t, y), StageMoves
<1>7. Connected(r, t, y, Len(connections) + 1)
  BY ONLY <1>1, <1>3, <1>6, c = Len(connections) + 1
<1>8. \A u \in Parties \ {r} : SameParty(u) /\ \A q \in Peers(u) : SideKept(u, q)
  <2>1. \A u \in Parties \ {r} : SameParty(u)
    BY ONLY <1>0, <1>6 DEF SameParty
  <2> QED BY <1>0, <2>1, PartyKept
<1>9. /\ \A u \in Parties : Gone(u)' <=> Gone(u)
      /\ \A p \in Parties : \A q \in Peers(p) : ToBind(p, q)' <=> ToBind(p, q)
      /\ \A p, q \in Parties : \A d \in Nat :
           p < q /\ Uses(p, q, Initial, d) => Uses(p, q, Initial, d)'
  BY ONLY <1>0 DEF Gone, ToBind, Uses
<1>10. sockets' \subseteq SocketSet /\ connections' \in Seq(ConnectionSet) => TypesOk'
  BY <1>0, <1>1, <1>6, SetupKept DEF TypesOk, Statuses
<1> QED BY <1>0, <1>6, <1>7, <1>8, <1>9, <1>10, ConnectKeeps

(* On one host: who creates agents knows that every initial socket is      *)
(* bound.                                                                  *)
LEMMA AllBound ==
  ASSUME Inv, \A w \in Parties : ~Gone(w), NEW r \in Parties, NEW t \in Peers(r),
         NEW x \in Purposes \ {Initial}, Does(r, t, x),
         NEW u \in Parties, NEW v \in Parties, u < v, ToBind(u, v)
  PROVE  FALSE
<1>1. \A p \in Parties : Local(p)
  BY DEF Inv
<1>2. /\ Parties \subseteq Nat /\ Initial \in Purposes /\ Corresponding(Initial) = Initial
      /\ \A p, q \in Parties : p # q => q \in Peers(p)
  BY PartiesNat, CorrespondingInitial DEF Purposes
<1>3. \A q \in Peers(r) : ~ToBind(r, q) /\ ~Remains(r, q, Initial)
  BY <1>1, DoingIs
<1>4. /\ \A p, q \in Parties : p < q => Ahead(p, q)
      /\ \A p \in Parties : InOrder(p)
  BY DEF Inv, Pair, Local
<1>5. /\ \A p, q \in Parties : p < q /\ Remains(p, q, Initial) /\ ~Unmet(q, p, Initial) => ~ToBind(p, q)
      /\ \A p, q \in Parties : p < q /\ Unmet(q, p, Initial) => Remains(p, q, Initial)
  BY ONLY <1>2, <1>4, \A w \in Parties : ~Gone(w) DEF Ahead, Awaits
<1>6. \A q \in Peers(u) : Remains(u, q, Initial)
  BY <1>2, <1>4 DEF InOrder
<1>7. /\ \A p, q : Unmet(p, q, Initial) => Remains(p, q, Initial)
      /\ \A p, q : Remains(p, q, Initial) /\ ~Unmet(p, q, Initial) => Does(p, q, Initial)
  BY DEF Unmet, Shaking
<1>8. u # r
  BY <1>2, <1>3
<1>9. CASE r < u
  <2>1. r \in Peers(u) /\ u \in Peers(r) /\ v \in Peers(u)
    BY <1>2, <1>8
  <2>2. Remains(u, r, Initial) /\ ~Unmet(u, r, Initial)
    BY <1>3, <1>5, <1>6, <1>9, <2>1
  <2>3. Does(u, r, Initial)
    BY <1>7, <2>2
  <2> QED BY <1>1, <1>2, <2>1, <2>3, DoingIs
<1>10. CASE u < r
  <2>1. r \in Peers(u) /\ u \in Peers(r) /\ v \in Peers(u)
    BY <1>2, <1>8
  <2>2. ~ToBind(u, r)
    BY <1>3, <1>5, <1>6, <1>7, <1>10, <2>1
  <2>3. r < v
    <3>1. v # r /\ ~(v < r)
      BY <1>4, <2>1, <2>2 DEF InOrder
    <3> QED BY ONLY <1>2, <3>1, r \in Parties, v \in Parties
  <2>4. v # r /\ v # u /\ r \in Peers(v) /\ u \in Peers(v) /\ v \in Peers(r)
    BY <1>2, <2>3
  <2>5. ~Remains(v, u, Initial)
    <3>1. ~Unmet(v, r, Initial)
      BY <1>3, <1>5, <2>3, <2>4
    <3>2. CASE Remains(v, r, Initial)
      <4>1. Does(v, r, Initial)
        BY <1>7, <3>1, <3>2
      <4>2. Remains(v, u, Initial) => r <= u
        BY <1>1, <1>2, <2>4, <4>1, DoingIs
      <4> QED BY ONLY <1>2, <1>10, <4>2, r \in Parties, u \in Parties
    <3>3. CASE ~Remains(v, r, Initial)
      BY <1>4, <1>10, <2>4, <3>3 DEF InOrder
    <3> QED BY <3>2, <3>3
  <2> QED BY <1>5, <1>6, <1>7, <2>1, <2>5
<1> QED BY ONLY <1>2, <1>8, <1>9, <1>10, r \in Parties, u \in Parties

(* A server is given a port for an agent and tells it.                     *)
LEMMA CreateAsServerKeeps ==
  ASSUME Inv, NEW r \in Parties, status[r] = "running", createAsServer(r)
  PROVE  Inv'
<1>0. /\ at[r].stage = "start" /\ Now(r).call = "create" /\ Serves(r)
      /\ setup' = setup /\ todo' = todo /\ initial' = initial /\ agents' = agents /\ status' = status
      /\ at' = [at EXCEPT ![r] = [Start EXCEPT !.stage = "open"]]
      /\ portNo' = [portNo EXCEPT ![r][Now(r).peer] = portNo[r][Now(r).peer] + 1]
      /\ \E port \in createSocketFromMaybeFreePort(r, portNo[r][Now(r).peer] + 1) :
           /\ sockets' = sockets \cup {Listening(r, Now(r).peer, port)}
           /\ connections' = [connections EXCEPT ![initial[r][Now(r).peer]].mail = Append(@, port)]
  BY DEF createAsServer, In
<1>1. TypesOk /\ Local(r) /\ SocketsOk /\ Letters /\ Staying
  BY DEF Inv
<1>2. todo[r] # <<>> /\ Planned(r, todo[r])
  BY <1>1, TaskAt
<1> PICK t \in Peers(r), x \in Purposes \ {Initial} : Now(r) = Task(t, x)
  BY <1>0, <1>1, TaskAt
<1>3. /\ r < t /\ ~(t < r) /\ Now(r).peer = t
      /\ t \in Parties /\ t # r /\ r \in Peers(t) /\ Initial \in Purposes
  <2>1. Now(r).peer = t
    BY DEF Task
  <2> QED BY <1>0, <2>1, OtherSide DEF Serves
<1>4. Pair(r, t) /\ ~Gone(r) /\ Local(t)
  BY <1>3 DEF Inv, Gone
<1>5. Served(r, t) /\ Met(r, t) /\ Listens(r, t) /\ Told(r, t) /\ Post(r, t) /\ Ahead(r, t)
  BY <1>4 DEF Pair
<1>6. Does(r, t, x)
  BY <1>2 DEF Does
<1>7. /\ Remains(r, t, x)
      /\ \A q \in Peers(r) : ~ToBind(r, q) /\ ~Remains(r, q, Initial)
  BY <1>1, <1>6, DoingIs
<1>8. /\ Corresponding(Initial) = Initial
      /\ \A z \in Purposes : /\ Corresponding(z) \in Purposes /\ Corresponding(Corresponding(z)) = z
                             /\ z # Initial => Corresponding(z) # Initial
  BY CorrespondingInitial, CorrespondingTwice
<1> PICK c \in Nat : c = initial[r][t]
  BY <1>1 DEF Local
<1>9. /\ Uses(r, t, Initial, c) /\ \A d \in Nat : Uses(r, t, Initial, d) => d = c
  BY <1>1, <1>7, UsesInitial
<1>10. Between(c, r, t) /\ c \in DOMAIN connections
  BY <1>3, <1>5, <1>9 DEF Served, Between
<1>11. \A z \in Purposes : ~Awaits(r, t, z) /\ ~Opens(r, t, z)
  BY ONLY <1>0, <1>7, t \in Peers(r) DEF Awaits, Opens
<1>12. Sock(r, t) = {}
  BY ONLY <1>5, <1>11 DEF Listens
<1>13. Unmet(t, r, Corresponding(x))
  BY ONLY <1>4, <1>5, <1>7, <1>11, x \in Purposes \ {Initial} DEF Ahead
<1>14. \A y \in Purposes \ {Initial} : ~Opens(t, r, y)
  BY ONLY <1>4, <1>5, <1>8, <1>11 DEF Told
<1>15. connections[c].mail = <<>>
  BY ONLY <1>4, <1>5, <1>9, <1>11, c \in Nat DEF Post, Carries
<1> PICK port \in createSocketFromMaybeFreePort(r, portNo[r][t] + 1) :
      /\ sockets' = sockets \cup {Listening(r, t, port)}
      /\ connections' = [connections EXCEPT ![c].mail = Append(@, port)]
  BY ONLY <1>0, <1>3, c = initial[r][t]
<1>16. port \in Nat /\ port \notin PortsInUse(Host(r))
  <2>1. portNo[r][t] + 1 \in Nat
    <3>1. portNo[r][t] \in Nat
      BY <1>1 DEF Local
    <3> QED BY ONLY <3>1
  <2>2. setup.allPorts \subseteq Nat
    BY <1>1, SocketsAssumption DEF TypesOk
  <2> QED BY <2>1, <2>2 DEF createSocketFromMaybeFreePort
<1> PICK s0 : s0 = Listening(r, t, port)
  OBVIOUS
<1>17. /\ sockets' = sockets \cup {s0}
       /\ s0.host = Host(r) /\ s0.port = port /\ s0.owner = r /\ s0.for = t
       /\ s0.connected = <<>> /\ s0 \in SocketSet
  <2>1. Host(r) \in Nat
    BY HostIs
  <2> QED BY <1>3, <1>16, <2>1 DEF Listening, SocketSet
<1>18. /\ connections' \in Seq(ConnectionSet) /\ DOMAIN connections' = DOMAIN connections
       /\ connections[c]'.mail = <<port>>
       /\ \A d \in DOMAIN connections :
            /\ connections[d]'.server = connections[d].server
            /\ connections[d]'.client = connections[d].client
            /\ connections[d]'.accepted = connections[d].accepted
            /\ d # c => connections[d]' = connections[d]
  <2>1. connections \in Seq(ConnectionSet) /\ connections[c] \in ConnectionSet
    BY <1>1, <1>10 DEF TypesOk
  <2>2. Append(connections[c].mail, port) = <<port>> /\ <<port>> \in Seq(Nat)
    BY ONLY <1>15, <1>16
  <2>3. connections' = [connections EXCEPT ![c] = [connections[c] EXCEPT !.mail = <<port>>]]
    BY ONLY <2>2, connections' = [connections EXCEPT ![c].mail = Append(@, port)]
  <2>4. /\ [connections[c] EXCEPT !.mail = <<port>>] \in ConnectionSet
    BY ONLY <2>1, <2>2 DEF ConnectionSet
  <2>5. connections' \in Seq(ConnectionSet) /\ DOMAIN connections' = DOMAIN connections
    BY ONLY <1>10, <2>1, <2>3, <2>4
  <2>6. connections[c]' = [connections[c] EXCEPT !.mail = <<port>>]
    BY ONLY <1>10, <2>1, <2>3
  <2>7. \A d \in DOMAIN connections : d # c => connections[d]' = connections[d]
    BY ONLY <1>10, <2>1, <2>3
  <2>8. /\ connections[c]'.server = connections[c].server
        /\ connections[c]'.client = connections[c].client
        /\ connections[c]'.accepted = connections[c].accepted
        /\ connections[c]'.mail = <<port>>
    BY ONLY <2>1, <2>6 DEF ConnectionSet
  <2> QED BY ONLY <2>5, <2>7, <2>8
<1> PICK a : a = [Start EXCEPT !.stage = "open"]
  OBVIOUS
<1>19. a \in Positions /\ a.stage = "open" /\ at' = [at EXCEPT ![r] = a]
  <2>1. a \in Positions /\ a.stage = "open"
    BY DEF Positions, Start, NoConnection
  <2> QED BY ONLY <1>0, <2>1, a = [Start EXCEPT !.stage = "open"]
<1>20. /\ DOMAIN portNo' = Parties /\ DOMAIN portNo[r]' = Peers(r)
       /\ \A u \in Parties \ {r} : portNo[u]' = portNo[u]
       /\ \A q \in Peers(r) :
            portNo[r][q]' \in Nat /\ (r > q \/ Remains(r, q, Initial) => portNo[r][q]' = portNo[r][q])
  <2>1. DOMAIN portNo = Parties /\ DOMAIN portNo[r] = Peers(r) /\ \A q \in Peers(r) : portNo[r][q] \in Nat
    BY <1>1 DEF TypesOk, Local
  <2>2. portNo' = [portNo EXCEPT ![r] = [portNo[r] EXCEPT ![t] = portNo[r][t] + 1]]
    BY ONLY <1>0, <1>3
  <2>3. portNo[r]' = [portNo[r] EXCEPT ![t] = portNo[r][t] + 1]
    BY ONLY <2>1, <2>2, r \in Parties
  <2>4. DOMAIN portNo' = Parties /\ \A u \in Parties \ {r} : portNo[u]' = portNo[u]
    BY ONLY <2>1, <2>2
  <2>5. DOMAIN portNo[r]' = Peers(r)
    BY ONLY <2>1, <2>3
  <2>6. \A q \in Peers(r) : portNo[r][q]' = IF q = t THEN portNo[r][t] + 1 ELSE portNo[r][q]
    BY ONLY <2>1, <2>3
  <2>7. ~(r > t) /\ ~Remains(r, t, Initial)
    BY <1>3, <1>7
  <2>8. portNo[r][t] \in Nat
    BY ONLY <2>1, t \in Peers(r)
  <2> QED BY ONLY <2>1, <2>4, <2>5, <2>6, <2>7, <2>8
<1>21. /\ Local(r)' /\ at' \in [Parties -> Positions] /\ at[r]' = a
       /\ \A u \in Parties \ {r} : at[u]' = at[u]
       /\ \A q \in Peers(r) \ {t} : SideKept(r, q)
       /\ Opening(r, t, x)
  <2>1. /\ TypesOk /\ Local(r) /\ setup' = setup /\ todo' = todo /\ initial' = initial /\ agents' = agents
        /\ status' = status /\ at' = [at EXCEPT ![r] = a] /\ a \in Positions
    BY <1>0, <1>1, <1>19
  <2>2. a.stage = "handshake" => t < r
    BY ONLY <1>19
  <2>3. /\ Local(r)' /\ at' \in [Parties -> Positions] /\ at[r]' = a
        /\ \A u \in Parties \ {r} : at[u]' = at[u]
        /\ \A q \in Peers(r) \ {t} : SideKept(r, q)
        /\ at[r].stage = "start" /\ a.stage = "open" => Opening(r, t, x)
        /\ at[r].stage = "open" /\ a.stage = "handshake" => Connected(r, t, x, a.connection)
    <3>1. /\ DOMAIN portNo[r]' = Peers(r) /\ x \in Purposes
          /\ \A q \in Peers(r) :
               portNo[r][q]' \in Nat /\ (r > q \/ Remains(r, q, Initial) => portNo[r][q]' = portNo[r][q])
      BY <1>20
    <3> QED BY ONLY <1>2, <2>1, <2>2, <3>1, r \in Parties, t \in Peers(r), Now(r) = Task(t, x),
                    StageMoves
  <2> QED BY ONLY <1>0, <1>19, <2>3
<1>22. Parties' = Parties /\ \A u : Host(u)' = Host(u) /\ \A v : Agreed(u, v)' = Agreed(u, v)
  BY <1>0, SetupKept
<1>23. /\ \A u \in Parties \ {r} : SameParty(u)
       /\ \A u \in Parties : Gone(u)' <=> Gone(u)
       /\ \A p, q : ToBind(p, q)' <=> ToBind(p, q)
       /\ \A p, q, z, d : Uses(p, q, z, d)' <=> Uses(p, q, z, d)
  <2>1. \A u \in Parties \ {r} : SameParty(u)
    BY ONLY <1>0, <1>20, <1>21 DEF SameParty
  <2> QED BY ONLY <1>0, <2>1 DEF Gone, ToBind, Uses
<1>24. \A d, p, q : Between(d, p, q)' <=> Between(d, p, q)
  BY ONLY <1>18 DEF Between
<1>25. \A p, q \in Parties : p < q /\ ~({p, q} = {r, t}) => LinkKept(p, q)
  <2> SUFFICES ASSUME NEW p \in Parties, NEW q \in Parties, ~({p, q} = {r, t}) PROVE LinkKept(p, q)
    OBVIOUS
  <2>1. ~(p = r /\ q = t)
    OBVIOUS
  <2>2. Sock(p, q)' = Sock(p, q)
    BY ONLY <1>17, <2>1 DEF Sock
  <2>3. \A d : Between(d, p, q) => connections[d]' = connections[d]
    BY ONLY <1>10, <1>18, <2>1 DEF Between
  <2> QED BY ONLY <1>24, <2>2, <2>3 DEF LinkKept
<1>26. TypesOk'
  <2>1. sockets' \subseteq SocketSet
    BY ONLY <1>1, <1>17 DEF TypesOk
  <2> QED BY <1>0, <1>1, <1>18, <1>20, <1>21, <2>1, SetupKept DEF TypesOk, Statuses
<1>27. SideKept(t, r)
  BY <1>0, <1>3, <1>23, PartyKept
<1>28. Pair(r, t)'
  <2>1. Sock(r, t)' = {s0}
    BY ONLY <1>12, <1>17 DEF Sock
  <2>2. \A z \in Purposes :
          /\ Unmet(t, r, z)' <=> Unmet(t, r, z)
          /\ Opens(t, r, z)' <=> Opens(t, r, z)
          /\ Opens(t, r, z) => at[t].port' = at[t].port
          /\ \A d \in Nat : Holds(t, r, z, d)' <=> Holds(t, r, z, d)
          /\ Remains(r, t, z)' <=> Remains(r, t, z)
          /\ Opens(r, t, z)' <=> z = x
    BY ONLY <1>21, <1>27 DEF SideKept, Opening
  <2>3. Awaits(r, t, x)'
    BY ONLY <2>2, x \in Purposes \ {Initial} DEF Awaits
  <2>4. \A d : Between(d, r, t) => connections[d]'.accepted = connections[d].accepted
    BY ONLY <1>18 DEF Between
  <2>5. Served(r, t)' /\ Met(r, t)'
    BY ONLY <1>5, <1>8, <1>23, <1>24, <2>2, <2>4 DEF Served, Met
  <2>6. Listens(r, t)' /\ Heard(r, t)'
    <3>1. Reached(r, t, x, s0)'
      BY ONLY <1>8, <1>13, <1>17, <2>2, x \in Purposes \ {Initial} DEF Reached
    <3> QED BY ONLY <2>1, <2>3, <3>1, x \in Purposes \ {Initial} DEF Listens, Heard
  <2>7. Told(r, t)'
    <3>1. Opens(t, r, Initial)' => at[t]'.port = Agreed(r, t)'
      BY ONLY <1>3, <1>5, <1>22, <2>2 DEF Told
    <3> QED BY ONLY <1>14, <2>2, <3>1 DEF Told
  <2>8. Post(r, t)'
    <3> SUFFICES ASSUME NEW d \in Nat, Uses(r, t, Initial, d)' PROVE Carries(r, t, d)'
      BY DEF Post
    <3>1. d = c
      BY <1>9, <1>23
    <3>2. Opens(r, t, x)' /\ Unmet(t, r, Corresponding(x))' /\ s0 \in Sock(r, t)'
      BY ONLY <1>8, <1>13, <2>1, <2>2, x \in Purposes \ {Initial}
    <3>3. connections[d]'.mail = <<s0.port>>
      BY ONLY <1>17, <1>18, <3>1
    <3>4. \A y \in Purposes \ {Initial} : ~Opens(t, r, y)'
      BY ONLY <1>14, <2>2
    <3> QED BY ONLY <3>2, <3>3, <3>4, x \in Purposes \ {Initial} DEF Carries
  <2>9. Ahead(r, t)'
    BY ONLY <1>5, <1>8, <1>11, <1>23, <2>2, r \in Parties DEF Ahead
  <2> QED BY ONLY <2>5, <2>6, <2>7, <2>8, <2>9 DEF Pair
<1>29. SocketsOk'
  <2>1. \A s \in sockets : s.host = Host(r) => s.port # port
    BY ONLY <1>16 DEF PortsInUse
  <2>2. \A s \in sockets : s.owner \in Parties
    BY ONLY <1>1 DEF TypesOk, SocketSet
  <2>3. \A p, q \in Parties : p < q /\ ToBind(p, q) => Host(p) # Host(r)
    <3> SUFFICES ASSUME NEW p \in Parties, NEW q \in Parties, p < q, ToBind(p, q), Host(p) = Host(r)
                 PROVE  FALSE
      OBVIOUS
    <3>1. CASE setup.oneHost
      <4>1. \A w \in Parties : ~Gone(w)
        BY ONLY <1>1, <3>1 DEF Staying
      <4> QED BY <1>6, <4>1, AllBound
    <3>2. CASE ~setup.oneHost
      <4>1. p = r
        BY ONLY <3>2, Host(p) = Host(r) DEF Host
      <4>2. q \in Peers(r)
        BY <4>1, PartiesNat
      <4> QED BY <1>7, <4>1, <4>2
    <3> QED BY <3>1, <3>2
  <2>4. \A s \in sockets' : s.owner < s.for /\ s.host = Host(s.owner) /\ ~Gone(s.owner)'
    BY ONLY <1>1, <1>3, <1>4, <1>17, <1>23, <2>2, r \in Parties DEF SocketsOk
  <2>5. \A s, u \in sockets' : s.host = u.host /\ s.port = u.port => s = u
    BY ONLY <1>1, <1>17, <2>1 DEF SocketsOk
  <2>6. \A s \in sockets' : \A p, q \in Parties :
          p < q /\ ToBind(p, q)' /\ s.host = Host(p) => s.port # Agreed(p, q)
    BY ONLY <1>1, <1>17, <1>23, <2>3 DEF SocketsOk
  <2> QED BY ONLY <1>22, <2>4, <2>5, <2>6 DEF SocketsOk
<1>30. Letters'
  <2> SUFFICES ASSUME NEW d \in (DOMAIN connections)'
               PROVE  /\ connections[d]'.server < connections[d]'.client
                      /\ connections[d]'.mail # <<>> =>
                           Uses(connections[d].server, connections[d].client, Initial, d)'
    BY DEF Letters
  <2>1. /\ d \in DOMAIN connections /\ connections[d].server < connections[d].client
        /\ connections[d]'.server = connections[d].server
        /\ connections[d]'.client = connections[d].client
    BY ONLY <1>1, <1>18, d \in (DOMAIN connections)' DEF Letters
  <2>2. connections[d]'.mail # <<>> =>
          Uses(connections[d].server, connections[d].client, Initial, d)
    <3>1. CASE d = c
      BY ONLY <1>9, <1>10, <3>1 DEF Between
    <3>2. CASE d # c
      BY ONLY <1>1, <1>18, <2>1, <3>2 DEF Letters
    <3> QED BY <3>1, <3>2
  <2>3. Uses(connections[d].server, connections[d].client, Initial, d) =>
          Uses(connections[d].server, connections[d].client, Initial, d)'
    BY ONLY <1>0, <2>1 DEF Uses
  <2> QED BY ONLY <2>1, <2>2, <2>3
<1> QED BY <1>0, <1>3, <1>21, <1>23, <1>25, <1>26, <1>28, <1>29, <1>30, StepKeeps

(* A client is told the port of the server that creates the agent that     *)
(* corresponds to its own.                                                 *)
LEMMA CreateAsClientKeeps ==
  ASSUME Inv, NEW r \in Parties, status[r] = "running", createAsClient(r)
  PROVE  Inv'
<1>0. /\ at[r].stage = "start" /\ Now(r).call = "create" /\ ~Serves(r)
      /\ setup' = setup /\ todo' = todo /\ sockets' = sockets /\ portNo' = portNo
      /\ initial' = initial /\ agents' = agents /\ status' = status
      /\ connections[initial[r][Now(r).peer]].mail # <<>>
      /\ connections' = [connections EXCEPT ![initial[r][Now(r).peer]].mail = Tail(@)]
      /\ at' = [at EXCEPT ![r] = [Start EXCEPT !.stage = "open",
                                    !.port = Head(connections[initial[r][Now(r).peer]].mail)]]
  BY DEF createAsClient, In
<1>1. TypesOk /\ Local(r) /\ SocketsOk /\ Letters
  BY DEF Inv
<1>2. todo[r] # <<>> /\ Planned(r, todo[r])
  BY <1>1, TaskAt
<1> PICK t \in Peers(r), y \in Purposes \ {Initial} : Now(r) = Task(t, y)
  BY <1>0, <1>1, TaskAt
<1>3. /\ t < r /\ ~(r < t) /\ Now(r).peer = t
      /\ t \in Parties /\ t # r /\ r \in Peers(t) /\ Initial \in Purposes /\ Parties \subseteq Nat
  <2>1. Now(r).peer = t
    BY DEF Task
  <2> QED BY <1>0, <2>1, OtherSide DEF Serves
<1>4. Pair(t, r) /\ Local(t)
  BY <1>3 DEF Inv
<1>5. Served(t, r) /\ Met(t, r) /\ Listens(t, r) /\ Heard(t, r) /\ Told(t, r) /\ Post(t, r) /\ Ahead(t, r)
  BY <1>4 DEF Pair
<1>6. Does(r, t, y)
  BY <1>2 DEF Does
<1>7. /\ Remains(r, t, y) /\ Unmet(r, t, y)
      /\ \A z \in Purposes : Remains(r, t, z) => rank(r, t, y) <= rank(r, t, z)
      /\ ~Remains(r, t, Initial)
  BY <1>0, <1>1, <1>6, DoingIs
<1>8. /\ Corresponding(Initial) = Initial
      /\ \A z \in Purposes : /\ Corresponding(z) \in Purposes /\ Corresponding(Corresponding(z)) = z
                             /\ z # Initial => Corresponding(z) # Initial
  BY CorrespondingInitial, CorrespondingTwice
<1> PICK c \in Nat : c = initial[r][t]
  BY <1>1 DEF Local
<1>9. Between(c, t, r) /\ c \in DOMAIN connections
  <2>1. Uses(r, t, Initial, c)
    BY <1>1, <1>7, UsesInitial
  <2>2. Holds(r, t, Initial, c)
    BY <2>1 DEF Holds
  <2> QED BY <1>3, <1>5, <2>2 DEF Met, Between
<1>10. /\ connections[c].mail # <<>> /\ connections' = [connections EXCEPT ![c].mail = Tail(@)]
       /\ at' = [at EXCEPT ![r] = [Start EXCEPT !.stage = "open", !.port = Head(connections[c].mail)]]
  BY ONLY <1>0, <1>3, c = initial[r][t]
<1>11. connections \in Seq(ConnectionSet) /\ connections[c] \in ConnectionSet
  BY <1>1, <1>9 DEF TypesOk
<1>12. Head(connections[c].mail) \in Nat /\ Tail(connections[c].mail) \in Seq(Nat)
  <2>1. connections[c].mail \in Seq(Nat)
    BY ONLY <1>11 DEF ConnectionSet
  <2> QED BY ONLY <1>10, <2>1
<1>13. Uses(t, r, Initial, c) /\ \A d \in Nat : Uses(t, r, Initial, d) => d = c
  <2>1. Uses(t, r, Initial, c)
    BY ONLY <1>1, <1>9, <1>10 DEF Letters, Between
  <2> QED BY <1>3, <1>4, <2>1, UsesInitial
<1>14. ASSUME ~Gone(t)
       PROVE  /\ Opens(t, r, Corresponding(y)) /\ Tail(connections[c].mail) = <<>>
              /\ \A s \in Sock(t, r) : s.port = Head(connections[c].mail)
  <2>1. Carries(t, r, c)
    BY ONLY <1>5, <1>10, <1>13, <1>14, c \in Nat DEF Post
  <2> PICK x \in Purposes \ {Initial}, s \in Sock(t, r) :
        Opens(t, r, x) /\ Unmet(r, t, Corresponding(x)) /\ connections[c].mail = <<s.port>>
    BY ONLY <2>1 DEF Carries
  <2>2. rank(r, t, y) <= rank(r, t, Corresponding(x))
    BY <1>7, <1>8 DEF Unmet
  <2>3. rank(t, r, x) <= rank(t, r, Corresponding(y))
    <3>1. Remains(t, r, Corresponding(y))
      BY ONLY <1>5, <1>7, <1>8, y \in Purposes \ {Initial} DEF Ahead
    <3>2. Does(t, r, x)
      BY DEF Opens
    <3> QED BY <1>3, <1>4, <1>8, <3>1, <3>2, DoingIs
  <2>4. /\ rank(t, r, x) \in Nat /\ rank(r, t, y) \in Nat
        /\ rank(r, t, Corresponding(x)) = rank(t, r, x)
        /\ rank(t, r, Corresponding(y)) = rank(r, t, y)
    <3>1. t \in Nat /\ r \in Nat /\ t # r /\ r # t
      BY <1>3
    <3> QED BY ONLY <3>1, x \in Purposes \ {Initial}, y \in Purposes \ {Initial}, SameRank
  <2>5. x = Corresponding(y)
    <3>1. rank(t, r, x) = rank(t, r, Corresponding(y))
      BY ONLY <2>2, <2>3, <2>4
    <3>2. t \in Nat /\ r \in Nat /\ t # r /\ Corresponding(y) \in Purposes
      BY <1>3, <1>8
    <3> QED BY ONLY <3>1, <3>2, x \in Purposes \ {Initial}, SameRank
  <2>6. \A o \in Sock(t, r) : o = s
    BY <1>5 DEF Listens
  <2>7. Head(<<s.port>>) = s.port /\ Tail(<<s.port>>) = <<>>
    OBVIOUS
  <2> QED BY ONLY <2>5, <2>6, <2>7, Opens(t, r, x), connections[c].mail = <<s.port>>
<1>15. /\ connections' \in Seq(ConnectionSet) /\ DOMAIN connections' = DOMAIN connections
       /\ connections[c]'.mail = Tail(connections[c].mail)
       /\ \A d \in DOMAIN connections :
            /\ connections[d]'.server = connections[d].server
            /\ connections[d]'.client = connections[d].client
            /\ connections[d]'.accepted = connections[d].accepted
            /\ d # c => connections[d]' = connections[d]
  <2>1. connections' = [connections EXCEPT ![c] = [connections[c] EXCEPT !.mail = Tail(connections[c].mail)]]
    BY ONLY <1>10
  <2>2. [connections[c] EXCEPT !.mail = Tail(connections[c].mail)] \in ConnectionSet
    BY ONLY <1>11, <1>12 DEF ConnectionSet
  <2>3. connections' \in Seq(ConnectionSet) /\ DOMAIN connections' = DOMAIN connections
    BY ONLY <1>9, <1>11, <2>1, <2>2
  <2>4. connections[c]' = [connections[c] EXCEPT !.mail = Tail(connections[c].mail)]
    BY ONLY <1>9, <1>11, <2>1
  <2>5. \A d \in DOMAIN connections : d # c => connections[d]' = connections[d]
    BY ONLY <1>9, <1>11, <2>1
  <2>6. /\ connections[c]'.server = connections[c].server
        /\ connections[c]'.client = connections[c].client
        /\ connections[c]'.accepted = connections[c].accepted
        /\ connections[c]'.mail = Tail(connections[c].mail)
    BY ONLY <1>11, <2>4 DEF ConnectionSet
  <2> QED BY ONLY <2>3, <2>5, <2>6
<1> PICK a : a = [Start EXCEPT !.stage = "open", !.port = Head(connections[c].mail)]
  OBVIOUS
<1>16. /\ a \in Positions /\ a.stage = "open" /\ a.port = Head(connections[c].mail)
       /\ at' = [at EXCEPT ![r] = a]
  <2>1. a \in Positions /\ a.stage = "open" /\ a.port = Head(connections[c].mail)
    BY <1>12 DEF Positions, Start, NoConnection
  <2> QED BY ONLY <1>10, <2>1, a = [Start EXCEPT !.stage = "open", !.port = Head(connections[c].mail)]
<1>17. /\ Local(r)' /\ at' \in [Parties -> Positions] /\ at[r]' = a
       /\ \A u \in Parties \ {r} : at[u]' = at[u]
       /\ \A q \in Peers(r) \ {t} : SideKept(r, q)
       /\ Opening(r, t, y)
  <2>1. /\ TypesOk /\ Local(r) /\ setup' = setup /\ todo' = todo /\ initial' = initial /\ agents' = agents
        /\ status' = status /\ at' = [at EXCEPT ![r] = a] /\ a \in Positions
    BY <1>0, <1>1, <1>16
  <2>2. a.stage = "handshake" => t < r
    BY ONLY <1>16
  <2>3. /\ Local(r)' /\ at' \in [Parties -> Positions] /\ at[r]' = a
        /\ \A u \in Parties \ {r} : at[u]' = at[u]
        /\ \A q \in Peers(r) \ {t} : SideKept(r, q)
        /\ at[r].stage = "start" /\ a.stage = "open" => Opening(r, t, y)
        /\ at[r].stage = "open" /\ a.stage = "handshake" => Connected(r, t, y, a.connection)
    <3>1. /\ DOMAIN portNo[r]' = Peers(r) /\ y \in Purposes
          /\ \A q \in Peers(r) :
               portNo[r][q]' \in Nat /\ (r > q \/ Remains(r, q, Initial) => portNo[r][q]' = portNo[r][q])
      BY <1>0, <1>1 DEF Local
    <3> QED BY ONLY <1>2, <2>1, <2>2, <3>1, r \in Parties, t \in Peers(r), Now(r) = Task(t, y),
                    StageMoves
  <2> QED BY ONLY <1>0, <1>16, <2>3
<1>18. Parties' = Parties /\ \A u : Host(u)' = Host(u) /\ \A v : Agreed(u, v)' = Agreed(u, v)
  BY <1>0, SetupKept
<1>19. /\ \A u \in Parties \ {r} : SameParty(u)
       /\ \A u \in Parties : Gone(u)' <=> Gone(u)
       /\ \A p, q : ToBind(p, q)' <=> ToBind(p, q)
       /\ \A p, q, z, d : Uses(p, q, z, d)' <=> Uses(p, q, z, d)
       /\ \A p, q : Sock(p, q)' = Sock(p, q)
  <2>1. \A u \in Parties \ {r} : SameParty(u)
    BY ONLY <1>0, <1>17 DEF SameParty
  <2> QED BY ONLY <1>0, <2>1 DEF Gone, ToBind, Uses, Sock
<1>20. \A d, p, q : Between(d, p, q)' <=> Between(d, p, q)
  BY ONLY <1>15 DEF Between
<1>21. \A p, q \in Parties : p < q /\ ~({p, q} = {r, t}) => LinkKept(p, q)
  <2> SUFFICES ASSUME NEW p \in Parties, NEW q \in Parties, ~({p, q} = {r, t}) PROVE LinkKept(p, q)
    OBVIOUS
  <2>1. ~(p = t /\ q = r)
    OBVIOUS
  <2>2. \A d : Between(d, p, q) => connections[d]' = connections[d]
    BY ONLY <1>9, <1>15, <2>1 DEF Between
  <2> QED BY ONLY <1>19, <1>20, <2>2 DEF LinkKept
<1>22. TypesOk'
  BY <1>0, <1>1, <1>15, <1>17, SetupKept DEF TypesOk, Statuses
<1>23. SideKept(t, r)
  BY <1>0, <1>3, <1>19, PartyKept
<1>24. Pair(t, r)'
  <2>1. \A z \in Purposes :
          /\ Unmet(r, t, z)' <=> Unmet(r, t, z)
          /\ \A d \in Nat : Holds(r, t, z, d)' <=> Holds(r, t, z, d)
          /\ Opens(r, t, z)' <=> z = y
          /\ Remains(t, r, z)' <=> Remains(t, r, z)
          /\ Opens(t, r, z)' <=> Opens(t, r, z)
          /\ Awaits(t, r, z)' <=> Awaits(t, r, z)
    BY ONLY <1>3, <1>17, <1>23 DEF SideKept, Opening, Awaits
  <2>2. \A d : Between(d, t, r) => connections[d]'.accepted = connections[d].accepted
    BY ONLY <1>15 DEF Between
  <2>3. Served(t, r)' /\ Met(t, r)'
    BY ONLY <1>5, <1>8, <1>19, <1>20, <2>1, <2>2 DEF Served, Met
  <2>4. Listens(t, r)' /\ Heard(t, r)'
    <3>1. \A s : \A x \in Purposes : Reached(t, r, x, s)' <=> Reached(t, r, x, s)
      BY ONLY <1>8, <1>20, <2>1, <2>2 DEF Reached
    <3>2. Listens(t, r)'
      BY ONLY <1>5, <1>18, <1>19, <2>1, <3>1 DEF Listens
    <3> QED BY ONLY <1>3, <1>5, <1>19, <2>1, <3>2 DEF Heard
  <2>5. Told(t, r)'
    <3>1. ~Opens(r, t, Initial)'
      BY ONLY <1>3, <2>1, y \in Purposes \ {Initial}
    <3>2. at[r]'.port = Head(connections[c].mail)
      BY ONLY <1>16, <1>17
    <3>3. ~Gone(t)' => Opens(t, r, Corresponding(y))' /\ \A s \in Sock(t, r)' : s.port = at[r]'.port
      BY ONLY <1>3, <1>8, <1>14, <1>19, <2>1, <3>2, y \in Purposes \ {Initial}
    <3> QED BY ONLY <2>1, <3>1, <3>3 DEF Told
  <2>6. Post(t, r)'
    BY ONLY <1>3, <1>13, <1>14, <1>15, <1>19 DEF Post
  <2>7. Ahead(t, r)'
    BY ONLY <1>3, <1>5, <1>8, <1>19, <2>1 DEF Ahead
  <2> QED BY ONLY <2>3, <2>4, <2>5, <2>6, <2>7 DEF Pair
<1>25. SocketsOk'
  <2>1. \A s \in sockets : s.owner \in Parties
    BY ONLY <1>1 DEF TypesOk, SocketSet
  <2> QED BY ONLY <1>0, <1>1, <1>18, <1>19, <2>1 DEF SocketsOk
<1>26. Letters'
  <2>1. \A d \in DOMAIN connections' : connections[d]'.server < connections[d]'.client
    BY ONLY <1>1, <1>15 DEF Letters
  <2>2. \A d \in DOMAIN connections' : connections[d]'.mail # <<>> =>
           /\ d \in DOMAIN connections /\ connections[d].mail # <<>>
           /\ connections[d]'.server = connections[d].server
           /\ connections[d]'.client = connections[d].client
    BY ONLY <1>10, <1>15
  <2> QED BY <1>1, <1>11, <1>18, <1>19, <2>1, <2>2, LettersKept
<1> QED BY <1>0, <1>3, <1>17, <1>19, <1>21, <1>22, <1>24, <1>25, <1>26, StepKeeps

-----------------------------------------------------------------------------
(* Every step.                                                             *)

(* What a step does to the setup and to who has left, whatever is true.    *)
LEMMA ActStatus ==
  ASSUME status \in [Parties -> Statuses], NEW r \in Parties, Act(r)
  PROVE  setup' = setup /\ \E h \in Statuses : status' = [status EXCEPT ![r] = h]
<1>1. status = [status EXCEPT ![r] = status[r]] /\ status[r] \in Statuses
  OBVIOUS
<1>2. \A c : Finish(r, c) => \E h \in Statuses : status' = [status EXCEPT ![r] = h]
  <2> SUFFICES ASSUME NEW c, Finish(r, c) PROVE \E h \in Statuses : status' = [status EXCEPT ![r] = h]
    OBVIOUS
  <2> PICK h : h = IF Len(todo[r]) = 1 THEN "done" ELSE status[r]
    OBVIOUS
  <2>1. h \in Statuses
    BY <1>1 DEF Statuses
  <2>2. status' = [status EXCEPT ![r] = h]
    BY DEF Finish
  <2> QED BY <2>1, <2>2
<1>3. \A how \in {"thrown", "aborted", "spinning"} :
        End(r, how) => setup' = setup /\ \E h \in Statuses : status' = [status EXCEPT ![r] = h]
  BY DEF End, Statuses
<1>4. CASE Bind(r) \/ openServerPort(r) \/ openClientPort(r)
  BY ONLY <1>2, <1>4 DEF Bind, openServerPort, openClientPort
<1>5. CASE openInitial(r) \/ createAsServer(r) \/ createAsClient(r) \/ openClientPortWithTls(r)
  BY ONLY <1>1, <1>5 DEF openInitial, createAsServer, createAsClient, openClientPortWithTls
<1>6. CASE recvFromNobody(r)
  <2>1. \E how \in {"thrown", "aborted", "spinning"} : End(r, how)
    BY ONLY <1>6 DEF recvFromNobody
  <2> QED BY <1>3, <2>1
<1>7. CASE openServerPortWithTls(r)
  <2>1. End(r, "thrown") \/ (setup' = setup /\ \E c : Finish(r, c))
    BY ONLY <1>7 DEF openServerPortWithTls
  <2> QED BY ONLY <1>2, <1>3, <2>1
<1>8. CASE handshake(r)
  <2>1. End(r, "thrown") \/ (setup' = setup /\ \E c : Finish(r, c))
    BY ONLY <1>8 DEF handshake
  <2> QED BY ONLY <1>2, <1>3, <2>1
<1>9. CASE openFails(r)
  BY ONLY <1>3, <1>9 DEF openFails
<1> QED BY ONLY <1>4, <1>5, <1>6, <1>7, <1>8, <1>9, Act(r) DEF Act

(* Who throws or fails an assertion and keeps its ports has a host of its  *)
(* own.                                                                    *)
LEMMA LeavesAHost ==
  ASSUME NEW r \in Parties, status \in [Parties -> Statuses], End(r, "thrown") \/ End(r, "aborted"),
         PortsKept'
  PROVE  ~setup.oneHost
<1>1. setup' = setup /\ Left(r)'
  BY DEF End, Left
<1>2. Parties' = Parties
  BY <1>1 DEF Parties
<1> QED BY <1>1, <1>2 DEF PortsKept

(* Every step of a party.                                                  *)
LEMMA ActKeeps ==
  ASSUME Inv, InitialPortsFree, PortsKept, PortsKept', NEW r \in Parties, Act(r)
  PROVE  Inv'
<1>1. status[r] = "running" /\ status \in [Parties -> Statuses] /\ TypesOk /\ Local(r)
  BY DEF Act, Inv, TypesOk
<1>2. CASE Bind(r)
  BY <1>1, <1>2, BindKeeps
<1>3. CASE openInitial(r)
  BY <1>1, <1>3, OpenInitialKeeps
<1>4. CASE createAsServer(r)
  BY <1>1, <1>4, CreateAsServerKeeps
<1>5. CASE createAsClient(r)
  BY <1>1, <1>5, CreateAsClientKeeps
<1>6. CASE recvFromNobody(r)
  <2>1. /\ at[r].stage = "start" /\ Now(r).call = "create" /\ ~Serves(r)
        /\ Left(Other(r, initial[r][Now(r).peer]))
        /\ \E how \in {"thrown", "aborted", "spinning"} : End(r, how)
    BY ONLY <1>6 DEF recvFromNobody, In
  <2> PICK t \in Peers(r), x \in Purposes \ {Initial} : Now(r) = Task(t, x)
    BY <1>1, <2>1, TaskAt
  <2>2. Now(r).peer = t /\ t < r /\ t \in Parties /\ t # r /\ Initial \in Purposes
    <3>1. Now(r).peer = t
      BY DEF Task
    <3> QED BY <2>1, <3>1, OtherSide DEF Serves
  <2> PICK c \in Nat : c = initial[r][t]
    BY <1>1 DEF Local
  <2>3. Between(c, t, r)
    <3>1. Does(r, t, x)
      BY <1>1, TaskAt DEF Does
    <3>2. ~Remains(r, t, Initial)
      BY <1>1, <3>1, DoingIs
    <3>3. Holds(r, t, Initial, c)
      BY <1>1, <3>2, UsesInitial DEF Holds
    <3> QED BY <2>2, <3>3 DEF Inv, Pair, Met
  <2>4. Other(r, c) \in Parties
    BY <2>2, <2>3 DEF Other, Between
  <2>5. Left(Other(r, c))
    BY ONLY <2>1, <2>2, c = initial[r][t]
  <2>6. ~setup.oneHost
    BY ONLY <2>4, <2>5, PortsKept DEF PortsKept
  <2> QED BY <2>1, <2>6, EndKeeps
<1>7. CASE openServerPort(r)
  BY <1>1, <1>7, AcceptKeeps DEF openServerPort
<1>8. CASE openServerPortWithTls(r)
  <2> PICK s \in sockets :
        /\ receiveFromClient(r, s)
        /\ \/ End(r, "thrown")
           \/ /\ sockets' = sockets \ {s} /\ setup' = setup /\ portNo' = portNo
              /\ connections' = [connections EXCEPT ![Head(s.connected)].accepted = TRUE]
              /\ Finish(r, Head(s.connected))
    BY ONLY <1>8 DEF openServerPortWithTls
  <2>1. CASE End(r, "thrown")
    BY <1>1, <2>1, LeavesAHost, EndKeeps
  <2> QED BY <1>1, <2>1, AcceptKeeps
<1>9. CASE openClientPort(r)
  BY <1>1, <1>9, OpenClientPortKeeps
<1>10. CASE openClientPortWithTls(r)
  BY <1>1, <1>10, OpenClientPortWithTlsKeeps
<1>11. CASE handshake(r)
  <2>1. \/ /\ at[r].stage = "handshake" /\ Finish(r, at[r].connection)
           /\ UNCHANGED <<setup, sockets, portNo, connections>>
        \/ End(r, "thrown")
    BY ONLY <1>11 DEF handshake, In
  <2>2. CASE End(r, "thrown")
    BY <1>1, <2>2, LeavesAHost, EndKeeps
  <2> QED BY <1>1, <2>1, <2>2, HandshakeKeeps
<1>12. CASE openFails(r)
  <2>1. End(r, "thrown")
    BY <1>12 DEF openFails
  <2> QED BY <1>1, <2>1, LeavesAHost, EndKeeps
<1> QED BY ONLY <1>2, <1>3, <1>4, <1>5, <1>6, <1>7, <1>8, <1>9, <1>10, <1>11, <1>12, Act(r) DEF Act

(* The inductive invariant.                                                *)
IInv ==
  /\ setup \in Setups /\ status \in [Parties -> Statuses]
  /\ InitialPortsFree /\ PortsKept => Inv

(* Every step of the specification. *)
LEMMA StepHolds ==
  ASSUME IInv, [Next]_vars
  PROVE  IInv'
<1>1. CASE UNCHANGED vars
  <2>1. /\ setup' = setup /\ todo' = todo /\ at' = at /\ sockets' = sockets /\ portNo' = portNo
        /\ connections' = connections /\ initial' = initial /\ agents' = agents /\ status' = status
    BY <1>1 DEF vars
  <2>2. /\ Parties' = Parties /\ \A u : Peers(u)' = Peers(u) /\ Host(u)' = Host(u)
        /\ \A p : Now(p)' = Now(p) /\ (Left(p)' <=> Left(p)) /\ (Gone(p)' <=> Gone(p))
        /\ Statuses' = Statuses
    BY ONLY <2>1 DEF Parties, Peers, Host, Now, Left, Gone, Statuses
  <2>3. (InitialPortsFree' <=> InitialPortsFree) /\ (PortsKept' <=> PortsKept)
    BY ONLY <2>1, <2>2 DEF InitialPortsFree, PortsKept
  <2>4. Inv => Inv'
    <3> SUFFICES ASSUME Inv PROVE Inv'
      OBVIOUS
    <3>1. \A p \in Parties : Local(p)' /\ \A q \in Peers(p) : SideKept(p, q)
      BY <2>1, PartyKept DEF Inv, SameParty
    <3>2. \A p, q \in Parties : p < q => Pair(p, q)'
      <4> SUFFICES ASSUME NEW p \in Parties, NEW q \in Parties, p < q PROVE Pair(p, q)'
        OBVIOUS
      <4>1. q \in Peers(p) /\ p \in Peers(q)
        BY PartiesNat
      <4>2. LinkKept(p, q)
        BY ONLY <2>1 DEF LinkKept, Sock, Between
      <4> QED BY <2>1, <2>2, <3>1, <4>1, <4>2, SidesKept, PairKept DEF Inv
    <3>3. TypesOk'
      BY <2>1, SetupKept DEF Inv, TypesOk, Statuses
    <3>4. SocketsOk'
      <4>1. \A p, q : (ToBind(p, q)' <=> ToBind(p, q)) /\ Agreed(p, q)' = Agreed(p, q)
        BY ONLY <2>1 DEF ToBind, Agreed
      <4>2. SocketsOk
        BY DEF Inv
      <4> QED BY ONLY <2>1, <2>2, <4>1, <4>2 DEF SocketsOk
    <3>5. Letters' /\ Staying'
      <4>1. Letters /\ Staying
        BY DEF Inv
      <4>2. Letters'
        BY ONLY <2>1, <4>1 DEF Letters, Uses
      <4>3. Staying'
        BY ONLY <2>1, <2>2, <4>1 DEF Staying
      <4> QED BY <4>2, <4>3
    <3> QED BY ONLY <2>2, <3>1, <3>2, <3>3, <3>4, <3>5 DEF Inv
  <2> QED BY ONLY <2>1, <2>2, <2>3, <2>4, IInv DEF IInv
<1>2. ASSUME NEW r \in Parties, Act(r) PROVE IInv'
  <2>1. setup \in Setups /\ status \in [Parties -> Statuses]
    BY DEF IInv
  <2> PICK h \in Statuses : setup' = setup /\ status' = [status EXCEPT ![r] = h]
    BY <1>2, <2>1, ActStatus
  <2>2. /\ Parties' = Parties /\ \A u : Host(u)' = Host(u)
        /\ Statuses' = Statuses
    BY DEF Parties, Host, Statuses
  <2>3. setup' \in Setups /\ status' \in [Parties' -> Statuses']
    BY ONLY <2>1, <2>2, setup' = setup, status' = [status EXCEPT ![r] = h], h \in Statuses
  <2>4. InitialPortsFree' <=> InitialPortsFree
    BY ONLY <2>2, setup' = setup DEF InitialPortsFree
  <2>5. PortsKept' => PortsKept
    <3>1. status[r] = "running"
      BY <1>2 DEF Act
    <3>2. \A p \in Parties : Left(p) => Left(p)'
      BY ONLY <2>1, <3>1, status' = [status EXCEPT ![r] = h] DEF Left
    <3> QED BY ONLY <2>2, <3>2, setup' = setup DEF PortsKept
  <2>6. InitialPortsFree /\ PortsKept' => Inv'
    <3> SUFFICES ASSUME InitialPortsFree, PortsKept' PROVE Inv'
      OBVIOUS
    <3>1. Inv /\ PortsKept
      BY <2>5 DEF IInv
    <3> QED BY <1>2, <3>1, ActKeeps
  <2> QED BY ONLY <2>2, <2>3, <2>4, <2>6 DEF IInv
<1> QED BY <1>1, <1>2 DEF Next

(* The two ends of every connection are the agents of two parties for each *)
(* other and for matching purposes.                                        *)
THEOREM AgentsArePaired == Spec => []AgentsPaired
<1>1. Init => IInv
  <2> SUFFICES ASSUME Init PROVE IInv
    OBVIOUS
  <2>1. Inv
    BY InitHolds
  <2> QED BY <2>1 DEF IInv, Inv, TypesOk
<1>2. IInv /\ [Next]_vars => IInv'
  BY StepHolds
<1>3. IInv => AgentsPaired
  BY PairsAgree DEF IInv, AgentsPaired
<1> QED BY <1>1, <1>2, <1>3, PTL DEF Spec
=============================================================================
