----------------------------- MODULE LspProofs -----------------------------
(***************************************************************************)
(* Proofs about LspServer: the overlay of the language server follows the  *)
(* buffers of the editor, and what it shows and answers is current, for    *)
(* every set of files, directories and configs and every bound.            *)
(***************************************************************************)
EXTENDS LspServer, SequenceTheorems, TLAPS

-----------------------------------------------------------------------------
(* The stream of messages, and the overlay and the buffers at its ends *)

SyncTypes == {"didOpen", "didChange", "didClose"}
MessageType == SyncTypes \cup Requests \cup {"didSave", "shutdown", "exit"}
Messages == [type : MessageType, file : File \cup {NoFile}, text : Text \cup {Missing}]

\* The file and the text a message has with its type.
Carries(m) ==
    /\ m.type \in SyncTypes \cup Requests => m.file \in File
    /\ m.type \in {"didOpen", "didChange"} => m.text \in Text

\* m sets what the overlay has of f ...
About(m, f) == m.file = f /\ m.type \in SyncTypes

\* ... to this.
Leaves(m) == IF m.type = "didClose" THEN Closed ELSE m.text

WellFormed(q) == q \in Seq(Messages) /\ \A i \in 1..Len(q) : Carries(q[i])

\* With the messages q on their way, d is what the server has of the buffers
\* b: the last message about a file left it as it is in the editor.
EndsIn(q, d, b) ==
    \A f \in File :
        /\ (\A i \in 1..Len(q) : ~About(q[i], f)) => d[f] = b[f]
        /\ \A i \in 1..Len(q) :
              About(q[i], f) /\ (\A j \in (i + 1)..Len(q) : ~About(q[j], f)) => Leaves(q[i]) = b[f]

\* A file is opened when the server has it closed, and only then.
Alternates(q, d) ==
    \A f \in File : \A i \in 1..Len(q) : About(q[i], f) =>
        /\ (\A j \in 1..(i - 1) : ~About(q[j], f)) => (q[i].type = "didOpen" <=> d[f] = Closed)
        /\ \A j \in 1..(i - 1) :
              About(q[j], f) /\ (\A k \in (j + 1)..(i - 1) : ~About(q[k], f))
              => (q[i].type = "didOpen" <=> q[j].type = "didClose")

Stream(q, d, b) == WellFormed(q) /\ EndsIn(q, d, b) /\ Alternates(q, d)

\* A message that leaves a file closed is a didClose.
LEMMA LeavesClosed ==
    ASSUME NEW m \in Messages, Carries(m), m.type \in SyncTypes
    PROVE  Leaves(m) = Closed <=> m.type = "didClose"
BY DEF Carries, Leaves, SyncTypes, Text, Closed

\* The editor sends one more message and changes its buffers with it.
LEMMA SendKeepsStream ==
    ASSUME NEW q, NEW d, NEW b, Stream(q, d, b), NEW m \in Messages, Carries(m),
           NEW c, \A f \in File : c[f] = IF About(m, f) THEN Leaves(m) ELSE b[f],
           \A f \in File : About(m, f) => (m.type = "didOpen" <=> b[f] = Closed)
    PROVE  Stream(Append(q, m), d, c)
<1>1. PICK r : r = Append(q, m)
  OBVIOUS
<1>2. PICK n \in Nat : n = Len(q)
  BY LenProperties DEF Stream, WellFormed
<1>3. /\ q \in Seq(Messages) /\ (\A i \in 1..n : q[i] \in Messages /\ Carries(q[i]))
      /\ r \in Seq(Messages) /\ Len(r) = n + 1
      /\ \A i \in 1..n : r[i] = q[i]
      /\ r[n + 1] = m
  BY <1>1, <1>2, AppendProperties, ElementOfSeq DEF Stream, WellFormed
<1>4. WellFormed(r)
  BY <1>2, <1>3 DEF WellFormed
<1>5. EndsIn(r, d, c)
  <2> SUFFICES ASSUME NEW f \in File
               PROVE  /\ (\A i \in 1..(n + 1) : ~About(r[i], f)) => d[f] = c[f]
                      /\ \A i \in 1..(n + 1) :
                            About(r[i], f) /\ (\A j \in (i + 1)..(n + 1) : ~About(r[j], f))
                            => Leaves(r[i]) = c[f]
    BY <1>3 DEF EndsIn
  <2>1. n + 1 \in 1..(n + 1) /\ \A i \in 1..n : i \in 1..(n + 1) /\ n + 1 \in (i + 1)..(n + 1)
    BY <1>2
  <2>2. CASE About(m, f)
    <3>1. c[f] = Leaves(m)
      BY <2>2
    <3>2. ASSUME NEW i \in 1..(n + 1), \A j \in (i + 1)..(n + 1) : ~About(r[j], f) PROVE i = n + 1
      BY <1>2, <1>3, <2>1, <2>2, <3>2
    <3> QED
      BY <1>3, <2>1, <2>2, <3>1, <3>2
  <2>3. CASE ~About(m, f)
    <3>1. c[f] = b[f]
      BY <2>3
    <3>2. ASSUME \A i \in 1..(n + 1) : ~About(r[i], f) PROVE d[f] = b[f]
      BY <1>2, <1>3, <2>1, <3>2 DEF Stream, EndsIn
    <3>3. ASSUME NEW i \in 1..(n + 1), About(r[i], f), \A j \in (i + 1)..(n + 1) : ~About(r[j], f)
          PROVE  Leaves(r[i]) = b[f]
      <4>1. i \in 1..n /\ r[i] = q[i]
        BY <1>2, <1>3, <2>3, <3>3
      <4>2. \A j \in (i + 1)..n : ~About(q[j], f)
        BY <1>2, <1>3, <3>3, <4>1
      <4> QED
        BY <1>2, <3>3, <4>1, <4>2 DEF Stream, EndsIn
    <3> QED
      BY <3>1, <3>2, <3>3
  <2> QED
    BY <2>2, <2>3
<1>6. Alternates(r, d)
  <2> SUFFICES ASSUME NEW f \in File, NEW i \in 1..(n + 1), About(r[i], f)
               PROVE  /\ (\A j \in 1..(i - 1) : ~About(r[j], f)) => (r[i].type = "didOpen" <=> d[f] = Closed)
                      /\ \A j \in 1..(i - 1) :
                            About(r[j], f) /\ (\A k \in (j + 1)..(i - 1) : ~About(r[k], f))
                            => (r[i].type = "didOpen" <=> r[j].type = "didClose")
    BY <1>3 DEF Alternates
  <2>1. \A j \in 1..(i - 1) : j \in 1..n /\ r[j] = q[j]
    BY <1>2, <1>3
  <2>2. \A j \in 1..(i - 1) : \A k \in (j + 1)..(i - 1) : r[k] = q[k]
    BY <1>2, <1>3
  <2>3. CASE i \in 1..n
    <3>1. r[i] = q[i] /\ About(q[i], f)
      BY <1>3, <2>3
    <3> QED
      BY <1>2, <2>1, <2>2, <2>3, <3>1 DEF Stream, Alternates
  <2>4. CASE i = n + 1
    <3>1. r[i] = m /\ i - 1 = n /\ (m.type = "didOpen" <=> b[f] = Closed)
      BY <1>2, <1>3, <2>4
    <3>2. ASSUME \A j \in 1..n : ~About(r[j], f) PROVE m.type = "didOpen" <=> d[f] = Closed
      BY <1>2, <1>3, <3>1, <3>2 DEF Stream, EndsIn
    <3>3. ASSUME NEW j \in 1..n, About(r[j], f), \A k \in (j + 1)..n : ~About(r[k], f)
          PROVE  m.type = "didOpen" <=> r[j].type = "didClose"
      <4>1. q[j] = r[j] /\ About(q[j], f) /\ \A k \in (j + 1)..n : ~About(q[k], f)
        BY <1>2, <1>3, <3>3
      <4>2. Leaves(q[j]) = b[f]
        BY <1>2, <4>1 DEF Stream, EndsIn
      <4>3. Leaves(q[j]) = Closed <=> q[j].type = "didClose"
        BY <1>3, <4>1, LeavesClosed DEF About
      <4> QED
        BY <3>1, <4>1, <4>2, <4>3
    <3> QED
      BY <3>1, <3>2, <3>3
  <2> QED
    BY <1>2, <2>3, <2>4
<1> QED
  BY <1>1, <1>4, <1>5, <1>6 DEF Stream

\* The server handles the first message and changes its overlay with it.
LEMMA ReceiveKeepsStream ==
    ASSUME NEW q, NEW d, NEW b, Stream(q, d, b), q # << >>,
           NEW e, \A f \in File : e[f] = IF About(Head(q), f) THEN Leaves(Head(q)) ELSE d[f]
    PROVE  Stream(Tail(q), e, b)
<1>1. PICK r : r = Tail(q)
  OBVIOUS
<1>2. PICK n \in Nat : n = Len(q) - 1
  BY EmptySeq DEF Stream, WellFormed
<1>3. /\ q \in Seq(Messages) /\ Len(q) = n + 1
      /\ (\A i \in 1..(n + 1) : q[i] \in Messages /\ Carries(q[i]))
      /\ r \in Seq(Messages) /\ Len(r) = n
      /\ \A i \in 1..n : i + 1 \in 1..(n + 1) /\ r[i] = q[i + 1]
  <2>1. q \in Seq(Messages) /\ Len(q) = n + 1
    BY <1>2 DEF Stream, WellFormed
  <2>2. r \in Seq(Messages) /\ Len(r) = n /\ \A i \in 1..n : r[i] = q[i + 1]
    BY <1>1, <1>2, <2>1, HeadTailProperties
  <2> QED
    BY <1>2, <2>1, <2>2, ElementOfSeq DEF Stream, WellFormed
<1>4. Head(q) = q[1] /\ 1 \in 1..(n + 1)
  BY <1>2
<1>5. \A i \in 1..(n + 1) : i = 1 \/ (i - 1 \in 1..n /\ q[i] = r[i - 1])
  BY <1>2, <1>3
<1>6. WellFormed(r)
  BY <1>3 DEF WellFormed
<1>7. ASSUME NEW f \in File, About(q[1], f)
      PROVE  e[f] = Leaves(q[1]) /\ (e[f] = Closed <=> q[1].type = "didClose")
  BY <1>3, <1>4, <1>7, LeavesClosed DEF About
<1>8. ASSUME NEW f \in File, ~About(q[1], f) PROVE e[f] = d[f]
  BY <1>4, <1>8
<1>9. EndsIn(r, e, b)
  <2> SUFFICES ASSUME NEW f \in File
               PROVE  /\ (\A i \in 1..n : ~About(r[i], f)) => e[f] = b[f]
                      /\ \A i \in 1..n :
                            About(r[i], f) /\ (\A j \in (i + 1)..n : ~About(r[j], f))
                            => Leaves(r[i]) = b[f]
    BY <1>3 DEF EndsIn
  <2>1. ASSUME \A i \in 1..n : ~About(r[i], f) PROVE e[f] = b[f]
    <3>1. \A i \in (1 + 1)..(n + 1) : ~About(q[i], f)
      <4> SUFFICES ASSUME NEW i \in 2..(n + 1) PROVE ~About(q[i], f)
        OBVIOUS
      <4>1. i - 1 \in 1..n /\ q[i] = r[i - 1]
        BY <1>2, <1>5
      <4> QED
        BY <2>1, <4>1
    <3>2. CASE About(q[1], f)
      BY <1>3, <1>4, <1>7, <3>1, <3>2 DEF Stream, EndsIn
    <3>3. CASE ~About(q[1], f)
      <4>1. \A i \in 1..(n + 1) : ~About(q[i], f)
        BY <1>5, <2>1, <3>3
      <4> QED
        BY <1>3, <1>8, <3>3, <4>1 DEF Stream, EndsIn
    <3> QED
      BY <3>2, <3>3
  <2>2. ASSUME NEW i \in 1..n, About(r[i], f), \A j \in (i + 1)..n : ~About(r[j], f)
        PROVE  Leaves(r[i]) = b[f]
    <3>1. \A j \in ((i + 1) + 1)..(n + 1) : ~About(q[j], f)
      <4> SUFFICES ASSUME NEW j \in (i + 2)..(n + 1) PROVE ~About(q[j], f)
        OBVIOUS
      <4>1. j \in 1..(n + 1) /\ j # 1 /\ j - 1 \in (i + 1)..n
        BY <1>2
      <4>2. q[j] = r[j - 1]
        BY <1>5, <4>1
      <4> QED
        BY <2>2, <4>1, <4>2
    <3> QED
      BY <1>3, <2>2, <3>1 DEF Stream, EndsIn
  <2> QED
    BY <2>1, <2>2
<1>10. Alternates(r, e)
  <2> SUFFICES ASSUME NEW f \in File, NEW i \in 1..n, About(r[i], f)
               PROVE  /\ (\A j \in 1..(i - 1) : ~About(r[j], f)) => (r[i].type = "didOpen" <=> e[f] = Closed)
                      /\ \A j \in 1..(i - 1) :
                            About(r[j], f) /\ (\A k \in (j + 1)..(i - 1) : ~About(r[k], f))
                            => (r[i].type = "didOpen" <=> r[j].type = "didClose")
    BY <1>3 DEF Alternates
  <2>1. i + 1 \in 1..(n + 1) /\ q[i + 1] = r[i] /\ About(q[i + 1], f) /\ (i + 1) - 1 = i
    BY <1>3
  <2>2. /\ (\A j \in 1..i : ~About(q[j], f)) => (q[i + 1].type = "didOpen" <=> d[f] = Closed)
        /\ \A j \in 1..i :
              About(q[j], f) /\ (\A k \in (j + 1)..i : ~About(q[k], f))
              => (q[i + 1].type = "didOpen" <=> q[j].type = "didClose")
    BY <1>3, <2>1 DEF Stream, Alternates
  <2>3. ASSUME \A j \in 1..(i - 1) : ~About(r[j], f) PROVE r[i].type = "didOpen" <=> e[f] = Closed
    <3>1. \A k \in (1 + 1)..i : ~About(q[k], f)
      <4> SUFFICES ASSUME NEW k \in 2..i PROVE ~About(q[k], f)
        OBVIOUS
      <4>1. k \in 1..(n + 1) /\ k # 1 /\ k - 1 \in 1..(i - 1)
        BY <1>2
      <4>2. q[k] = r[k - 1]
        BY <1>5, <4>1
      <4> QED
        BY <2>3, <4>1, <4>2
    <3>2. 1 \in 1..i
      OBVIOUS
    <3>3. CASE About(q[1], f)
      BY <1>7, <2>1, <2>2, <3>1, <3>2, <3>3
    <3>4. CASE ~About(q[1], f)
      <4>1. \A j \in 1..i : j = 1 \/ j \in (1 + 1)..i
        OBVIOUS
      <4> QED
        BY <1>8, <2>1, <2>2, <3>1, <3>4, <4>1
    <3> QED
      BY <3>3, <3>4
  <2>4. ASSUME NEW j \in 1..(i - 1), About(r[j], f), \A k \in (j + 1)..(i - 1) : ~About(r[k], f)
        PROVE  r[i].type = "didOpen" <=> r[j].type = "didClose"
    <3>1. j + 1 \in 1..i /\ q[j + 1] = r[j] /\ About(q[j + 1], f)
      BY <1>2, <1>3, <2>4
    <3>2. \A k \in ((j + 1) + 1)..i : ~About(q[k], f)
      <4> SUFFICES ASSUME NEW k \in (j + 2)..i PROVE ~About(q[k], f)
        OBVIOUS
      <4>1. k \in 1..(n + 1) /\ k # 1 /\ k - 1 \in (j + 1)..(i - 1)
        BY <1>2
      <4>2. q[k] = r[k - 1]
        BY <1>5, <4>1
      <4> QED
        BY <2>4, <4>1, <4>2
    <3> QED
      BY <2>1, <2>2, <3>1, <3>2
  <2> QED
    BY <2>3, <2>4
<1> QED
  BY <1>1, <1>6, <1>9, <1>10 DEF Stream

-----------------------------------------------------------------------------
(* Types *)

\* Texts of some of the files, and a symbol index built from them.
Loads == UNION {[S -> Text] : S \in SUBSET File}
Symbols == {s \in [texts : Loads, root : SUBSET File] : DOMAIN s.texts \subseteq s.root}
Project == [cfg : Config, openFiles : SUBSET File, symbols : Symbols]

TaskIsWellFormed ==
    /\ task.step \in {"idle", "list", "read", "publish", "graph"}
    /\ task.step # "idle" => task.project \in Dir
    /\ task.step \in {"list", "read"} => task.round \in {1, 2} /\ (task.round = 1 => task.loaded = << >>)
    /\ task.step = "read" => task.listed \subseteq Root.tree
    /\ task.step = "graph" => task.listed \subseteq File /\ task.from \in File

Types ==
    /\ disk \in [File -> Text \cup {Missing}]
    /\ conf \in [Dir -> Config]
    /\ buffer \in [File -> Text \cup {Closed}]
    /\ shown \in [File -> Diagnostic]
    /\ docs \in [File -> Text \cup {Closed}]
    /\ projects \in [Dir -> Project]
    /\ TaskIsWellFormed
    /\ unchanged \subseteq Dir
    /\ budget \in [messages : 0..MaxMessages, edits : Nat, configs : Nat]

LEMMA NothingIsLoaded == << >> \in Loads /\ DOMAIN << >> = {} /\ NoSymbols \in Symbols
<1>1. << >> \in [{} -> Text]
  OBVIOUS
<1>2. << >> \in Loads /\ DOMAIN << >> = {}
  BY <1>1 DEF Loads
<1> QED
  BY <1>2 DEF NoSymbols, Symbols

LEMMA AbsentIsConfig == Absent \in Config
BY DEF Absent, Config

LEMMA InitTypes == Init => Types
<1> SUFFICES ASSUME Init PROVE Types
  OBVIOUS
<1>1. disk \in [File -> Text \cup {Missing}] /\ conf \in [Dir -> Config]
  BY StartAssumption DEF Init
<1>2. projects \in [Dir -> Project]
  BY AbsentIsConfig, NothingIsLoaded DEF Init, Project
<1>3. TaskIsWellFormed
  BY DEF Init, TaskIsWellFormed, Idle
<1>4. /\ buffer \in [File -> Text \cup {Closed}] /\ shown \in [File -> Diagnostic]
      /\ docs \in [File -> Text \cup {Closed}] /\ unchanged \subseteq Dir
  BY DEF Init, Diagnostic
<1>5. budget \in [messages : 0..MaxMessages, edits : Nat, configs : Nat]
  BY BoundsAssumption DEF Init
<1> QED
  BY <1>1, <1>2, <1>3, <1>4, <1>5 DEF Types

\* What the editor does when it sends.
LEMMA SendAllShape ==
    ASSUME Types, NEW ms, SendAll(ms)
    PROVE  /\ running /\ inbox' = inbox \o ms
           /\ \A i \in DOMAIN inbox : inbox[i].type # "exit"
           /\ budget' \in [messages : 0..MaxMessages, edits : Nat, configs : Nat]
           /\ budget'.messages = budget.messages + 1 /\ budget'.configs = budget.configs
BY BoundsAssumption DEF SendAll, Types

\* The projects when the config of one is looked up again ...
LEMMA ResolvedShape ==
    ASSUME projects \in [Dir -> Project], conf \in [Dir -> Config], NEW d \in Dir,
           NEW ps, ps = Resolved(projects, d)
    PROVE  /\ ps \in [Dir -> Project]
           /\ ps[d].cfg = conf[d] /\ ps[d].openFiles = projects[d].openFiles
           /\ ps[d].symbols = projects[d].symbols
           /\ \A e \in Dir \ {d} : ps[e] = projects[e]
<1>1. PICK p \in Project : p = projects[d]
  OBVIOUS
<1>2. PICK q : q = [p EXCEPT !.cfg = conf[d]]
  OBVIOUS
<1>3. /\ q \in Project /\ q.cfg = conf[d] /\ q.openFiles = p.openFiles /\ q.symbols = p.symbols
  BY <1>1, <1>2 DEF Project
<1>4. ps = [projects EXCEPT ![d] = q]
  BY <1>1, <1>2 DEF Resolved
<1> QED
  BY <1>1, <1>3, <1>4

\* ... a file is opened in it ...
Tracked(d, f) == [Resolved(projects, d) EXCEPT ![d].openFiles = @ \cup {f}]

LEMMA OpenedShape ==
    ASSUME projects \in [Dir -> Project], conf \in [Dir -> Config], NEW d \in Dir, NEW f \in File,
           NEW ps, ps = Tracked(d, f)
    PROVE  /\ ps \in [Dir -> Project]
           /\ ps[d].cfg = conf[d] /\ ps[d].openFiles = projects[d].openFiles \cup {f}
           /\ ps[d].symbols = projects[d].symbols
           /\ \A e \in Dir \ {d} : ps[e] = projects[e]
<1>1. PICK rs : rs = Resolved(projects, d)
  OBVIOUS
<1>2. /\ rs \in [Dir -> Project]
      /\ rs[d].cfg = conf[d] /\ rs[d].openFiles = projects[d].openFiles
      /\ rs[d].symbols = projects[d].symbols
      /\ \A e \in Dir \ {d} : rs[e] = projects[e]
  BY <1>1, ResolvedShape
<1>3. PICK p \in Project : p = rs[d]
  BY <1>2
<1>4. PICK q : q = [p EXCEPT !.openFiles = @ \cup {f}]
  OBVIOUS
<1>5. /\ q \in Project /\ q.cfg = p.cfg /\ q.openFiles = p.openFiles \cup {f}
      /\ q.symbols = p.symbols
  BY <1>3, <1>4 DEF Project
<1>6. ps = [rs EXCEPT ![d] = q]
  BY <1>1, <1>3, <1>4 DEF Tracked
<1> QED
  BY <1>2, <1>3, <1>5, <1>6

\* ... a file is closed in it ...
LEMMA UntrackedShape ==
    ASSUME projects \in [Dir -> Project], NEW d \in Dir, NEW f \in File,
           NEW ps, ps = Untracked(d, f)
    PROVE  /\ ps \in [Dir -> Project]
           /\ ps[d].cfg = projects[d].cfg /\ ps[d].openFiles = projects[d].openFiles \ {f}
           /\ ps[d].symbols = projects[d].symbols
           /\ \A e \in Dir \ {d} : ps[e] = projects[e]
<1>1. PICK p \in Project : p = projects[d]
  OBVIOUS
<1>2. PICK q : q = [p EXCEPT !.openFiles = @ \ {f}]
  OBVIOUS
<1>3. /\ q \in Project /\ q.cfg = p.cfg /\ q.openFiles = p.openFiles \ {f} /\ q.symbols = p.symbols
  BY <1>1, <1>2 DEF Project
<1>4. ps = [projects EXCEPT ![d] = q]
  BY <1>1, <1>2 DEF Untracked
<1> QED
  BY <1>1, <1>3, <1>4

\* ... or its index is replaced.
LEMMA IndexedShape ==
    ASSUME projects \in [Dir -> Project], NEW d \in Dir, NEW s \in Symbols,
           NEW ps, ps = [projects EXCEPT ![d].symbols = s]
    PROVE  /\ ps \in [Dir -> Project]
           /\ ps[d].cfg = projects[d].cfg /\ ps[d].openFiles = projects[d].openFiles
           /\ ps[d].symbols = s
           /\ \A e \in Dir \ {d} : ps[e] = projects[e]
<1>1. PICK p \in Project : p = projects[d]
  OBVIOUS
<1>2. PICK q : q = [p EXCEPT !.symbols = s]
  OBVIOUS
<1>3. q \in Project /\ q.cfg = p.cfg /\ q.openFiles = p.openFiles /\ q.symbols = s
  BY <1>1, <1>2 DEF Project
<1>4. ps = [projects EXCEPT ![d] = q]
  BY <1>1, <1>2
<1> QED
  BY <1>1, <1>3, <1>4

\* A handler has the server's one task and its message.
LEMMA ReceiveShape ==
    ASSUME WellFormed(inbox), NEW type, Receive(type)
    PROVE  /\ running /\ task = Idle /\ task.step = "idle" /\ inbox # << >>
           /\ Head(inbox) \in Messages /\ Head(inbox).type = type /\ Carries(Head(inbox))
           /\ inbox' = Tail(inbox)
<1>1. inbox # << >> /\ running /\ task = Idle /\ Head(inbox).type = type /\ inbox' = Tail(inbox)
  BY DEF Receive
<1>2. inbox \in Seq(Messages) /\ Len(inbox) \in Nat \ {0}
  BY <1>1, EmptySeq DEF WellFormed
<1>3. Head(inbox) = inbox[1] /\ 1 \in 1..Len(inbox)
  BY <1>1, <1>2
<1>4. Head(inbox) \in Messages /\ Carries(Head(inbox))
  BY <1>2, <1>3, ElementOfSeq DEF WellFormed
<1> QED
  BY <1>1, <1>4 DEF Idle

\* Owners are directories.
LEMMA OwnersAreDirs == \A cs, f : OwnersIn(cs, f) \subseteq Dir
BY DEF OwnersIn

LEMMA ListedIsInTree == \A d \in Dir : Types => Listed(projects[d].cfg) \subseteq projects[d].cfg.tree
BY DEF Listed

LEMMA EditorKeepsTypes ==
    ASSUME Types, Environment
    PROVE  Types'
<1>1. ASSUME NEW f \in File, Open(f) \/ Type(f) \/ Close(f) PROVE Types'
  <2>1. UNCHANGED <<disk, conf, shown, docs, projects, task, unchanged>>
    BY <1>1 DEF Open, Type, Close, world, server, session
  <2>2. buffer' \in [File -> Text \cup {Closed}]
    BY <1>1 DEF Open, Type, Close, Types
  <2>3. budget' \in [messages : 0..MaxMessages, edits : Nat, configs : Nat]
    BY <1>1, SendAllShape DEF Open, Type, Close, Send
  <2> QED
    BY <2>1, <2>2, <2>3 DEF Types, TaskIsWellFormed, Root
<1>2. ASSUME NEW f \in File, Save(f) PROVE Types'
  <2>1. UNCHANGED <<conf, buffer, shown, docs, projects, task>> /\ unchanged' = {}
    BY <1>2 DEF Save, server, session
  <2>2. disk' \in [File -> Text \cup {Missing}]
    BY <1>2 DEF Save, Types
  <2>3. budget' \in [messages : 0..MaxMessages, edits : Nat, configs : Nat]
    BY <1>2, SendAllShape DEF Save, Send
  <2> QED
    BY <2>1, <2>2, <2>3 DEF Types, TaskIsWellFormed, Root
<1>3. ASSUME (\E f \in File, request \in Requests : Ask(f, request)) \/ Quit PROVE Types'
  <2>1. UNCHANGED <<disk, conf, buffer, shown, docs, projects, task, unchanged>>
    BY <1>3 DEF Ask, Quit, world, server, session
  <2>2. budget' \in [messages : 0..MaxMessages, edits : Nat, configs : Nat]
    BY <1>3, SendAllShape DEF Ask, Quit, Send
  <2> QED
    BY <2>1, <2>2 DEF Types, TaskIsWellFormed, Root
<1>4. ASSUME NEW f \in File, ChangeFile(f) PROVE Types'
  <2>1. UNCHANGED <<conf, buffer, shown, docs, projects, task>> /\ unchanged' = {}
    BY <1>4 DEF ChangeFile, editor, server, session
  <2>2. disk' \in [File -> Text \cup {Missing}]
    BY <1>4 DEF ChangeFile, Types
  <2>3. budget' \in [messages : 0..MaxMessages, edits : Nat, configs : Nat]
    BY <1>4 DEF ChangeFile, Types
  <2> QED
    BY <2>1, <2>2, <2>3 DEF Types, TaskIsWellFormed, Root
<1>5. ASSUME NEW d \in Dir, ChangeConfig(d) PROVE Types'
  <2>1. UNCHANGED <<disk, buffer, shown, docs, projects, task>> /\ unchanged' = {}
    BY <1>5 DEF ChangeConfig, editor, server, session
  <2>2. conf' \in [Dir -> Config]
    BY <1>5, ConfigsAssumption DEF ChangeConfig, Types
  <2>3. budget' \in [messages : 0..MaxMessages, edits : Nat, configs : Nat]
    BY <1>5 DEF ChangeConfig, Types
  <2> QED
    BY <2>1, <2>2, <2>3 DEF Types, TaskIsWellFormed, Root
<1> QED
  BY <1>1, <1>2, <1>3, <1>4, <1>5 DEF Environment

\* What the handler of a message about f does with a project that owns f.
LEMMA RunShape ==
    ASSUME NEW d \in Dir, Run(d)
    PROVE  /\ task'.step = "list" /\ task'.project = d /\ task'.round = 1 /\ task'.loaded = << >>
           /\ unchanged' = unchanged \cup {d}
BY DEF Run

\* The three handlers that change the overlay: nothing to check, or a project.
Unowned(f) ==
    /\ shown' = [shown EXCEPT ![f] = "none"]
    /\ UNCHANGED <<projects, task, unchanged>>

OpenIn(f, d) ==
    /\ projects' = Tracked(d, f)
    /\ Run(d)
    /\ shown' = shown

ChangeIn(d) ==
    /\ projects' = Resolved(projects, d)
    /\ Run(d)
    /\ shown' = shown

CloseIn(f, d) ==
    /\ projects' = Untracked(d, f)
    /\ Run(d)
    /\ shown' = [shown EXCEPT ![f] = "none"]

Sync == DidOpen \/ DidChange \/ DidClose

LEMMA SyncShape ==
    ASSUME WellFormed(inbox), Sync, NEW m, m = Head(inbox), NEW f, f = m.file
    PROVE  /\ m \in Messages /\ Carries(m) /\ f \in File /\ m.type \in SyncTypes
           /\ inbox # << >> /\ inbox' = Tail(inbox) /\ task = Idle /\ task.step = "idle"
           /\ UNCHANGED <<disk, conf, buffer, shutdown, running, budget>> /\ answer' = NoAnswer
           /\ docs' = [docs EXCEPT ![f] = Leaves(m)]
           /\ \/ m.type \in {"didOpen", "didChange"} /\ Owners(f) = {} /\ Unowned(f)
              \/ m.type = "didClose" /\ Holders(f) = {} /\ Unowned(f)
              \/ m.type = "didOpen" /\ \E d \in Owners(f) : OpenIn(f, d)
              \/ m.type = "didChange" /\ \E d \in Owners(f) : ChangeIn(d)
              \/ m.type = "didClose" /\ \E d \in Holders(f) : CloseIn(f, d)
<1>1. PICK type \in SyncTypes : Receive(type)
  BY DEF Sync, DidOpen, DidChange, DidClose, SyncTypes
<1>2. /\ task = Idle /\ task.step = "idle" /\ inbox # << >> /\ inbox' = Tail(inbox)
      /\ m \in Messages /\ m.type = type /\ Carries(m)
  BY <1>1, ReceiveShape
<1>3. f \in File
  BY <1>1, <1>2 DEF Carries
<1>4. UNCHANGED <<disk, conf, buffer, shutdown, running, budget>> /\ answer' = NoAnswer
  BY DEF Sync, DidOpen, DidChange, DidClose, world
<1>5. CASE DidOpen
  <2>1. m.type = "didOpen"
    BY <1>5, ReceiveShape DEF DidOpen
  <2>2. docs' = [docs EXCEPT ![f] = m.text]
    BY <1>5 DEF DidOpen
  <2>3. (Owners(f) = {} /\ Unowned(f)) \/ \E d \in Owners(f) : OpenIn(f, d)
    BY <1>5 DEF DidOpen, Unowned, OpenIn, Tracked
  <2> QED
    BY <1>1, <1>2, <1>3, <1>4, <2>1, <2>2, <2>3 DEF Leaves
<1>6. CASE DidChange
  <2>1. m.type = "didChange"
    BY <1>6, ReceiveShape DEF DidChange
  <2>2. docs' = [docs EXCEPT ![f] = m.text]
    BY <1>6 DEF DidChange
  <2>3. (Owners(f) = {} /\ Unowned(f)) \/ \E d \in Owners(f) : ChangeIn(d)
    BY <1>6 DEF DidChange, Unowned, ChangeIn
  <2> QED
    BY <1>1, <1>2, <1>3, <1>4, <2>1, <2>2, <2>3 DEF Leaves
<1>7. CASE DidClose
  <2>1. m.type = "didClose"
    BY <1>7, ReceiveShape DEF DidClose
  <2>2. docs' = [docs EXCEPT ![f] = Closed]
    BY <1>7 DEF DidClose
  <2>3. (Holders(f) = {} /\ Unowned(f)) \/ \E d \in Holders(f) : CloseIn(f, d)
    BY <1>7 DEF DidClose, Unowned, CloseIn
  <2> QED
    BY <1>1, <1>2, <1>3, <1>4, <2>1, <2>2, <2>3 DEF Leaves
<1> QED
  BY <1>5, <1>6, <1>7 DEF Sync

LEMMA SyncKeepsTypes ==
    ASSUME Types, WellFormed(inbox), Sync
    PROVE  Types'
<1>1. PICK m, f : m = Head(inbox) /\ f = m.file
  OBVIOUS
<1>2. /\ m \in Messages /\ Carries(m) /\ f \in File /\ m.type \in SyncTypes
      /\ task.step = "idle" /\ UNCHANGED <<disk, conf, buffer, budget>>
      /\ docs' = [docs EXCEPT ![f] = Leaves(m)]
      /\ \/ Unowned(f)
         \/ \E d \in Owners(f) : OpenIn(f, d)
         \/ \E d \in Owners(f) : ChangeIn(d)
         \/ \E d \in Holders(f) : CloseIn(f, d)
  BY <1>1, SyncShape
<1>3. docs' \in [File -> Text \cup {Closed}]
  <2>1. Leaves(m) \in Text \cup {Closed}
    BY <1>2 DEF Leaves, Carries, SyncTypes
  <2> QED
    BY <1>2, <2>1 DEF Types
<1>4. shown' \in [File -> Diagnostic]
  BY <1>2 DEF Unowned, OpenIn, ChangeIn, CloseIn, Types, Diagnostic
<1>5. /\ projects' \in [Dir -> Project]
      /\ \/ UNCHANGED <<task, projects, unchanged>>
         \/ \E d \in Dir : Run(d)
  <2>1. Owners(f) \subseteq Dir /\ Holders(f) \subseteq Dir
    BY OwnersAreDirs DEF Owners, Holders
  <2>2. projects \in [Dir -> Project] /\ conf \in [Dir -> Config]
    BY DEF Types
  <2>3. ASSUME NEW d \in Dir
        PROVE  /\ Resolved(projects, d) \in [Dir -> Project]
               /\ Tracked(d, f) \in [Dir -> Project]
               /\ Untracked(d, f) \in [Dir -> Project]
    BY <1>2, <2>2, ResolvedShape, OpenedShape, UntrackedShape
  <2>4. CASE Unowned(f)
    BY <2>2, <2>4 DEF Unowned
  <2>5. CASE \E d \in Owners(f) : OpenIn(f, d)
    BY <2>1, <2>3, <2>5 DEF OpenIn
  <2>6. CASE \E d \in Owners(f) : ChangeIn(d)
    BY <2>1, <2>3, <2>6 DEF ChangeIn
  <2>7. CASE \E d \in Holders(f) : CloseIn(f, d)
    BY <2>1, <2>3, <2>7 DEF CloseIn
  <2> QED
    BY <1>2, <2>4, <2>5, <2>6, <2>7
<1>6. TaskIsWellFormed' /\ unchanged' \subseteq Dir
  BY <1>2, <1>5, RunShape DEF Types, TaskIsWellFormed
<1> QED
  BY <1>2, <1>3, <1>4, <1>5, <1>6 DEF Types

\* The requests that look f up in its project: nothing else changes, but for
\* the graph, which is still to be read.
GraphTask(f, d) == [step |-> "graph", project |-> d, from |-> f, listed |-> Listed(conf[d])]

Lookup == Definition("definition") \/ Definition("hover") \/ Completion \/ DependencyGraph

LEMMA LookupShape ==
    ASSUME WellFormed(inbox), Lookup, NEW m, m = Head(inbox), NEW f, f = m.file
    PROVE  /\ m \in Messages /\ m.type \in Requests /\ f \in File
           /\ inbox # << >> /\ inbox' = Tail(inbox) /\ task = Idle /\ task.step = "idle"
           /\ UNCHANGED <<disk, conf, buffer, shown, docs, shutdown, running, unchanged, budget>>
           /\ \/ Owners(f) = {} /\ UNCHANGED <<projects, task>>
              \/ \E d \in Owners(f) :
                    /\ projects' = Resolved(projects, d)
                    /\ \/ m.type # "graph" /\ UNCHANGED task
                       \/ m.type = "graph" /\ task' = GraphTask(f, d)
<1>1. PICK type \in Requests : Receive(type)
  BY DEF Lookup, Definition, Completion, DependencyGraph, Requests
<1>2. /\ task = Idle /\ task.step = "idle" /\ inbox # << >> /\ inbox' = Tail(inbox)
      /\ m \in Messages /\ m.type = type /\ Carries(m)
  BY <1>1, ReceiveShape
<1>3. f \in File
  BY <1>1, <1>2 DEF Carries
<1>4. UNCHANGED <<disk, conf, buffer, shown, docs, shutdown, running, unchanged, budget>>
  BY DEF Lookup, Definition, Completion, DependencyGraph, world
<1>5. CASE Definition("definition") \/ Definition("hover") \/ Completion
  <2>1. m.type # "graph" /\ UNCHANGED task
    BY <1>5, ReceiveShape DEF Definition, Completion
  <2>2. (Owners(f) = {} /\ UNCHANGED projects) \/ \E d \in Owners(f) : projects' = Resolved(projects, d)
    BY <1>5 DEF Definition, Completion
  <2> QED
    BY <1>1, <1>2, <1>3, <1>4, <2>1, <2>2
<1>6. CASE DependencyGraph
  <2>1. m.type = "graph"
    BY <1>6, ReceiveShape DEF DependencyGraph
  <2>2. \/ Owners(f) = {} /\ UNCHANGED <<projects, task>>
        \/ \E d \in Owners(f) : projects' = Resolved(projects, d) /\ task' = GraphTask(f, d)
    BY <1>6 DEF DependencyGraph, GraphTask
  <2> QED
    BY <1>1, <1>2, <1>3, <1>4, <2>1, <2>2
<1> QED
  BY <1>5, <1>6 DEF Lookup

\* A load of the project d, in its two steps: it fails, the files are listed,
\* or they are read for the diagnostics or for the index.
NothingToLoad(d) ==
    \/ task.step = "list" /\ Listed(projects[d].cfg) = {}
    \/ task.step = "read" /\ \E f \in task.listed : Effective(f) = Missing

Gone(d) ==
    /\ NothingToLoad(d)
    /\ projects' = [projects EXCEPT ![d].symbols = NoSymbols]
    /\ task'.step = "publish" /\ task'.loaded = task.loaded

Found(d) ==
    /\ task.step = "list" /\ Listed(projects[d].cfg) # {}
    /\ projects' = projects
    /\ task'.step = "read" /\ task'.loaded = task.loaded /\ task'.round = task.round
    /\ task'.listed = Listed(projects[d].cfg)

Read == [f \in task.listed |-> Effective(f)]

Checked(d) ==
    /\ task.step = "read" /\ task.round = 1 /\ Read \in Loads
    /\ projects' = projects
    /\ task'.step = "list" /\ task'.loaded = Read /\ task'.round = 2

IndexOf(d) == [texts |-> Read, root |-> projects[d].cfg.tree]

Reindexed(d) ==
    /\ task.step = "read" /\ task.round = 2 /\ Read \in Loads
    /\ projects' = [projects EXCEPT ![d].symbols = IndexOf(d)]
    /\ IndexOf(d) \in Symbols
    /\ task'.step = "publish" /\ task'.loaded = task.loaded

Load == ListFiles \/ ReadFiles

LEMMA LoadShape ==
    ASSUME Types, Load, NEW d, d = task.project
    PROVE  /\ d \in Dir /\ task'.project = d
           /\ UNCHANGED <<disk, conf, buffer, shown, inbox, docs, answer, shutdown, running, unchanged, budget>>
           /\ Gone(d) \/ Found(d) \/ Checked(d) \/ Reindexed(d)
<1>1. task.step \in {"list", "read"} /\ d \in Dir
  BY DEF Load, ListFiles, ReadFiles, Types, TaskIsWellFormed
<1>2. UNCHANGED <<disk, conf, buffer, shown, inbox, docs, answer, shutdown, running, unchanged, budget>>
  BY DEF Load, ListFiles, ReadFiles, world, editor
<1>3. CASE ListFiles
  <2>1. CASE Listed(Root) = {}
    <3>1. LoadFails /\ task.step = "list"
      BY <1>3, <2>1 DEF ListFiles
    <3>2. Gone(d) /\ task'.project = d
      BY <2>1, <3>1 DEF LoadFails, ThenPublish, Gone, NothingToLoad, Root
    <3> QED
      BY <1>1, <1>2, <3>2
  <2>2. CASE Listed(Root) # {}
    <3>1. ThenRead /\ projects' = projects /\ task.step = "list"
      BY <1>3, <2>2 DEF ListFiles
    <3>2. Found(d) /\ task'.project = d
      BY <2>2, <3>1 DEF ThenRead, Found, Root
    <3> QED
      BY <1>1, <1>2, <3>2
  <2> QED
    BY <2>1, <2>2
<1>4. CASE ReadFiles
  <2>1. PICK loaded : loaded = Read
    OBVIOUS
  <2>2. \A f \in task.listed : loaded[f] = Effective(f)
    BY <2>1 DEF Read
  <2>3. task.step = "read" /\ task.listed \subseteq projects[d].cfg.tree /\ task.round \in {1, 2}
    BY <1>4 DEF ReadFiles, Types, TaskIsWellFormed, Root
  <2>4. projects[d].cfg.tree \subseteq File
    BY <1>1 DEF Types, Project, Config
  <2>5. CASE \E f \in task.listed : loaded[f] = Missing
    <3>1. LoadFails
      BY <1>4, <2>1, <2>5 DEF ReadFiles, Read
    <3>2. Gone(d) /\ task'.project = d
      BY <2>2, <2>3, <2>5, <3>1 DEF LoadFails, ThenPublish, Gone, NothingToLoad
    <3> QED
      BY <1>1, <1>2, <3>2
  <2>6. CASE ~\E f \in task.listed : loaded[f] = Missing
    <3>1. \A f \in task.listed : Effective(f) \in Text
      BY <2>2, <2>3, <2>4, <2>6 DEF Effective, Types
    <3>2. loaded \in Loads /\ DOMAIN loaded = task.listed
      <4>1. loaded \in [task.listed -> Text]
        BY <2>1, <3>1 DEF Read
      <4> QED
        BY <2>3, <2>4, <4>1 DEF Loads
    <3>3. CASE task.round = 1
      <4>1. task' = [step |-> "list", project |-> task.project, round |-> 2, loaded |-> loaded]
            /\ projects' = projects
        BY <1>4, <2>1, <2>6, <3>3 DEF ReadFiles, Read
      <4>2. Checked(d) /\ task'.project = d
        BY <2>1, <2>3, <3>2, <3>3, <4>1 DEF Checked
      <4> QED
        BY <1>1, <1>2, <4>2
    <3>4. CASE task.round = 2
      <4>1. /\ projects' = [projects EXCEPT ![task.project].symbols = [texts |-> loaded, root |-> Root.tree]]
            /\ ThenPublish
        BY <1>4, <2>1, <2>6, <3>4 DEF ReadFiles, Read
      <4>2. IndexOf(d) \in Symbols
        BY <2>1, <2>3, <2>4, <3>2 DEF IndexOf, Symbols
      <4>3. Reindexed(d) /\ task'.project = d
        BY <2>1, <2>3, <3>2, <3>4, <4>1, <4>2 DEF Reindexed, ThenPublish, IndexOf, Root
      <4> QED
        BY <1>1, <1>2, <4>3
    <3> QED
      BY <2>3, <3>3, <3>4
  <2> QED
    BY <2>5, <2>6
<1> QED
  BY <1>3, <1>4 DEF Load

LEMMA PublishShape ==
    ASSUME Types, Publish, NEW d, d = task.project
    PROVE  /\ d \in Dir /\ task.step = "publish" /\ task' = Idle /\ task'.step = "idle"
           /\ UNCHANGED <<disk, conf, buffer, inbox, docs, projects, answer, shutdown, running, unchanged, budget>>
           /\ shown' = [f \in File |-> IF f \in projects[d].openFiles
                                       THEN Diagnose(task.loaded, f)
                                       ELSE shown[f]]
BY DEF Publish, Types, TaskIsWellFormed, world, session, Idle

LEMMA DiagnoseType == \A loaded, f : Diagnose(loaded, f) \in Diagnostic
BY DEF Diagnose, Diagnostic

LEMMA ServerKeepsTypes ==
    ASSUME Types, WellFormed(inbox), Server
    PROVE  Types'
<1>1. CASE Sync
  BY <1>1, SyncKeepsTypes
<1>2. CASE Lookup
  <2>1. PICK m, f : m = Head(inbox) /\ f = m.file
    OBVIOUS
  <2>2. /\ f \in File /\ task.step = "idle"
        /\ UNCHANGED <<disk, conf, buffer, shown, docs, unchanged, budget>>
        /\ \/ UNCHANGED <<projects, task>>
           \/ \E d \in Owners(f) :
                 /\ projects' = Resolved(projects, d)
                 /\ UNCHANGED task \/ task' = GraphTask(f, d)
    BY <1>2, <2>1, LookupShape
  <2>3. ASSUME NEW d \in Owners(f)
        PROVE  d \in Dir /\ Resolved(projects, d) \in [Dir -> Project] /\ Listed(conf[d]) \subseteq File
    <3>1. d \in Dir
      BY OwnersAreDirs DEF Owners
    <3>2. projects \in [Dir -> Project] /\ conf \in [Dir -> Config]
      BY DEF Types
    <3>3. conf[d].tree \subseteq File
      BY <3>1, <3>2 DEF Config
    <3> QED
      BY <3>1, <3>2, <3>3, ResolvedShape DEF Listed
  <2>4. projects' \in [Dir -> Project]
    BY <2>2, <2>3 DEF Types
  <2>5. TaskIsWellFormed'
    BY <2>2, <2>3 DEF TaskIsWellFormed, GraphTask
  <2> QED
    BY <2>2, <2>4, <2>5 DEF Types
<1>3. CASE DidSave \/ Shutdown \/ Exit
  <2>1. UNCHANGED <<disk, conf, buffer, shown, docs, projects, task, unchanged, budget>>
    BY <1>3 DEF DidSave, Shutdown, Exit, world, session
  <2> QED
    BY <2>1 DEF Types, TaskIsWellFormed, Root
<1>4. CASE AnswerGraph
  <2>1. UNCHANGED <<disk, conf, buffer, shown, docs, projects, unchanged, budget>> /\ task'.step = "idle"
    BY <1>4 DEF AnswerGraph, world, session, editor, Idle
  <2> QED
    BY <2>1 DEF Types, TaskIsWellFormed
<1>5. CASE Load
  <2>1. PICK d : d = task.project
    OBVIOUS
  <2>2. /\ d \in Dir /\ task'.project = d
        /\ UNCHANGED <<disk, conf, buffer, shown, docs, unchanged, budget>>
        /\ Gone(d) \/ Found(d) \/ Checked(d) \/ Reindexed(d)
    BY <1>5, <2>1, LoadShape
  <2>3. ASSUME NEW s \in Symbols, projects' = [projects EXCEPT ![d].symbols = s]
        PROVE  projects' \in [Dir -> Project]
    <3>1. PICK ps : ps = [projects EXCEPT ![d].symbols = s]
      OBVIOUS
    <3>2. ps \in [Dir -> Project]
      BY <2>2, <3>1, IndexedShape DEF Types
    <3> QED
      BY <2>3, <3>1, <3>2
  <2>4. projects' \in [Dir -> Project]
    BY <2>2, <2>3, NothingIsLoaded DEF Gone, Found, Checked, Reindexed, Types
  <2>5. TaskIsWellFormed'
    <3>1. task.step \in {"list", "read"} /\ task.round \in {1, 2} /\ (task.round = 1 => task.loaded = << >>)
      BY <2>2 DEF Gone, NothingToLoad, Found, Checked, Reindexed, Types, TaskIsWellFormed
    <3>2. CASE Found(d)
      <4>1. task'.listed \subseteq projects'[d].cfg.tree
        BY <3>2 DEF Found, Listed
      <4> QED
        BY <2>2, <3>1, <3>2, <4>1 DEF Found, TaskIsWellFormed, Root
    <3>3. CASE Gone(d) \/ Checked(d) \/ Reindexed(d)
      BY <2>2, <3>3 DEF Gone, Checked, Reindexed, TaskIsWellFormed
    <3> QED
      BY <2>2, <3>2, <3>3
  <2> QED
    BY <2>2, <2>4, <2>5 DEF Types
<1>6. CASE Publish
  <2>1. PICK d : d = task.project
    OBVIOUS
  <2>2. /\ UNCHANGED <<disk, conf, buffer, docs, projects, unchanged, budget>> /\ task'.step = "idle"
        /\ shown' = [f \in File |-> IF f \in projects[d].openFiles
                                    THEN Diagnose(task.loaded, f)
                                    ELSE shown[f]]
    BY <1>6, <2>1, PublishShape
  <2>3. shown' \in [File -> Diagnostic]
    BY <2>2, DiagnoseType DEF Types
  <2> QED
    BY <2>2, <2>3 DEF Types, TaskIsWellFormed
<1> QED
  BY <1>1, <1>2, <1>3, <1>4, <1>5, <1>6 DEF Server, Sync, Lookup, Load

LEMMA TypesKeep ==
    ASSUME Types, WellFormed(inbox), [Next]_vars
    PROVE  Types'
<1>1. CASE UNCHANGED vars
  BY <1>1 DEF vars, world, editor, server, session, Types, TaskIsWellFormed, Root
<1>2. CASE Next
  BY <1>2, EditorKeepsTypes, ServerKeepsTypes DEF Next
<1> QED
  BY <1>1, <1>2

-----------------------------------------------------------------------------
(* The overlay follows the buffers *)

\* Messages the editor sends, and what they carry.
LEMMA MessageShape ==
    ASSUME NEW type \in MessageType, NEW f \in File \cup {NoFile}, NEW t \in Text \cup {Missing},
           type \in SyncTypes \cup Requests => f \in File,
           type \in {"didOpen", "didChange"} => t \in Text,
           NEW m, m = Message(type, f, t)
    PROVE  m \in Messages /\ Carries(m) /\ m.type = type /\ m.file = f /\ m.text = t
BY DEF Message, Messages, Carries

LEMMA SendAppends ==
    ASSUME WellFormed(inbox), NEW m \in Messages
    PROVE  inbox \o <<m>> = Append(inbox, m)
BY AppendIsConcat DEF WellFormed

\* A message that is about no file can follow any other.
LEMMA SendsAside ==
    ASSUME NEW q, NEW d, NEW b, Stream(q, d, b), NEW m \in Messages, Carries(m), m.type \notin SyncTypes
    PROVE  Stream(Append(q, m), d, b)
<1>1. \A f \in File : ~About(m, f)
  BY DEF About
<1> QED
  BY <1>1, SendKeepsStream

LEMMA EditorKeepsStream ==
    ASSUME Types, Stream(inbox, docs, buffer), Environment
    PROVE  Stream(inbox', docs', buffer')
<1> WellFormed(inbox)
  BY DEF Stream
<1>1. ASSUME NEW f \in File, NEW type \in {"didOpen", "didChange", "didClose"},
             NEW t \in Text \cup {Missing}, type # "didClose" => t \in Text,
             type = "didOpen" <=> buffer[f] = Closed, Send(type, f, t),
             buffer' = [buffer EXCEPT ![f] = IF type = "didClose" THEN Closed ELSE t], docs' = docs
      PROVE  Stream(inbox', docs', buffer')
  <2>1. PICK m : m = Message(type, f, t)
    OBVIOUS
  <2>2. m \in Messages /\ Carries(m) /\ m.type = type /\ m.file = f /\ m.text = t
    BY <1>1, <2>1 DEF Message, Messages, Carries, MessageType, SyncTypes
  <2>3. inbox' = Append(inbox, m)
    BY <1>1, <2>1, <2>2, SendAppends DEF Send, SendAll
  <2>4. buffer \in [File -> Text \cup {Closed}]
    BY DEF Types
  <2>5. \A g \in File : /\ About(m, g) <=> g = f
                        /\ buffer'[g] = IF About(m, g) THEN Leaves(m) ELSE buffer[g]
    BY <1>1, <2>2, <2>4 DEF About, Leaves, SyncTypes
  <2>6. PICK b : b = buffer'
    OBVIOUS
  <2>7. /\ \A g \in File : b[g] = IF About(m, g) THEN Leaves(m) ELSE buffer[g]
        /\ \A g \in File : About(m, g) => (m.type = "didOpen" <=> buffer[g] = Closed)
    BY <1>1, <2>2, <2>5, <2>6
  <2>8. Stream(Append(inbox, m), docs, b)
    BY <2>2, <2>7, SendKeepsStream
  <2> QED
    BY <1>1, <2>3, <2>6, <2>8
<1>2. ASSUME NEW f \in File, Open(f) PROVE Stream(inbox', docs', buffer')
  <2>1. PICK t \in Text : buffer' = [buffer EXCEPT ![f] = t] /\ Send("didOpen", f, t)
    BY <1>2 DEF Open
  <2>2. buffer[f] = Closed /\ docs' = docs
    BY <1>2 DEF Open, server, session
  <2> QED
    BY <1>1, <2>1, <2>2
<1>3. ASSUME NEW f \in File, Type(f) PROVE Stream(inbox', docs', buffer')
  <2>1. PICK t \in Text : buffer' = [buffer EXCEPT ![f] = t] /\ Send("didChange", f, t)
    BY <1>3 DEF Type
  <2>2. buffer[f] # Closed /\ docs' = docs
    BY <1>3 DEF Type, server, session
  <2> QED
    BY <1>1, <2>1, <2>2
<1>4. ASSUME NEW f \in File, Close(f) PROVE Stream(inbox', docs', buffer')
  <2>1. buffer' = [buffer EXCEPT ![f] = Closed] /\ Send("didClose", f, Missing)
    BY <1>4 DEF Close
  <2>2. buffer[f] # Closed /\ docs' = docs
    BY <1>4 DEF Close, server, session
  <2> QED
    BY <1>1, <2>1, <2>2
<1>5. ASSUME NEW f \in File \cup {NoFile}, NEW type \in MessageType \ SyncTypes,
             NEW t \in Text \cup {Missing}, type \in Requests => f \in File,
             Send(type, f, t), UNCHANGED <<docs, buffer>>
      PROVE  Stream(inbox', docs', buffer')
  <2>1. PICK m : m = Message(type, f, t)
    OBVIOUS
  <2>2. m \in Messages /\ Carries(m) /\ m.type = type
    BY <1>5, <2>1, MessageShape DEF SyncTypes
  <2>3. inbox' = Append(inbox, m)
    BY <1>5, <2>1, <2>2, SendAppends DEF Send, SendAll
  <2> QED
    BY <1>5, <2>2, <2>3, SendsAside
<1>6. ASSUME NEW f \in File, Save(f) PROVE Stream(inbox', docs', buffer')
  <2>1. Send("didSave", f, buffer[f]) /\ UNCHANGED <<docs, buffer>> /\ buffer[f] \in Text
    BY <1>6 DEF Save, server, session, Types
  <2>2. "didSave" \in MessageType \ SyncTypes /\ "didSave" \notin Requests
    BY DEF MessageType, SyncTypes, Requests
  <2> QED
    BY <1>5, <2>1, <2>2
<1>7. ASSUME NEW f \in File, NEW request \in Requests, Ask(f, request)
      PROVE  Stream(inbox', docs', buffer')
  <2>1. Send(request, f, Missing) /\ UNCHANGED <<docs, buffer>>
    BY <1>7 DEF Ask, server, session
  <2>2. request \in MessageType \ SyncTypes
    BY DEF MessageType, SyncTypes, Requests
  <2> QED
    BY <1>5, <2>1, <2>2
<1>8. ASSUME Quit PROVE Stream(inbox', docs', buffer')
  <2>1. PICK e, s : e = Message("exit", NoFile, Missing) /\ s = Message("shutdown", NoFile, Missing)
    OBVIOUS
  <2>2. /\ e \in Messages /\ Carries(e) /\ e.type \notin SyncTypes
        /\ s \in Messages /\ Carries(s) /\ s.type \notin SyncTypes
    BY <2>1, MessageShape DEF MessageType, SyncTypes, Requests
  <2>3. SendAll(<<e>>) \/ SendAll(<<s>> \o <<e>>)
    BY <1>8, <2>1 DEF Quit
  <2>4. UNCHANGED <<docs, buffer>>
    BY <1>8 DEF Quit, server, session
  <2>5. CASE SendAll(<<e>>)
    <3>1. inbox' = Append(inbox, e)
      BY <2>2, <2>5, SendAppends DEF SendAll
    <3> QED
      BY <2>2, <2>4, <3>1, SendsAside
  <2>6. CASE SendAll(<<s>> \o <<e>>)
    <3>1. inbox' = inbox \o (<<s>> \o <<e>>)
      BY <2>6 DEF SendAll
    <3>2. inbox' = (inbox \o <<s>>) \o <<e>>
      BY <2>2, <3>1, ConcatAssociative DEF WellFormed
    <3>3. inbox \o <<s>> = Append(inbox, s)
      BY <2>2, SendAppends
    <3>4. Stream(Append(inbox, s), docs, buffer)
      BY <2>2, SendsAside
    <3>5. Append(inbox, s) \o <<e>> = Append(Append(inbox, s), e)
      BY <2>2, <3>4, AppendIsConcat DEF Stream, WellFormed
    <3> QED
      BY <2>2, <2>4, <3>2, <3>3, <3>4, <3>5, SendsAside
  <2> QED
    BY <2>3, <2>5, <2>6
<1>9. ASSUME (\E f \in File : ChangeFile(f)) \/ (\E d \in Dir : ChangeConfig(d))
      PROVE  Stream(inbox', docs', buffer')
  BY <1>9 DEF ChangeFile, ChangeConfig, editor, server, session
<1> QED
  BY <1>2, <1>3, <1>4, <1>6, <1>7, <1>8, <1>9 DEF Environment

\* A handler of a message that is about no file leaves the overlay.
LEMMA ReceiveAside ==
    ASSUME NEW type \in MessageType \ SyncTypes, Receive(type), Stream(inbox, docs, buffer),
           UNCHANGED <<docs, buffer>>
    PROVE  Stream(inbox', docs', buffer')
<1>1. inbox # << >> /\ inbox' = Tail(inbox) /\ Head(inbox).type = type
  BY DEF Receive
<1>2. \A f \in File : ~About(Head(inbox), f)
  BY <1>1 DEF About
<1> QED
  BY <1>1, <1>2, ReceiveKeepsStream

LEMMA ServerKeepsStream ==
    ASSUME Types, Stream(inbox, docs, buffer), Server
    PROVE  Stream(inbox', docs', buffer')
<1> WellFormed(inbox)
  BY DEF Stream
<1>1. CASE Sync
  <2>1. PICK m, f : m = Head(inbox) /\ f = m.file
    OBVIOUS
  <2>2. /\ f \in File /\ m.type \in SyncTypes /\ inbox # << >> /\ inbox' = Tail(inbox)
        /\ buffer' = buffer /\ docs' = [docs EXCEPT ![f] = Leaves(m)]
    BY <1>1, <2>1, SyncShape
  <2>3. \A g \in File : docs'[g] = IF About(Head(inbox), g) THEN Leaves(Head(inbox)) ELSE docs[g]
    BY <2>1, <2>2 DEF About, Types
  <2>4. PICK e : e = docs'
    OBVIOUS
  <2> QED
    BY <2>2, <2>3, <2>4, ReceiveKeepsStream
<1>2. CASE Lookup \/ DidSave \/ Shutdown \/ Exit
  <2>1. PICK type \in MessageType \ SyncTypes : Receive(type)
    BY <1>2 DEF Lookup, Definition, Completion, DependencyGraph, DidSave, Shutdown, Exit,
                MessageType, SyncTypes, Requests
  <2>2. UNCHANGED <<docs, buffer>>
    BY <1>2 DEF Lookup, Definition, Completion, DependencyGraph, DidSave, Shutdown, Exit, session
  <2> QED
    BY <2>1, <2>2, ReceiveAside
<1>3. CASE AnswerGraph \/ Load \/ Publish
  <2>1. UNCHANGED <<inbox, docs, buffer>>
    BY <1>3 DEF AnswerGraph, Load, ListFiles, ReadFiles, Publish, editor, session
  <2> QED
    BY <2>1
<1>4. \/ Sync
      \/ Lookup \/ DidSave \/ Shutdown \/ Exit
      \/ AnswerGraph \/ Load \/ Publish
  BY DEF Server, Sync, Lookup, Load
<1> QED
  BY <1>1, <1>2, <1>3, <1>4

LEMMA StreamKeeps ==
    ASSUME Types, Stream(inbox, docs, buffer), [Next]_vars
    PROVE  Stream(inbox, docs, buffer)'
<1>1. CASE UNCHANGED vars
  <2>1. inbox' = inbox /\ docs' = docs /\ buffer' = buffer
    BY <1>1 DEF vars, editor, server, session
  <2>2. Stream(inbox', docs', buffer')
    BY <2>1
  <2> QED
    BY <2>2
<1>2. CASE Next
  <2>1. Stream(inbox', docs', buffer')
    BY <1>2, EditorKeepsStream, ServerKeepsStream DEF Next
  <2> QED
    BY <2>1
<1> QED
  BY <1>1, <1>2

LEMMA InitStream == Init => Stream(inbox, docs, buffer)
<1> SUFFICES ASSUME Init PROVE Stream(inbox, docs, buffer)
  OBVIOUS
<1>1. inbox = << >> /\ docs = buffer
  BY DEF Init
<1>2. inbox \in Seq(Messages) /\ Len(inbox) = 0 /\ 1..0 = {}
  BY <1>1, EmptySeq
<1> QED
  BY <1>1, <1>2 DEF Stream, WellFormed, EndsIn, Alternates

-----------------------------------------------------------------------------
(* The bound of the inbox *)

\* Each message the editor may send adds one to the inbox, but the last one of
\* all adds the shutdown and the exit.
InboxIsBounded ==
    /\ Len(inbox) <= budget.messages + 1
    /\ running /\ (\A i \in 1..Len(inbox) : inbox[i].type # "exit") => Len(inbox) <= budget.messages

LEMMA QuitKeepsBound ==
    ASSUME Types, WellFormed(inbox), InboxIsBounded, Quit
    PROVE  InboxIsBounded'
<1>1. PICK e, s : e = Message("exit", NoFile, Missing) /\ s = Message("shutdown", NoFile, Missing)
  OBVIOUS
<1>2. e \in Messages /\ s \in Messages /\ e.type = "exit"
  <2>1. e \in Messages /\ e.type = "exit"
    BY <1>1 DEF Message, Messages, MessageType
  <2>2. s \in Messages
    BY <1>1 DEF Message, Messages, MessageType
  <2> QED
    BY <2>1, <2>2
<1>3. PICK ms : ms \in {<<e>>, <<s>> \o <<e>>} /\ SendAll(ms)
  BY <1>1 DEF Quit
<1>4. /\ ms \in Seq(Messages) /\ Len(ms) \in {1, 2} /\ ms[Len(ms)] = e
  <2>1. PICK one, first : one = <<e>> /\ first = <<s>>
    OBVIOUS
  <2>2. /\ one \in Seq(Messages) /\ Len(one) = 1 /\ one[1] = e
        /\ first \in Seq(Messages) /\ Len(first) = 1
    BY <1>2, <2>1
  <2>3. PICK two : two = first \o one
    OBVIOUS
  <2>4. two \in Seq(Messages) /\ Len(two) = 2 /\ two[2] = e
    BY <2>2, <2>3, ConcatProperties
  <2>5. ms = one \/ ms = two
    BY <1>3, <2>1, <2>3
  <2> QED
    BY <2>2, <2>4, <2>5
<1>5. /\ inbox' = inbox \o ms /\ running /\ budget'.messages = budget.messages + 1
      /\ \A i \in DOMAIN inbox : inbox[i].type # "exit"
  BY <1>3, SendAllShape
<1>6. PICK n \in Nat : n = Len(inbox)
  BY LenProperties DEF WellFormed
<1>7. PICK k \in {1, 2} : k = Len(ms)
  BY <1>4
<1>8. Len(inbox') = n + k /\ inbox'[n + k] = e
  BY <1>4, <1>5, <1>6, <1>7 DEF WellFormed
<1>9. n <= budget.messages /\ budget.messages \in Nat
  BY <1>5, <1>6 DEF InboxIsBounded, WellFormed, Types
<1> QED
  BY <1>2, <1>5, <1>6, <1>8, <1>9 DEF InboxIsBounded

LEMMA BoundKeeps ==
    ASSUME Types, Stream(inbox, docs, buffer), InboxIsBounded, [Next]_vars
    PROVE  InboxIsBounded'
<1> WellFormed(inbox)
  BY DEF Stream
<1>1. PICK n \in Nat : n = Len(inbox)
  BY LenProperties DEF WellFormed
<1>2. budget.messages \in Nat
  BY DEF Types
<1>3. ASSUME Quit PROVE InboxIsBounded'
  BY <1>3, QuitKeepsBound
<1>4. ASSUME NEW m \in Messages, SendAll(<<m>>) PROVE InboxIsBounded'
  <2>1. /\ inbox' = Append(inbox, m) /\ running /\ budget'.messages = budget.messages + 1
        /\ \A i \in DOMAIN inbox : inbox[i].type # "exit"
    BY <1>4, SendAllShape, SendAppends
  <2>2. Len(inbox') = n + 1 /\ n <= budget.messages
    BY <1>1, <1>4, <2>1, AppendProperties DEF WellFormed, InboxIsBounded
  <2> QED
    BY <1>1, <1>2, <2>1, <2>2 DEF InboxIsBounded
<1>5. ASSUME NEW type \in MessageType, Receive(type), budget' = budget PROVE InboxIsBounded'
  <2>1. inbox # << >> /\ inbox' = Tail(inbox)
    BY <1>5 DEF Receive
  <2>2. Len(inbox') = n - 1
    BY <1>1, <2>1, HeadTailProperties, EmptySeq DEF WellFormed
  <2> QED
    BY <1>1, <1>2, <1>5, <2>2 DEF InboxIsBounded
<1>6. ASSUME UNCHANGED <<inbox, running>>, budget'.messages = budget.messages PROVE InboxIsBounded'
  BY <1>6 DEF InboxIsBounded
<1>7. CASE UNCHANGED vars
  BY <1>6, <1>7 DEF vars, editor, server
<1>8. CASE \E f \in File : Open(f) \/ Type(f) \/ Save(f) \/ Close(f)
  <2>1. PICK f \in File : Open(f) \/ Type(f) \/ Save(f) \/ Close(f)
    BY <1>8
  <2>2. PICK type \in SyncTypes \cup {"didSave"}, t \in Text \cup {Missing} :
            Send(type, f, t) /\ (type \in {"didOpen", "didChange"} => t \in Text)
    BY <2>1 DEF Open, Type, Save, Close, SyncTypes, Types
  <2>3. Message(type, f, t) \in Messages
    BY <2>2, MessageShape DEF MessageType
  <2> QED
    BY <1>4, <2>2, <2>3 DEF Send
<1>9. CASE \E f \in File, request \in Requests : Ask(f, request)
  <2>1. PICK f \in File, request \in Requests : Send(request, f, Missing)
    BY <1>9 DEF Ask
  <2>2. Message(request, f, Missing) \in Messages
    BY <2>1, MessageShape DEF MessageType, SyncTypes, Requests
  <2> QED
    BY <1>4, <2>1, <2>2 DEF Send
<1>10. CASE (\E f \in File : ChangeFile(f)) \/ (\E d \in Dir : ChangeConfig(d))
  <2>1. UNCHANGED <<inbox, running>>
    BY <1>10 DEF ChangeFile, ChangeConfig, editor, server
  <2>2. budget'.messages = budget.messages
    BY <1>10 DEF ChangeFile, ChangeConfig, Types
  <2> QED
    BY <1>6, <2>1, <2>2
<1>11. CASE Sync \/ Lookup \/ DidSave \/ Shutdown \/ Exit
  <2>1. PICK type \in MessageType : Receive(type)
    BY <1>11 DEF Sync, DidOpen, DidChange, DidClose, Lookup, Definition, Completion, DependencyGraph,
                 DidSave, Shutdown, Exit, MessageType, SyncTypes, Requests
  <2>2. budget' = budget
    BY <1>11 DEF Sync, DidOpen, DidChange, DidClose, Lookup, Definition, Completion, DependencyGraph,
                 DidSave, Shutdown, Exit
  <2> QED
    BY <1>5, <2>1, <2>2
<1>12. CASE AnswerGraph \/ Load \/ Publish
  <2>1. UNCHANGED <<inbox, running, budget>>
    BY <1>12 DEF AnswerGraph, Load, ListFiles, ReadFiles, Publish, editor
  <2> QED
    BY <1>6, <2>1
<1> QED
  BY <1>3, <1>7, <1>8, <1>9, <1>10, <1>11, <1>12
  DEF Next, Environment, Server, Sync, Lookup, Load

-----------------------------------------------------------------------------
(* Open files are tracked once, and what is closed shows nothing *)

OpenFilesAreTracked ==
    \A d \in Dir : \A f \in projects[d].openFiles :
        docs[f] # Closed /\ \A e \in Dir \ {d} : f \notin projects[e].openFiles

ClosedShowsNothing == \A f \in File : docs[f] = Closed => shown[f] = "none"

\* A file whose didOpen is read is closed on the server.
LEMMA OpensTheClosed ==
    ASSUME Stream(inbox, docs, buffer), inbox # << >>, NEW m, m = Head(inbox), m.file \in File,
           m.type \in SyncTypes
    PROVE  m.type = "didOpen" <=> docs[m.file] = Closed
<1>1. PICK n \in Nat : n = Len(inbox) /\ n # 0
  BY EmptySeq, LenProperties DEF Stream, WellFormed
<1>2. m = inbox[1] /\ 1 \in 1..n /\ 1..(1 - 1) = {}
  BY <1>1
<1>3. About(inbox[1], m.file)
  BY <1>2 DEF About
<1> QED
  BY <1>1, <1>2, <1>3 DEF Stream, Alternates

\* Only the handlers of the three messages change which files are open.
LEMMA OpenFilesStay ==
    ASSUME Types, WellFormed(inbox), [Next]_vars, ~Sync
    PROVE  /\ docs' = docs
           /\ \A d \in Dir : projects'[d].openFiles = projects[d].openFiles
<1> projects \in [Dir -> Project] /\ conf \in [Dir -> Config]
  BY DEF Types
<1>1. CASE Environment \/ UNCHANGED vars
  BY <1>1 DEF Environment, Open, Type, Save, Close, Ask, Quit, ChangeFile, ChangeConfig,
              vars, server, session
<1>2. CASE Lookup
  <2>1. PICK m, f : m = Head(inbox) /\ f = m.file
    OBVIOUS
  <2>2. /\ docs' = docs /\ f \in File
        /\ projects' = projects \/ \E d \in Owners(f) : projects' = Resolved(projects, d)
    BY <1>2, <2>1, LookupShape
  <2>3. ASSUME NEW d \in Owners(f), projects' = Resolved(projects, d)
        PROVE  \A e \in Dir : projects'[e].openFiles = projects[e].openFiles
    <3>1. d \in Dir
      BY OwnersAreDirs DEF Owners
    <3>2. PICK ps : ps = Resolved(projects, d)
      OBVIOUS
    <3>3. ps[d].openFiles = projects[d].openFiles /\ \A e \in Dir \ {d} : ps[e] = projects[e]
      BY <3>1, <3>2, ResolvedShape
    <3> QED
      BY <2>3, <3>2, <3>3
  <2> QED
    BY <2>2, <2>3
<1>3. CASE Load
  <2>1. PICK d : d = task.project
    OBVIOUS
  <2>2. d \in Dir /\ docs' = docs /\ (Gone(d) \/ Found(d) \/ Checked(d) \/ Reindexed(d))
    BY <1>3, <2>1, LoadShape
  <2>3. ASSUME NEW x \in Symbols, projects' = [projects EXCEPT ![d].symbols = x]
        PROVE  \A e \in Dir : projects'[e].openFiles = projects[e].openFiles
    <3>1. PICK ps : ps = [projects EXCEPT ![d].symbols = x]
      OBVIOUS
    <3>2. ps[d].openFiles = projects[d].openFiles /\ \A e \in Dir \ {d} : ps[e] = projects[e]
      BY <2>2, <3>1, IndexedShape
    <3> QED
      BY <2>3, <3>1, <3>2
  <2>4. CASE Gone(d)
    BY <2>2, <2>3, <2>4, NothingIsLoaded DEF Gone
  <2>5. CASE Found(d) \/ Checked(d)
    BY <2>2, <2>5 DEF Found, Checked
  <2>6. CASE Reindexed(d)
    BY <2>2, <2>3, <2>6 DEF Reindexed
  <2> QED
    BY <2>2, <2>4, <2>5, <2>6
<1>4. CASE DidSave \/ Shutdown \/ Exit \/ AnswerGraph \/ Publish
  BY <1>4 DEF DidSave, Shutdown, Exit, AnswerGraph, Publish, session
<1> QED
  BY <1>1, <1>2, <1>3, <1>4 DEF Next, Server, Sync, Lookup, Load

LEMMA TrackingKeeps ==
    ASSUME Types, Stream(inbox, docs, buffer), OpenFilesAreTracked, ClosedShowsNothing, [Next]_vars
    PROVE  OpenFilesAreTracked' /\ ClosedShowsNothing'
<1> WellFormed(inbox)
  BY DEF Stream
<1> projects \in [Dir -> Project] /\ conf \in [Dir -> Config]
  BY DEF Types
<1>1. CASE ~Sync
  <2>1. /\ docs' = docs
        /\ \A d \in Dir : projects'[d].openFiles = projects[d].openFiles
    BY <1>1, OpenFilesStay
  <2>2. OpenFilesAreTracked'
    BY <2>1 DEF OpenFilesAreTracked
  <2>3. CASE ~Publish
    <3>1. shown' = shown
      <4>1. ASSUME Lookup PROVE shown' = shown
        BY <4>1, LookupShape
      <4> QED
        BY <1>1, <2>3, <4>1 DEF Next, Environment, Open, Type, Save, Close, Ask, Quit, ChangeFile,
              ChangeConfig, Server, Sync, Lookup, DidSave, Shutdown, Exit, AnswerGraph, ListFiles,
              ReadFiles, vars, editor
    <3> QED
      BY <2>1, <2>2, <3>1 DEF ClosedShowsNothing
  <2>4. CASE Publish
    <3>1. PICK d : d = task.project
      OBVIOUS
    <3>2. /\ d \in Dir
          /\ shown' = [f \in File |-> IF f \in projects[d].openFiles
                                      THEN Diagnose(task.loaded, f)
                                      ELSE shown[f]]
      BY <2>4, <3>1, PublishShape
    <3> QED
      BY <2>1, <2>2, <3>2 DEF ClosedShowsNothing, OpenFilesAreTracked
  <2> QED
    BY <2>3, <2>4
<1>2. CASE Sync
  <2>1. PICK m, f : m = Head(inbox) /\ f = m.file
    OBVIOUS
  <2>2. /\ m \in Messages /\ Carries(m) /\ f \in File /\ m.type \in SyncTypes /\ inbox # << >>
        /\ docs' = [docs EXCEPT ![f] = Leaves(m)]
        /\ \/ m.type \in {"didOpen", "didChange"} /\ Owners(f) = {} /\ Unowned(f)
           \/ m.type = "didClose" /\ Holders(f) = {} /\ Unowned(f)
           \/ m.type = "didOpen" /\ \E d \in Owners(f) : OpenIn(f, d)
           \/ m.type = "didChange" /\ \E d \in Owners(f) : ChangeIn(d)
           \/ m.type = "didClose" /\ \E d \in Holders(f) : CloseIn(f, d)
    BY <1>2, <2>1, SyncShape
  <2>3. Leaves(m) = Closed <=> m.type = "didClose"
    BY <2>2, LeavesClosed
  <2>4. m.type = "didOpen" <=> docs[f] = Closed
    BY <2>1, <2>2, OpensTheClosed
  <2>5. docs'[f] = Leaves(m) /\ \A g \in File \ {f} : docs'[g] = docs[g]
    BY <2>2 DEF Types
  <2>6. Owners(f) \subseteq Dir /\ Holders(f) \subseteq Dir
    BY OwnersAreDirs DEF Owners, Holders
  <2>7. \A d \in Dir : projects[d].openFiles \subseteq File
    BY DEF Project
  <2>8. CASE Unowned(f) /\ (m.type = "didClose" => Holders(f) = {})
    <3>1. projects' = projects /\ shown' = [shown EXCEPT ![f] = "none"]
      BY <2>8 DEF Unowned
    <3>2. m.type = "didClose" => Holders(f) = {}
      BY <2>8
    <3>3. ASSUME NEW d \in Dir, NEW g \in projects[d].openFiles PROVE docs'[g] # Closed
      BY <2>3, <2>5, <2>7, <3>2, <3>3 DEF Holders, OpenFilesAreTracked
    <3>4. OpenFilesAreTracked'
      BY <3>1, <3>3 DEF OpenFilesAreTracked
    <3>5. ClosedShowsNothing'
      BY <2>2, <2>5, <2>8 DEF ClosedShowsNothing, Types, Unowned
    <3> QED
      BY <3>4, <3>5
  <2>9. ASSUME NEW d \in Owners(f), m.type = "didOpen", OpenIn(f, d)
        PROVE  OpenFilesAreTracked' /\ ClosedShowsNothing'
    <3>1. PICK ps : ps = Tracked(d, f)
      OBVIOUS
    <3>2. /\ ps[d].openFiles = projects[d].openFiles \cup {f}
          /\ \A e \in Dir \ {d} : ps[e] = projects[e]
      <4>1. d \in Dir /\ f \in File
        BY <2>2, <2>6
      <4> QED
        BY <3>1, <4>1, OpenedShape
    <3>3. projects' = ps /\ shown' = shown
      BY <2>9, <3>1 DEF OpenIn
    <3>4. docs[f] = Closed /\ docs'[f] # Closed
      BY <2>3, <2>4, <2>5, <2>9
    <3>5. \A e \in Dir : f \notin projects[e].openFiles
      BY <3>4 DEF OpenFilesAreTracked
    <3>6. OpenFilesAreTracked'
      <4> SUFFICES ASSUME NEW e \in Dir, NEW g \in projects'[e].openFiles
                   PROVE  docs'[g] # Closed /\ \A h \in Dir \ {e} : g \notin projects'[h].openFiles
        BY DEF OpenFilesAreTracked
      <4>1. CASE g = f
        BY <3>2, <3>3, <3>4, <3>5, <4>1
      <4>2. CASE g # f
        <5>1. g \in projects[e].openFiles /\ \A h \in Dir : g \in projects'[h].openFiles => g \in projects[h].openFiles
          BY <2>6, <3>2, <3>3, <4>2
        <5> QED
          BY <2>5, <2>7, <4>2, <5>1 DEF OpenFilesAreTracked
      <4> QED
        BY <4>1, <4>2
    <3>7. ClosedShowsNothing'
      BY <2>5, <3>3, <3>4 DEF ClosedShowsNothing
    <3> QED
      BY <3>6, <3>7
  <2>10. ASSUME NEW d \in Owners(f), m.type = "didChange", ChangeIn(d)
         PROVE  OpenFilesAreTracked' /\ ClosedShowsNothing'
    <3>1. PICK ps : ps = Resolved(projects, d)
      OBVIOUS
    <3>2. ps[d].openFiles = projects[d].openFiles /\ \A e \in Dir \ {d} : ps[e] = projects[e]
      BY <2>6, <3>1, ResolvedShape
    <3>3. projects' = ps /\ shown' = shown
      BY <2>10, <3>1 DEF ChangeIn
    <3>4. \A e \in Dir : projects'[e].openFiles = projects[e].openFiles
      BY <3>2, <3>3
    <3>5. docs'[f] # Closed
      BY <2>3, <2>5, <2>10
    <3>6. OpenFilesAreTracked'
      BY <2>5, <2>7, <3>4, <3>5 DEF OpenFilesAreTracked
    <3>7. ClosedShowsNothing'
      BY <2>5, <3>3, <3>5 DEF ClosedShowsNothing
    <3> QED
      BY <3>6, <3>7
  <2>11. ASSUME NEW d \in Holders(f), m.type = "didClose", CloseIn(f, d)
         PROVE  OpenFilesAreTracked' /\ ClosedShowsNothing'
    <3>1. PICK ps : ps = Untracked(d, f)
      OBVIOUS
    <3>2. ps[d].openFiles = projects[d].openFiles \ {f} /\ \A e \in Dir \ {d} : ps[e] = projects[e]
      BY <2>2, <2>6, <3>1, UntrackedShape
    <3>3. projects' = ps /\ shown' = [shown EXCEPT ![f] = "none"]
      BY <2>11, <3>1 DEF CloseIn
    <3>4. \A e \in Dir \ {d} : f \notin projects[e].openFiles
      BY <2>6 DEF Holders, OpenFilesAreTracked
    <3>5. \A e \in Dir : projects'[e].openFiles = projects[e].openFiles \ {f}
      BY <3>2, <3>3, <3>4
    <3>6. OpenFilesAreTracked'
      BY <2>5, <2>7, <3>5 DEF OpenFilesAreTracked
    <3>7. ClosedShowsNothing'
      BY <2>2, <2>5, <3>3 DEF ClosedShowsNothing, Types
    <3> QED
      BY <3>6, <3>7
  <2> QED
    BY <2>2, <2>8, <2>9, <2>10, <2>11
<1> QED
  BY <1>1, <1>2

-----------------------------------------------------------------------------
(* What follows for every behaviour *)

\* The inductive invariant about the overlay.
InStep ==
    /\ Types
    /\ Stream(inbox, docs, buffer)
    /\ InboxIsBounded
    /\ OpenFilesAreTracked
    /\ ClosedShowsNothing

LEMMA InitInStep == Init => InStep
<1> SUFFICES ASSUME Init PROVE InStep
  OBVIOUS
<1>1. Types /\ Stream(inbox, docs, buffer)
  BY InitTypes, InitStream
<1>2. InboxIsBounded
  BY EmptySeq DEF Init, InboxIsBounded
<1>3. OpenFilesAreTracked /\ ClosedShowsNothing
  BY DEF Init, OpenFilesAreTracked, ClosedShowsNothing
<1> QED
  BY <1>1, <1>2, <1>3 DEF InStep

LEMMA NextInStep == InStep /\ [Next]_vars => InStep'
<1> SUFFICES ASSUME InStep, [Next]_vars PROVE InStep'
  OBVIOUS
<1>1. /\ Types /\ Stream(inbox, docs, buffer) /\ WellFormed(inbox) /\ InboxIsBounded
      /\ OpenFilesAreTracked /\ ClosedShowsNothing
  BY DEF InStep, Stream
<1>2. Types'
  BY <1>1, TypesKeep
<1>3. Stream(inbox, docs, buffer)'
  BY <1>1, StreamKeeps
<1>4. InboxIsBounded'
  BY <1>1, BoundKeeps
<1>5. OpenFilesAreTracked' /\ ClosedShowsNothing'
  BY <1>1, TrackingKeeps
<1> QED
  BY <1>2, <1>3, <1>4, <1>5 DEF InStep

LEMMA AlwaysInStep == Spec => []InStep
BY InitInStep, NextInStep, PTL DEF Spec

\* The variables have their types, and the inbox its bound.
THEOREM TypesHold == Spec => []TypeOK
<1>1. InStep => TypeOK
  <2> SUFFICES ASSUME InStep PROVE TypeOK
    OBVIOUS
  <2>1. Types /\ WellFormed(inbox) /\ InboxIsBounded
    BY DEF InStep, Stream
  <2>2. Len(inbox) <= MaxMessages + 1
    <3>1. Len(inbox) \in Nat /\ budget.messages \in 0..MaxMessages /\ MaxMessages \in Nat
      BY <2>1, LenProperties, BoundsAssumption DEF WellFormed, Types
    <3> QED
      BY <2>1, <3>1 DEF InboxIsBounded
  <2>3. ASSUME NEW d \in Dir
        PROVE  /\ projects[d].cfg \in Config /\ projects[d].openFiles \subseteq File
               /\ DOMAIN projects[d].symbols.texts \subseteq projects[d].symbols.root
    BY <2>1 DEF Types, Project, Symbols
  <2> QED
    BY <2>1, <2>2, <2>3 DEF TypeOK, Types, TaskIsWellFormed
<1> QED
  BY <1>1, AlwaysInStep, PTL

\* Whatever is opened, typed and closed, and whatever happens to the configs:
\* once the server has read every message, its overlay is what the editor has
\* open, and no file is tracked by two projects or tracked without being open.
THEOREM OverlayIsTheBuffers == Spec => []OverlayFollowsBuffers
<1>1. InStep => OverlayFollowsBuffers
  <2> SUFFICES ASSUME InStep, inbox = << >> PROVE docs = buffer
    BY DEF InStep, OverlayFollowsBuffers, OpenFilesAreTracked
  <2>1. Len(inbox) = 0
    BY EmptySeq
  <2>2. ASSUME NEW f \in File PROVE docs[f] = buffer[f]
    BY <2>1 DEF InStep, Stream, EndsIn
  <2>3. docs \in [File -> Text \cup {Closed}] /\ buffer \in [File -> Text \cup {Closed}]
    BY DEF InStep, Types
  <2>4. docs = [f \in File |-> docs[f]] /\ buffer = [f \in File |-> buffer[f]]
    BY <2>3
  <2> QED
    BY <2>2, <2>4
<1> QED
  BY <1>1, AlwaysInStep, PTL

\* A file that is not open shows nothing, once the server is quiet: each close
\* clears what it showed, and no check that began before publishes to it after.
THEOREM ClosedFilesShowNothing == Spec => []NoGhostDiagnostics
<1>1. InStep => NoGhostDiagnostics
  <2> SUFFICES ASSUME InStep, inbox = << >>, NEW f \in File, buffer[f] = Closed PROVE shown[f] = "none"
    BY DEF NoGhostDiagnostics, Quiet
  <2>1. Len(inbox) = 0
    BY EmptySeq
  <2>2. docs[f] = buffer[f]
    BY <2>1 DEF InStep, Stream, EndsIn
  <2> QED
    BY <2>2 DEF InStep, ClosedShowsNothing
<1> QED
  BY <1>1, AlwaysInStep, PTL

-----------------------------------------------------------------------------
(* What is shown and answered is current                                   *)
(*                                                                         *)
(* The overlay invariants above are the base.  On top of them, an          *)
(* invariant says what the handler at work has loaded, and that what is    *)
(* left of the handlers before it, the index and the diagnostics shown,    *)
(* was loaded from the texts that are there now.                           *)

\* As long as no config has changed, they are those of some start.
StartConfigs == SameConfigs => \E s \in Start : conf = s.conf

Running == task.step \in {"list", "read", "publish"}
OnProject(d) == Running /\ task.project = d

\* The open files of a project are those it owns, and its config is the one
\* on disk.
ProjectsAreResolved ==
    SameConfigs => \A d \in Dir :
        /\ projects[d].openFiles # {} \/ OnProject(d) => projects[d].cfg = conf[d]
        /\ \A f \in projects[d].openFiles : d \in Owners(f)
        /\ \A f \in File : docs[f] # Closed /\ d \in Owners(f) => f \in projects[d].openFiles

\* The files a load of d finds.
Files(d) == Listed(conf[d])

\* What the handler at work has listed and loaded is what there is.
RunIsCurrent ==
    SameConfigs => \A d \in unchanged : OnProject(d) =>
        /\ task.step = "publish" \/ task.round = 2 => task.loaded = Present(d)
        /\ task.step = "read" => task.listed = Files(d)

Owned(d) == \E f \in File : d \in Owners(f)

\* The index of d was built from what there is.
Indexed(d) ==
    /\ projects[d].symbols.texts = Present(d)
    /\ projects[d].symbols.root = conf[d].tree \/ Files(d) = {}

Loading(d) == task.step \in {"list", "read"} /\ task.project = d

SymbolsAreCurrent ==
    SameConfigs => \A d \in unchanged : Owned(d) /\ ~Loading(d) => Indexed(d)

\* Every open file shows the diagnostics of what there is.
ShownIsCurrent ==
    SameConfigs => \A d \in unchanged : ~OnProject(d) =>
        \A f \in projects[d].openFiles : shown[f] = Diagnose(Present(d), f)

Graphing(d, f) == task.step = "graph" /\ task.project = d /\ task.from = f

\* The files of the graph are those there are.
GraphIsCurrent ==
    SameConfigs => \A d \in Dir, f \in File : Graphing(d, f) =>
        /\ d \in Owners(f)
        /\ d \in unchanged => task.listed = Files(d)

Current ==
    /\ StartConfigs
    /\ ProjectsAreResolved
    /\ RunIsCurrent
    /\ SymbolsAreCurrent
    /\ ShownIsCurrent
    /\ GraphIsCurrent

-----------------------------------------------------------------------------
(* Projects and their files *)

\* A file has one owner.
LEMMA OwnerIsUnique ==
    ASSUME NEW cs \in [Dir -> Config], NEW f \in File, NEW d \in OwnersIn(cs, f), NEW e \in OwnersIn(cs, f)
    PROVE  d = e
<1>1. PICK k \in DOMAIN Above[f] : Above[f][k] = d /\ cs[d].usable /\ \A j \in 1..(k - 1) : ~cs[Above[f][j]].present
  BY DEF OwnersIn
<1>2. PICK l \in DOMAIN Above[f] : Above[f][l] = e /\ cs[e].usable /\ \A j \in 1..(l - 1) : ~cs[Above[f][j]].present
  BY DEF OwnersIn
<1>3. k \in Nat \ {0} /\ l \in Nat \ {0}
  <2>1. Above[f] \in Seq(Dir)
    BY AboveAssumption
  <2> QED
    BY <1>1, <1>2, <2>1
<1>4. cs[d].present /\ cs[e].present
  <2>1. d \in Dir /\ e \in Dir
    BY OwnersAreDirs
  <2> QED
    BY <1>1, <1>2, <2>1 DEF Config
<1>5. ~(k < l) /\ ~(l < k)
  <2>1. k < l => k \in 1..(l - 1)
    BY <1>3
  <2>2. l < k => l \in 1..(k - 1)
    BY <1>3
  <2> QED
    BY <1>1, <1>2, <1>4, <2>1, <2>2
<1> QED
  BY <1>1, <1>2, <1>3, <1>5

\* A project that owns a file owns all that it loads.
LEMMA OwnsItsTree ==
    ASSUME WholeTrees, Types, StartConfigs, SameConfigs, NEW d \in Dir, Owned(d),
           NEW g \in conf[d].tree
    PROVE  g \in File /\ d \in Owners(g)
<1>1. PICK s \in Start : conf = s.conf
  BY DEF StartConfigs
<1>2. PICK f \in File : d \in OwnersIn(s.conf, f)
  BY <1>1 DEF Owned, Owners
<1>3. g \in File
  BY DEF Types, Config
<1> QED
  BY <1>1, <1>2, <1>3 DEF WholeTrees, Owners

\* A file that is listed has a text.
LEMMA ListedHasText ==
    ASSUME Types, NEW d \in Dir, NEW f \in Files(d)
    PROVE  f \in conf[d].tree /\ f \in File /\ Effective(f) \in Text
<1>1. f \in conf[d].tree /\ disk[f] # Missing
  BY DEF Files, Listed
<1>2. conf[d].tree \subseteq File
  BY DEF Types, Config
<1> QED
  BY <1>1, <1>2 DEF Effective, Types

LEMMA NothingIsPresent ==
    ASSUME NEW d \in Dir, Files(d) = {}
    PROVE  Present(d) = << >>
<1>1. Present(d) = [f \in {} |-> Effective(f)]
  BY DEF Present, Files
<1> QED
  BY <1>1

\* What a project loads stays if the texts of its files do.
LEMMA PresentStays ==
    ASSUME UNCHANGED <<disk, conf>>, NEW d \in Dir, \A g \in conf[d].tree : docs'[g] = docs[g]
    PROVE  Present(d)' = Present(d) /\ Files(d)' = Files(d)
<1>1. Listed(conf[d])' = Listed(conf[d])
  BY DEF Listed
<1>2. \A g \in Listed(conf[d]) : Effective(g)' = Effective(g)
  BY DEF Effective, Listed
<1> QED
  BY <1>1, <1>2 DEF Present, Files

-----------------------------------------------------------------------------
(* Steps that change no text the server has *)

LEMMA PresentInFrame ==
    ASSUME UNCHANGED <<disk, conf, docs>>
    PROVE  /\ \A d : Present(d)' = Present(d) /\ Files(d)' = Files(d)
           /\ \A f : Owners(f)' = Owners(f)
           /\ \A d : Owned(d)' <=> Owned(d)
BY DEF Present, Files, Listed, Effective, Owners, Owned

\* The editor sends, or the server reads a message that changes nothing.
LEMMA IdleKeepsCurrent ==
    ASSUME Current, UNCHANGED <<disk, conf, shown, docs, projects, task, unchanged>>,
           budget'.configs = budget.configs
    PROVE  Current'
<1>1. SameConfigs' <=> SameConfigs
  BY DEF SameConfigs
<1>2. /\ \A d : Present(d)' = Present(d) /\ Files(d)' = Files(d)
      /\ \A f : Owners(f)' = Owners(f)
      /\ \A d : Owned(d)' <=> Owned(d)
  BY PresentInFrame
<1>3. \A d : (OnProject(d)' <=> OnProject(d)) /\ (Loading(d)' <=> Loading(d))
  BY DEF OnProject, Running, Loading
<1>4. \A d, f : Graphing(d, f)' <=> Graphing(d, f)
  BY DEF Graphing
<1>5. StartConfigs'
  BY <1>1 DEF Current, StartConfigs
<1>6. ProjectsAreResolved'
  BY <1>1, <1>2, <1>3 DEF Current, ProjectsAreResolved
<1>7. RunIsCurrent'
  BY <1>1, <1>2, <1>3 DEF Current, RunIsCurrent
<1>8. SymbolsAreCurrent'
  BY <1>1, <1>2, <1>3 DEF Current, SymbolsAreCurrent, Indexed
<1>9. ShownIsCurrent'
  BY <1>1, <1>2, <1>3 DEF Current, ShownIsCurrent
<1>10. GraphIsCurrent'
  BY <1>1, <1>2, <1>4 DEF Current, GraphIsCurrent
<1> QED
  BY <1>5, <1>6, <1>7, <1>8, <1>9, <1>10 DEF Current

\* Once a config has changed nothing is said.
LEMMA ConfigsKeepCurrent ==
    ASSUME ~SameConfigs'
    PROVE  Current'
BY DEF Current, StartConfigs, ProjectsAreResolved, RunIsCurrent, SymbolsAreCurrent, ShownIsCurrent,
       GraphIsCurrent

\* A schema file changes: nothing is said of any project until it is checked.
LEMMA DiskKeepsCurrent ==
    ASSUME Current, UNCHANGED <<conf, shown, docs, projects, task>>, unchanged' = {},
           budget'.configs = budget.configs
    PROVE  Current'
<1>1. SameConfigs' <=> SameConfigs
  BY DEF SameConfigs
<1>2. \A f : Owners(f)' = Owners(f)
  BY DEF Owners
<1>3. \A d : OnProject(d)' <=> OnProject(d)
  BY DEF OnProject, Running
<1>4. \A d, f : Graphing(d, f)' <=> Graphing(d, f)
  BY DEF Graphing
<1>5. StartConfigs'
  BY <1>1 DEF Current, StartConfigs
<1>6. ProjectsAreResolved'
  BY <1>1, <1>2, <1>3 DEF Current, ProjectsAreResolved
<1>7. RunIsCurrent' /\ SymbolsAreCurrent' /\ ShownIsCurrent'
  BY DEF RunIsCurrent, SymbolsAreCurrent, ShownIsCurrent
<1>8. GraphIsCurrent'
  BY <1>1, <1>2, <1>4 DEF Current, GraphIsCurrent
<1> QED
  BY <1>5, <1>6, <1>7, <1>8 DEF Current

LEMMA EditorKeepsCurrent ==
    ASSUME Types, Current, Environment
    PROVE  Current'
<1>1. CASE \E f \in File : Open(f) \/ Type(f) \/ Close(f)
  <2>1. UNCHANGED <<disk, conf, shown, docs, projects, task, unchanged>>
    BY <1>1 DEF Open, Type, Close, world, server, session
  <2>2. budget'.configs = budget.configs
    BY <1>1, SendAllShape DEF Open, Type, Close, Send
  <2> QED
    BY <2>1, <2>2, IdleKeepsCurrent
<1>2. CASE (\E f \in File, request \in Requests : Ask(f, request)) \/ Quit
  <2>1. UNCHANGED <<disk, conf, shown, docs, projects, task, unchanged>>
    BY <1>2 DEF Ask, Quit, world, server, session
  <2>2. budget'.configs = budget.configs
    BY <1>2, SendAllShape DEF Ask, Quit, Send
  <2> QED
    BY <2>1, <2>2, IdleKeepsCurrent
<1>3. CASE \E f \in File : Save(f) \/ ChangeFile(f)
  <2>1. UNCHANGED <<conf, shown, docs, projects, task>> /\ unchanged' = {}
    BY <1>3 DEF Save, ChangeFile, editor, server, session
  <2>2. budget'.configs = budget.configs
    <3>1. ASSUME NEW f \in File, Save(f) PROVE budget'.configs = budget.configs
      BY <3>1, SendAllShape DEF Save, Send
    <3>2. ASSUME NEW f \in File, ChangeFile(f) PROVE budget'.configs = budget.configs
      BY <3>2 DEF ChangeFile, Types
    <3> QED
      BY <1>3, <3>1, <3>2
  <2> QED
    BY <2>1, <2>2, DiskKeepsCurrent
<1>4. CASE \E d \in Dir : ChangeConfig(d)
  <2>1. budget'.configs = budget.configs + 1 /\ budget.configs \in Nat
    BY <1>4 DEF ChangeConfig, Types
  <2>2. ~SameConfigs'
    BY <2>1 DEF SameConfigs
  <2> QED
    BY <2>2, ConfigsKeepCurrent
<1> QED
  BY <1>1, <1>2, <1>3, <1>4 DEF Environment

\* A request looks its config up, and the index and the diagnostics stay.
LEMMA LookupKeepsCurrent ==
    ASSUME Types, WellFormed(inbox), Current, Lookup
    PROVE  Current'
<1>1. PICK m, f : m = Head(inbox) /\ f = m.file
  OBVIOUS
<1>2. /\ f \in File /\ task.step = "idle"
      /\ UNCHANGED <<disk, conf, buffer, shown, docs, unchanged, budget>>
      /\ \/ UNCHANGED <<projects, task>>
         \/ \E d \in Owners(f) : projects' = Resolved(projects, d) /\ UNCHANGED task
         \/ \E d \in Owners(f) : projects' = Resolved(projects, d) /\ task' = GraphTask(f, d)
  BY <1>1, LookupShape
<1>3. CASE UNCHANGED <<projects, task>>
  BY <1>2, <1>3, IdleKeepsCurrent
<1>4. ASSUME NEW d \in Owners(f), projects' = Resolved(projects, d),
             UNCHANGED task \/ task' = GraphTask(f, d)
      PROVE  Current'
  <2>1. SameConfigs' <=> SameConfigs
    BY <1>2 DEF SameConfigs
  <2>2. /\ \A e : Present(e)' = Present(e) /\ Files(e)' = Files(e)
        /\ \A g : Owners(g)' = Owners(g)
        /\ \A e : Owned(e)' <=> Owned(e)
    BY <1>2, PresentInFrame
  <2>3. PICK ps : ps = Resolved(projects, d)
    OBVIOUS
  <2>4. d \in Dir
    BY OwnersAreDirs DEF Owners
  <2>5. /\ ps[d].cfg = conf[d] /\ ps[d].openFiles = projects[d].openFiles
        /\ ps[d].symbols = projects[d].symbols
        /\ \A e \in Dir \ {d} : ps[e] = projects[e]
    BY <2>3, <2>4, ResolvedShape DEF Types
  <2>6. /\ projects'[d].cfg = conf[d]
        /\ \A e \in Dir : /\ projects'[e].openFiles = projects[e].openFiles
                          /\ projects'[e].symbols = projects[e].symbols
                          /\ projects'[e].cfg = IF e = d THEN conf[d] ELSE projects[e].cfg
    BY <1>4, <2>3, <2>5
  <2>7. ~Running /\ ~Running'
    BY <1>2, <1>4 DEF Running, GraphTask
  <2>8. \A e : ~OnProject(e) /\ ~OnProject(e)' /\ ~Loading(e) /\ ~Loading(e)'
    BY <2>7 DEF OnProject, Running, Loading
  <2>9. unchanged \subseteq Dir
    BY DEF Types
  <2>10. StartConfigs'
    BY <1>2, <2>1 DEF Current, StartConfigs
  <2>11. ProjectsAreResolved'
    BY <1>2, <2>1, <2>2, <2>6, <2>8 DEF Current, ProjectsAreResolved
  <2>12. RunIsCurrent'
    BY <2>8 DEF RunIsCurrent
  <2>13. SymbolsAreCurrent'
    BY <1>2, <2>1, <2>2, <2>6, <2>8, <2>9 DEF Current, SymbolsAreCurrent, Indexed
  <2>14. ShownIsCurrent'
    BY <1>2, <2>1, <2>2, <2>6, <2>8, <2>9 DEF Current, ShownIsCurrent
  <2>15. GraphIsCurrent'
    <3>1. ASSUME NEW e \in Dir, NEW g \in File, Graphing(e, g)' PROVE e = d /\ g = f /\ task'.listed = Files(e)
      BY <1>2, <1>4, <3>1 DEF Graphing, GraphTask, Files
    <3> QED
      BY <2>2, <3>1 DEF GraphIsCurrent
  <2> QED
    BY <2>10, <2>11, <2>12, <2>13, <2>14, <2>15 DEF Current
<1> QED
  BY <1>2, <1>3, <1>4

\* The graph is answered.
LEMMA AnswerKeepsCurrent ==
    ASSUME Current, AnswerGraph
    PROVE  Current'
<1>1. UNCHANGED <<disk, conf, shown, docs, projects, unchanged, budget>>
  BY DEF AnswerGraph, world, editor, session
<1>2. task.step = "graph" /\ task'.step = "idle"
  BY DEF AnswerGraph, Idle
<1>3. SameConfigs' <=> SameConfigs
  BY <1>1 DEF SameConfigs
<1>4. /\ \A d : Present(d)' = Present(d) /\ Files(d)' = Files(d)
      /\ \A f : Owners(f)' = Owners(f)
      /\ \A d : Owned(d)' <=> Owned(d)
  BY <1>1, PresentInFrame
<1>5. /\ \A d : ~OnProject(d) /\ ~OnProject(d)' /\ ~Loading(d) /\ ~Loading(d)'
      /\ \A d, f : ~Graphing(d, f)'
  BY <1>2 DEF OnProject, Running, Loading, Graphing
<1>6. StartConfigs'
  BY <1>1, <1>3 DEF Current, StartConfigs
<1>7. ProjectsAreResolved'
  BY <1>1, <1>3, <1>4, <1>5 DEF Current, ProjectsAreResolved
<1>8. RunIsCurrent' /\ GraphIsCurrent'
  BY <1>5 DEF RunIsCurrent, GraphIsCurrent
<1>9. SymbolsAreCurrent'
  BY <1>1, <1>3, <1>4, <1>5 DEF Current, SymbolsAreCurrent, Indexed
<1>10. ShownIsCurrent'
  BY <1>1, <1>3, <1>4, <1>5 DEF Current, ShownIsCurrent
<1> QED
  BY <1>6, <1>7, <1>8, <1>9, <1>10 DEF Current

-----------------------------------------------------------------------------
(* The messages that change the overlay *)

LEMMA OwnersStay ==
    ASSUME UNCHANGED conf
    PROVE  (\A f : Owners(f)' = Owners(f)) /\ (\A d : Owned(d)' <=> Owned(d))
BY DEF Owners, Owned

\* Nothing that a project loads changes when f, of no project, does.
LEMMA UnownedKeepsCurrent ==
    ASSUME WholeTrees, Types, Current, SameConfigs, task.step = "idle",
           UNCHANGED <<disk, conf, budget>>, NEW f \in File, Owners(f) = {}, Unowned(f),
           NEW t, docs' = [docs EXCEPT ![f] = t]
    PROVE  Current'
<1>1. SameConfigs' /\ UNCHANGED <<projects, task, unchanged>>
  BY DEF SameConfigs, Unowned
<1>2. (\A g : Owners(g)' = Owners(g)) /\ (\A d : Owned(d)' <=> Owned(d))
  BY OwnersStay
<1>3. \A g \in File \ {f} : docs'[g] = docs[g] /\ shown'[g] = shown[g]
  BY DEF Unowned, Types
<1>4. ASSUME NEW d \in Dir, Owned(d) PROVE Present(d)' = Present(d) /\ Files(d)' = Files(d)
  <2>1. \A g \in conf[d].tree : g \in File /\ g # f
    BY <1>4, OwnsItsTree DEF Current
  <2> QED
    BY <1>3, <2>1, PresentStays
<1>5. ASSUME NEW d \in Dir, NEW g \in projects[d].openFiles PROVE Owned(d) /\ g \in File \ {f}
  <2>1. d \in Owners(g)
    BY <1>5 DEF Current, ProjectsAreResolved
  <2>2. g \in File
    BY <1>5 DEF Types, Project
  <2> QED
    BY <2>1, <2>2 DEF Owned
<1>6. /\ \A d : ~OnProject(d) /\ ~OnProject(d)' /\ ~Loading(d) /\ ~Loading(d)'
      /\ \A d, g : ~Graphing(d, g)'
  BY <1>1 DEF OnProject, Running, Loading, Graphing
<1>7. unchanged \subseteq Dir
  BY DEF Types
<1>8. StartConfigs'
  BY DEF Current, StartConfigs
<1>9. ProjectsAreResolved'
  <2>1. ASSUME NEW d \in Dir PROVE projects[d].openFiles # {} => projects[d].cfg = conf[d]
    BY <2>1 DEF Current, ProjectsAreResolved
  <2>2. ASSUME NEW d \in Dir, NEW g \in projects[d].openFiles PROVE d \in Owners(g)
    BY <2>2 DEF Current, ProjectsAreResolved
  <2>3. ASSUME NEW d \in Dir, NEW g \in File, docs'[g] # Closed, d \in Owners(g)
        PROVE  g \in projects[d].openFiles
    <3>1. docs[g] # Closed
      BY <1>3, <2>3
    <3> QED
      BY <2>3, <3>1 DEF Current, ProjectsAreResolved
  <2> QED
    BY <1>1, <1>2, <1>6, <2>1, <2>2, <2>3 DEF ProjectsAreResolved
<1>10. RunIsCurrent' /\ GraphIsCurrent'
  BY <1>6 DEF RunIsCurrent, GraphIsCurrent
<1>11. SymbolsAreCurrent'
  BY <1>1, <1>2, <1>4, <1>6, <1>7 DEF Current, SymbolsAreCurrent, Indexed
<1>12. ShownIsCurrent'
  <2> SUFFICES ASSUME NEW d \in unchanged, NEW g \in projects[d].openFiles
               PROVE  shown'[g] = Diagnose(Present(d)', g)
    BY <1>1 DEF ShownIsCurrent
  <2>1. Present(d)' = Present(d) /\ shown'[g] = shown[g]
    BY <1>3, <1>4, <1>5, <1>7
  <2>2. shown[g] = Diagnose(Present(d), g)
    BY <1>6 DEF Current, ShownIsCurrent
  <2> QED
    BY <2>1, <2>2
<1> QED
  BY <1>8, <1>9, <1>10, <1>11, <1>12 DEF Current

\* A change to f, a file of project e alone, leaves what the others load; and
\* e is to be checked.
LEMMA RunKeepsCurrent ==
    ASSUME WholeTrees, Types, Current, SameConfigs, task.step = "idle",
           UNCHANGED <<disk, conf, budget>>, NEW f \in File, NEW e \in Owners(f), Run(e),
           NEW t, docs' = [docs EXCEPT ![f] = t],
           \A g \in File \ {f} : shown'[g] = shown[g],
           \A d \in Dir \ {e} : projects'[d] = projects[d] /\ f \notin projects[d].openFiles,
           projects'[e].cfg = conf[e],
           \A g \in projects'[e].openFiles : e \in Owners(g),
           \A g \in File : docs'[g] # Closed /\ e \in Owners(g) => g \in projects'[e].openFiles
    PROVE  Current'
<1>1. SameConfigs'
  BY DEF SameConfigs
<1>2. (\A g : Owners(g)' = Owners(g)) /\ (\A d : Owned(d)' <=> Owned(d))
  BY OwnersStay
<1>3. \A g \in File \ {f} : docs'[g] = docs[g]
  BY DEF Types
<1>4. e \in Dir
  BY OwnersAreDirs DEF Owners
<1>5. ASSUME NEW d \in Dir \ {e}, Owned(d) PROVE Present(d)' = Present(d) /\ Files(d)' = Files(d)
  <2>1. \A g \in conf[d].tree : g \in File /\ d \in Owners(g)
    BY <1>5, OwnsItsTree DEF Current
  <2>2. d \notin Owners(f)
    BY OwnerIsUnique DEF Owners, Types
  <2>3. \A g \in conf[d].tree : docs'[g] = docs[g]
    BY <1>3, <2>1, <2>2
  <2> QED
    BY <2>3, PresentStays
<1>6. /\ task'.step = "list" /\ task'.project = e /\ task'.round = 1
      /\ unchanged' = unchanged \cup {e}
  BY <1>4, RunShape
<1>7. /\ \A d : ~OnProject(d) /\ ~Loading(d) /\ (OnProject(d)' <=> d = e) /\ (Loading(d)' <=> d = e)
      /\ \A d, g : ~Graphing(d, g)'
  BY <1>6 DEF OnProject, Running, Loading, Graphing
<1>8. unchanged \subseteq Dir
  BY DEF Types
<1>9. StartConfigs'
  BY DEF Current, StartConfigs
<1>10. ProjectsAreResolved'
  <2>1. ASSUME NEW d \in Dir \ {e}
        PROVE  /\ projects[d].openFiles # {} => projects[d].cfg = conf[d]
               /\ \A g \in projects[d].openFiles : d \in Owners(g)
               /\ \A g \in File : docs[g] # Closed /\ d \in Owners(g) => g \in projects[d].openFiles
    BY <1>1 DEF Current, ProjectsAreResolved
  <2>2. ASSUME NEW d \in Dir \ {e}, NEW g \in File, docs'[g] # Closed, d \in Owners(g)
        PROVE  g \in projects[d].openFiles
    <3>1. g # f
      BY <2>2, OwnerIsUnique DEF Owners, Types
    <3> QED
      BY <1>3, <2>1, <2>2, <3>1
  <2> QED
    BY <1>2, <1>7, <2>1, <2>2 DEF ProjectsAreResolved
<1>11. RunIsCurrent'
  BY <1>6, <1>7 DEF RunIsCurrent
<1>12. GraphIsCurrent'
  BY <1>7 DEF GraphIsCurrent
<1>13. SymbolsAreCurrent'
  <2> SUFFICES ASSUME NEW d \in unchanged', Owned(d), ~Loading(d)' PROVE Indexed(d)'
    BY <1>2 DEF SymbolsAreCurrent
  <2>1. d \in unchanged \ {e} /\ d \in Dir \ {e}
    BY <1>6, <1>7, <1>8
  <2>2. Indexed(d)
    BY <1>7, <2>1 DEF Current, SymbolsAreCurrent
  <2> QED
    BY <1>5, <2>1, <2>2 DEF Indexed
<1>14. ShownIsCurrent'
  <2> SUFFICES ASSUME NEW d \in unchanged', ~OnProject(d)', NEW g \in projects'[d].openFiles
               PROVE  shown'[g] = Diagnose(Present(d)', g)
    BY DEF ShownIsCurrent
  <2>1. d \in unchanged \ {e} /\ d \in Dir \ {e}
    BY <1>6, <1>7, <1>8
  <2>2. g \in projects[d].openFiles /\ g \in File \ {f}
    BY <2>1 DEF Types, Project
  <2>3. Owned(d)
    BY <2>1, <2>2 DEF Current, ProjectsAreResolved, Owned
  <2>4. shown[g] = Diagnose(Present(d), g)
    BY <1>7, <2>1, <2>2 DEF Current, ShownIsCurrent
  <2> QED
    BY <1>5, <2>1, <2>2, <2>3, <2>4
<1> QED
  BY <1>9, <1>10, <1>11, <1>12, <1>13, <1>14 DEF Current

LEMMA SyncKeepsCurrent ==
    ASSUME WholeTrees, Types, Stream(inbox, docs, buffer), OpenFilesAreTracked, Current, Sync
    PROVE  Current'
<1> WellFormed(inbox)
  BY DEF Stream
<1> projects \in [Dir -> Project] /\ conf \in [Dir -> Config]
  BY DEF Types
<1>1. PICK m, f : m = Head(inbox) /\ f = m.file
  OBVIOUS
<1>2. /\ m \in Messages /\ Carries(m) /\ f \in File /\ m.type \in SyncTypes /\ inbox # << >>
      /\ task.step = "idle" /\ UNCHANGED <<disk, conf, budget>>
      /\ docs' = [docs EXCEPT ![f] = Leaves(m)]
      /\ \/ m.type \in {"didOpen", "didChange"} /\ Owners(f) = {} /\ Unowned(f)
         \/ m.type = "didClose" /\ Holders(f) = {} /\ Unowned(f)
         \/ m.type = "didOpen" /\ \E d \in Owners(f) : OpenIn(f, d)
         \/ m.type = "didChange" /\ \E d \in Owners(f) : ChangeIn(d)
         \/ m.type = "didClose" /\ \E d \in Holders(f) : CloseIn(f, d)
  BY <1>1, SyncShape
<1>3. CASE ~SameConfigs
  <2>1. ~SameConfigs'
    BY <1>2, <1>3 DEF SameConfigs
  <2> QED
    BY <2>1, ConfigsKeepCurrent
<1>4. CASE SameConfigs
  <2>1. PICK t : t = Leaves(m)
    OBVIOUS
  <2>2. docs' = [docs EXCEPT ![f] = t] /\ f \in File /\ task.step = "idle" /\ UNCHANGED <<disk, conf, budget>>
    BY <1>2, <2>1
  <2>3. docs'[f] = t /\ \A g \in File \ {f} : docs'[g] = docs[g]
    BY <2>2 DEF Types
  <2>4. (t = Closed <=> m.type = "didClose") /\ (m.type = "didOpen" <=> docs[f] = Closed)
    BY <1>1, <1>2, <2>1, LeavesClosed, OpensTheClosed
  <2>5. Owners(f) \subseteq Dir /\ Holders(f) \subseteq Dir
    BY OwnersAreDirs DEF Owners, Holders
  <2>6. ASSUME NEW d \in Dir
        PROVE  /\ projects[d].openFiles # {} => projects[d].cfg = conf[d]
               /\ \A g \in projects[d].openFiles : g \in File /\ d \in Owners(g)
               /\ \A g \in File : docs[g] # Closed /\ d \in Owners(g) => g \in projects[d].openFiles
    BY <1>4 DEF Current, ProjectsAreResolved, Project
  <2>7. \A d, e \in Owners(f) : d = e
    BY <2>2, OwnerIsUnique DEF Owners
  <2>8. ASSUME Unowned(f), Owners(f) = {} PROVE Current'
    BY <1>4, <2>2, <2>8, UnownedKeepsCurrent
  <2>9. ASSUME m.type = "didClose", Holders(f) = {} PROVE Owners(f) = {}
    BY <2>2, <2>4, <2>5, <2>6, <2>9 DEF Holders
  <2>10. ASSUME NEW e \in Owners(f), m.type = "didOpen", OpenIn(f, e) PROVE Current'
    <3>1. PICK ps : ps = Tracked(e, f)
      OBVIOUS
    <3>2. e \in Dir
      BY <2>5
    <3>3. /\ ps[e].cfg = conf[e] /\ ps[e].openFiles = projects[e].openFiles \cup {f}
          /\ \A d \in Dir \ {e} : ps[d] = projects[d]
      BY <2>2, <3>1, <3>2, OpenedShape
    <3>4. projects' = ps /\ shown' = shown /\ Run(e)
      BY <2>10, <3>1 DEF OpenIn
    <3>5. \A d \in Dir \ {e} : projects'[d] = projects[d] /\ f \notin projects[d].openFiles
      BY <2>6, <2>7, <3>3, <3>4
    <3>6. \A g \in projects'[e].openFiles : e \in Owners(g)
      BY <2>6, <3>2, <3>3, <3>4
    <3>7. \A g \in File : docs'[g] # Closed /\ e \in Owners(g) => g \in projects'[e].openFiles
      BY <2>3, <2>6, <3>2, <3>3, <3>4
    <3>8. projects'[e].cfg = conf[e] /\ \A g \in File \ {f} : shown'[g] = shown[g]
      BY <3>3, <3>4
    <3> QED
      BY <1>4, <2>2, <3>4, <3>5, <3>6, <3>7, <3>8, RunKeepsCurrent
  <2>11. ASSUME NEW e \in Owners(f), m.type = "didChange", ChangeIn(e) PROVE Current'
    <3>1. PICK ps : ps = Resolved(projects, e)
      OBVIOUS
    <3>2. e \in Dir
      BY <2>5
    <3>3. /\ ps[e].cfg = conf[e] /\ ps[e].openFiles = projects[e].openFiles
          /\ \A d \in Dir \ {e} : ps[d] = projects[d]
      BY <3>1, <3>2, ResolvedShape
    <3>4. projects' = ps /\ shown' = shown /\ Run(e)
      BY <2>11, <3>1 DEF ChangeIn
    <3>5. \A d \in Dir \ {e} : projects'[d] = projects[d] /\ f \notin projects[d].openFiles
      BY <2>6, <2>7, <3>3, <3>4
    <3>6. \A g \in projects'[e].openFiles : e \in Owners(g)
      BY <2>6, <3>2, <3>3, <3>4
    <3>7. \A g \in File : docs'[g] # Closed /\ e \in Owners(g) => g \in projects'[e].openFiles
      <4>1. docs[f] # Closed
        BY <2>4, <2>11
      <4> QED
        BY <2>3, <2>6, <3>2, <3>3, <3>4, <4>1
    <3>8. projects'[e].cfg = conf[e] /\ \A g \in File \ {f} : shown'[g] = shown[g]
      BY <3>3, <3>4
    <3> QED
      BY <1>4, <2>2, <3>4, <3>5, <3>6, <3>7, <3>8, RunKeepsCurrent
  <2>12. ASSUME NEW e \in Holders(f), m.type = "didClose", CloseIn(f, e) PROVE Current'
    <3>1. PICK ps : ps = Untracked(e, f)
      OBVIOUS
    <3>2. e \in Dir /\ f \in projects[e].openFiles
      BY <2>5 DEF Holders
    <3>3. e \in Owners(f) /\ projects[e].cfg = conf[e]
      BY <2>6, <3>2
    <3>4. /\ ps[e].cfg = projects[e].cfg /\ ps[e].openFiles = projects[e].openFiles \ {f}
          /\ \A d \in Dir \ {e} : ps[d] = projects[d]
      BY <2>2, <3>1, <3>2, UntrackedShape
    <3>5. projects' = ps /\ shown' = [shown EXCEPT ![f] = "none"] /\ Run(e)
      BY <2>12, <3>1 DEF CloseIn
    <3>6. \A d \in Dir \ {e} : projects'[d] = projects[d] /\ f \notin projects[d].openFiles
      BY <2>6, <2>7, <3>3, <3>4, <3>5
    <3>7. \A g \in projects'[e].openFiles : e \in Owners(g)
      BY <2>6, <3>2, <3>4, <3>5
    <3>8. \A g \in File : docs'[g] # Closed /\ e \in Owners(g) => g \in projects'[e].openFiles
      BY <2>3, <2>4, <2>6, <2>12, <3>2, <3>4, <3>5
    <3>9. projects'[e].cfg = conf[e] /\ \A g \in File \ {f} : shown'[g] = shown[g]
      BY <3>3, <3>4, <3>5 DEF Types
    <3> QED
      BY <1>4, <2>2, <3>3, <3>5, <3>6, <3>7, <3>8, <3>9, RunKeepsCurrent
  <2> QED
    BY <1>2, <2>8, <2>9, <2>10, <2>11, <2>12
<1> QED
  BY <1>3, <1>4

-----------------------------------------------------------------------------
(* The loads, and what they lead to *)

\* A load that fails when nothing has changed had nothing to load.
LEMMA NothingIsThere ==
    ASSUME Types, Current, SameConfigs, NEW d \in unchanged, OnProject(d), NothingToLoad(d)
    PROVE  Files(d) = {}
<1>1. d \in Dir
  BY DEF Types
<1>2. projects[d].cfg = conf[d]
  BY <1>1 DEF Current, ProjectsAreResolved
<1>3. CASE task.step = "list" /\ Listed(projects[d].cfg) = {}
  BY <1>2, <1>3 DEF Files
<1>4. CASE task.step = "read" /\ \E f \in task.listed : Effective(f) = Missing
  <2>1. task.listed = Files(d)
    BY <1>4 DEF Current, RunIsCurrent
  <2>2. \A f \in Files(d) : Effective(f) \in Text
    BY <1>1, ListedHasText
  <2> QED
    BY <1>4, <2>1, <2>2 DEF Text, Missing
<1> QED
  BY <1>3, <1>4 DEF NothingToLoad

LEMMA LoadKeepsCurrent ==
    ASSUME Types, Current, Load
    PROVE  Current'
<1> projects \in [Dir -> Project] /\ conf \in [Dir -> Config]
  BY DEF Types
<1>1. PICK d : d = task.project
  OBVIOUS
<1>2. /\ d \in Dir /\ task'.project = d
      /\ UNCHANGED <<disk, conf, shown, docs, unchanged, budget>>
      /\ Gone(d) \/ Found(d) \/ Checked(d) \/ Reindexed(d)
  BY <1>1, LoadShape
<1>3. CASE ~SameConfigs
  <2>1. ~SameConfigs'
    BY <1>2, <1>3 DEF SameConfigs
  <2> QED
    BY <2>1, ConfigsKeepCurrent
<1>4. CASE SameConfigs
  <2>1. SameConfigs'
    BY <1>2, <1>4 DEF SameConfigs
  <2>2. /\ \A e : Present(e)' = Present(e) /\ Files(e)' = Files(e)
        /\ \A g : Owners(g)' = Owners(g)
        /\ \A e : Owned(e)' <=> Owned(e)
    BY <1>2, PresentInFrame
  <2>3. /\ task.step \in {"list", "read"} /\ task'.step \in {"list", "read", "publish"}
        /\ task.round \in {1, 2} /\ (task.round = 1 => task.loaded = << >>)
    BY <1>2 DEF Gone, NothingToLoad, Found, Checked, Reindexed, Types, TaskIsWellFormed
  <2>4. /\ \A e : (OnProject(e) <=> e = d) /\ (OnProject(e)' <=> e = d) /\ (Loading(e) <=> e = d)
        /\ \A e : Loading(e)' <=> e = d /\ task'.step \in {"list", "read"}
        /\ \A e, g : ~Graphing(e, g)'
    BY <1>1, <1>2, <2>3 DEF OnProject, Running, Loading, Graphing
  <2>5. unchanged \subseteq Dir
    BY DEF Types
  <2>6. /\ projects'[d].cfg = projects[d].cfg /\ projects'[d].openFiles = projects[d].openFiles
        /\ \A e \in Dir \ {d} : projects'[e] = projects[e]
        /\ Gone(d) => projects'[d].symbols = NoSymbols
        /\ Reindexed(d) => projects'[d].symbols = IndexOf(d)
    <3>1. ASSUME NEW s \in Symbols, projects' = [projects EXCEPT ![d].symbols = s]
          PROVE  /\ projects'[d].cfg = projects[d].cfg /\ projects'[d].openFiles = projects[d].openFiles
                 /\ projects'[d].symbols = s
                 /\ \A e \in Dir \ {d} : projects'[e] = projects[e]
      <4>1. PICK ps : ps = [projects EXCEPT ![d].symbols = s]
        OBVIOUS
      <4>2. /\ ps[d].cfg = projects[d].cfg /\ ps[d].openFiles = projects[d].openFiles
            /\ ps[d].symbols = s
            /\ \A e \in Dir \ {d} : ps[e] = projects[e]
        BY <1>2, <4>1, IndexedShape
      <4> QED
        BY <3>1, <4>1, <4>2
    <3>2. CASE Gone(d)
      <4>1. projects' = [projects EXCEPT ![d].symbols = NoSymbols] /\ NoSymbols \in Symbols
        BY <3>2, NothingIsLoaded DEF Gone
      <4>2. ~Reindexed(d) \/ IndexOf(d) = NoSymbols
        <5>1. ASSUME Reindexed(d) PROVE IndexOf(d) = NoSymbols
          <6>1. IndexOf(d) \in Symbols /\ projects' = [projects EXCEPT ![d].symbols = IndexOf(d)]
            BY <5>1 DEF Reindexed
          <6> QED
            BY <3>1, <4>1, <6>1
        <5> QED
          BY <5>1
      <4> QED
        BY <3>1, <4>1, <4>2
    <3>3. CASE Reindexed(d) /\ ~Gone(d)
      <4>1. projects' = [projects EXCEPT ![d].symbols = IndexOf(d)] /\ IndexOf(d) \in Symbols
        BY <3>3 DEF Reindexed
      <4> QED
        BY <3>1, <3>3, <4>1
    <3>4. CASE ~Gone(d) /\ ~Reindexed(d)
      <4>1. projects' = projects
        BY <1>2, <3>4 DEF Found, Checked
      <4> QED
        BY <3>4, <4>1
    <3> QED
      BY <3>2, <3>3, <3>4
  <2>7. projects[d].cfg = conf[d]
    BY <1>2, <1>4, <2>4 DEF Current, ProjectsAreResolved
  <2>8. ASSUME d \in unchanged
        PROVE  /\ task.round = 2 => task.loaded = Present(d)
               /\ task.step = "read" => task.listed = Files(d)
               /\ task.step = "read" => Read = Present(d)
    <3>1. /\ task.round = 2 => task.loaded = Present(d)
          /\ task.step = "read" => task.listed = Files(d)
      BY <1>4, <2>4, <2>8 DEF Current, RunIsCurrent
    <3>2. ASSUME task.step = "read" PROVE Read = Present(d)
      BY <3>1, <3>2 DEF Read, Present, Files
    <3> QED
      BY <3>1, <3>2
  <2>9. ASSUME d \in unchanged, Gone(d) PROVE Files(d) = {} /\ Present(d) = << >>
    <3>1. Files(d) = {}
      BY <1>4, <2>4, <2>9, NothingIsThere DEF Gone
    <3> QED
      BY <1>2, <3>1, NothingIsPresent
  <2>10. StartConfigs'
    BY <1>2, <1>4 DEF Current, StartConfigs
  <2>11. ProjectsAreResolved'
    <3> SUFFICES ASSUME NEW e \in Dir
                 PROVE  /\ projects'[e].openFiles # {} \/ OnProject(e)' => projects'[e].cfg = conf[e]
                        /\ \A g \in projects'[e].openFiles : e \in Owners(g)
                        /\ \A g \in File : docs[g] # Closed /\ e \in Owners(g) => g \in projects'[e].openFiles
      BY <1>2, <2>2 DEF ProjectsAreResolved
    <3>1. projects'[e].openFiles = projects[e].openFiles /\ projects'[e].cfg = projects[e].cfg
      BY <2>6
    <3> QED
      BY <1>4, <2>4, <2>7, <3>1 DEF Current, ProjectsAreResolved
  <2>12. RunIsCurrent'
    <3> SUFFICES ASSUME d \in unchanged
                 PROVE  /\ task'.step = "publish" \/ task'.round = 2 => task'.loaded = Present(d)
                        /\ task'.step = "read" => task'.listed = Files(d)
      BY <1>2, <2>2, <2>4 DEF RunIsCurrent
    <3>1. CASE Gone(d)
      BY <2>3, <2>8, <2>9, <3>1 DEF Gone
    <3>2. CASE Found(d)
      BY <2>3, <2>7, <2>8, <3>2 DEF Found, Files
    <3>3. CASE Checked(d)
      BY <2>8, <3>3 DEF Checked
    <3>4. CASE Reindexed(d)
      BY <2>8, <3>4 DEF Reindexed
    <3> QED
      BY <1>2, <3>1, <3>2, <3>3, <3>4
  <2>13. GraphIsCurrent'
    BY <2>4 DEF GraphIsCurrent
  <2>14. SymbolsAreCurrent'
    <3> SUFFICES ASSUME NEW e \in unchanged, Owned(e), ~Loading(e)' PROVE Indexed(e)'
      BY <1>2, <2>2 DEF SymbolsAreCurrent
    <3>1. CASE e # d
      <4>1. Indexed(e) /\ projects'[e] = projects[e]
        BY <1>4, <2>4, <2>5, <2>6, <3>1 DEF Current, SymbolsAreCurrent
      <4> QED
        BY <1>2, <2>2, <4>1 DEF Indexed
    <3>2. CASE e = d
      <4>1. CASE Gone(d)
        BY <2>2, <2>6, <2>9, <3>2, <4>1 DEF Indexed, NoSymbols
      <4>2. CASE Reindexed(d)
        <5>1. task.step = "read"
          BY <4>2 DEF Reindexed
        <5> QED
          BY <1>2, <2>2, <2>6, <2>7, <2>8, <3>2, <4>2, <5>1 DEF Indexed, IndexOf
      <4>3. task'.step \notin {"list", "read"}
        BY <2>4, <3>2
      <4> QED
        BY <1>2, <4>1, <4>2, <4>3 DEF Found, Checked
    <3> QED
      BY <3>1, <3>2
  <2>15. ShownIsCurrent'
    <3> SUFFICES ASSUME NEW e \in unchanged, ~OnProject(e)', NEW g \in projects'[e].openFiles
                 PROVE  shown[g] = Diagnose(Present(e), g)
      BY <1>2, <2>2 DEF ShownIsCurrent
    <3>1. e \in Dir \ {d} /\ projects'[e] = projects[e]
      BY <2>4, <2>5, <2>6
    <3> QED
      BY <1>4, <2>4, <3>1 DEF Current, ShownIsCurrent
  <2> QED
    BY <2>10, <2>11, <2>12, <2>13, <2>14, <2>15 DEF Current
<1> QED
  BY <1>3, <1>4

LEMMA PublishKeepsCurrent ==
    ASSUME Types, OpenFilesAreTracked, Current, Publish
    PROVE  Current'
<1>1. PICK d : d = task.project
  OBVIOUS
<1>2. /\ d \in Dir /\ task.step = "publish" /\ task'.step = "idle"
      /\ UNCHANGED <<disk, conf, docs, projects, unchanged, budget>>
      /\ shown' = [f \in File |-> IF f \in projects[d].openFiles
                                  THEN Diagnose(task.loaded, f)
                                  ELSE shown[f]]
  BY <1>1, PublishShape
<1>3. SameConfigs' <=> SameConfigs
  BY <1>2 DEF SameConfigs
<1>4. /\ \A e : Present(e)' = Present(e) /\ Files(e)' = Files(e)
      /\ \A f : Owners(f)' = Owners(f)
      /\ \A e : Owned(e)' <=> Owned(e)
  BY <1>2, PresentInFrame
<1>5. /\ \A e : (OnProject(e) <=> e = d) /\ ~OnProject(e)' /\ ~Loading(e) /\ ~Loading(e)'
      /\ \A e, f : ~Graphing(e, f)'
  BY <1>1, <1>2 DEF OnProject, Running, Loading, Graphing
<1>6. StartConfigs'
  BY <1>2, <1>3 DEF Current, StartConfigs
<1>7. ProjectsAreResolved'
  BY <1>2, <1>3, <1>4, <1>5 DEF Current, ProjectsAreResolved
<1>8. RunIsCurrent' /\ GraphIsCurrent'
  BY <1>5 DEF RunIsCurrent, GraphIsCurrent
<1>9. SymbolsAreCurrent'
  BY <1>2, <1>3, <1>4, <1>5 DEF Current, SymbolsAreCurrent, Indexed
<1>10. ShownIsCurrent'
  <2> SUFFICES ASSUME SameConfigs, NEW e \in unchanged, NEW f \in projects[e].openFiles
               PROVE  shown'[f] = Diagnose(Present(e), f)
    BY <1>2, <1>3, <1>4 DEF ShownIsCurrent
  <2>1. e \in Dir /\ f \in File
    BY DEF Types, Project
  <2>2. CASE e = d
    <3>1. task.loaded = Present(d)
      BY <1>2, <1>5, <2>2 DEF Current, RunIsCurrent
    <3> QED
      BY <1>2, <2>1, <2>2, <3>1
  <2>3. CASE e # d
    <3>1. f \notin projects[d].openFiles
      BY <1>2, <2>1, <2>3 DEF OpenFilesAreTracked
    <3>2. shown'[f] = shown[f]
      BY <1>2, <2>1, <3>1
    <3> QED
      BY <1>5, <2>3, <3>2 DEF Current, ShownIsCurrent
  <2> QED
    BY <2>2, <2>3
<1> QED
  BY <1>6, <1>7, <1>8, <1>9, <1>10 DEF Current

LEMMA CurrentKeeps ==
    ASSUME WholeTrees, InStep, Current, [Next]_vars
    PROVE  Current'
<1>1. /\ Types /\ Stream(inbox, docs, buffer) /\ WellFormed(inbox) /\ OpenFilesAreTracked
  BY DEF InStep, Stream
<1>2. CASE UNCHANGED vars
  <2>1. UNCHANGED <<disk, conf, shown, docs, projects, task, unchanged>> /\ budget'.configs = budget.configs
    BY <1>2 DEF vars, world, editor, server, session
  <2> QED
    BY <2>1, IdleKeepsCurrent
<1>3. CASE Environment
  BY <1>1, <1>3, EditorKeepsCurrent
<1>4. CASE Sync
  BY <1>1, <1>4, SyncKeepsCurrent
<1>5. CASE Lookup
  BY <1>1, <1>5, LookupKeepsCurrent
<1>6. CASE DidSave \/ Shutdown \/ Exit
  <2>1. UNCHANGED <<disk, conf, shown, docs, projects, task, unchanged>> /\ budget'.configs = budget.configs
    BY <1>6 DEF DidSave, Shutdown, Exit, world, session
  <2> QED
    BY <2>1, IdleKeepsCurrent
<1>7. CASE AnswerGraph
  BY <1>7, AnswerKeepsCurrent
<1>8. CASE Load
  BY <1>1, <1>8, LoadKeepsCurrent
<1>9. CASE Publish
  BY <1>1, <1>9, PublishKeepsCurrent
<1> QED
  BY <1>2, <1>3, <1>4, <1>5, <1>6, <1>7, <1>8, <1>9 DEF Next, Server, Sync, Lookup, Load

LEMMA InitCurrent == Init => Current
<1> SUFFICES ASSUME Init PROVE Current
  OBVIOUS
<1>1. /\ unchanged = {} /\ task.step = "idle"
      /\ \A d \in Dir : projects[d].openFiles = {}
      /\ \A f \in File : docs[f] = Closed
      /\ \E s \in Start : conf = s.conf
  BY DEF Init, Idle
<1>2. (\A d : ~OnProject(d)) /\ \A d, f : ~Graphing(d, f)
  BY <1>1 DEF OnProject, Running, Graphing
<1>3. StartConfigs
  BY <1>1 DEF StartConfigs
<1>4. ProjectsAreResolved
  BY <1>1, <1>2 DEF ProjectsAreResolved
<1>5. RunIsCurrent /\ SymbolsAreCurrent /\ ShownIsCurrent /\ GraphIsCurrent
  BY <1>1, <1>2 DEF RunIsCurrent, SymbolsAreCurrent, ShownIsCurrent, GraphIsCurrent
<1> QED
  BY <1>3, <1>4, <1>5 DEF Current

\* The inductive invariant, with its hypothesis.
UpToDate == WholeTrees /\ InStep /\ Current

LEMMA AlwaysUpToDate == WholeTrees /\ Spec => []UpToDate
<1>1. WholeTrees /\ Init => UpToDate
  BY InitInStep, InitCurrent DEF UpToDate
<1>2. UpToDate /\ [Next]_vars => UpToDate'
  BY NextInStep, CurrentKeeps DEF UpToDate, WholeTrees
<1> QED
  BY <1>1, <1>2, PTL DEF Spec

-----------------------------------------------------------------------------
(* What follows for every behaviour *)

\* With the projects of the start apart from one another: once the server is
\* quiet, and unless a config has changed or the disk has changed since the
\* project was last checked, every open document shows what check says of the
\* buffers as they are, and so do the documents the last edit was not in.
THEOREM WhatIsShownIsCurrent == WholeTrees /\ Spec => []DiagnosticsAreCurrent
<1>1. UpToDate => DiagnosticsAreCurrent
  <2> SUFFICES ASSUME UpToDate, task = Idle, inbox = << >>, SameConfigs, NEW f \in File,
                      NEW d \in Owners(f), buffer[f] # Closed, d \in unchanged
               PROVE  shown[f] = Diagnose(Present(d), f)
    BY DEF DiagnosticsAreCurrent, Quiet
  <2>1. InStep /\ Current
    BY DEF UpToDate
  <2>2. d \in Dir
    BY OwnersAreDirs DEF Owners
  <2>3. Len(inbox) = 0
    BY EmptySeq
  <2>4. docs[f] = buffer[f]
    BY <2>1, <2>3 DEF InStep, Stream, EndsIn
  <2>5. f \in projects[d].openFiles
    BY <2>1, <2>2, <2>4 DEF Current, ProjectsAreResolved
  <2>6. ~OnProject(d)
    BY DEF OnProject, Running, Idle
  <2> QED
    BY <2>1, <2>5, <2>6 DEF Current, ShownIsCurrent
<1> QED
  BY <1>1, AlwaysUpToDate, PTL

\* An answer that is current: d owns the file f the request came from.
Expected(f, d) ==
    IF task.step = "graph" \/ Head(inbox).type = "completion"
    THEN FirstDefinition(Present(d))
    ELSE IndexedDefinition([texts |-> Present(d), root |-> {}], f)

\* When a request is read, the index of its project is current.
LEMMA IndexIsCurrent ==
    ASSUME UpToDate, SameConfigs, task.step = "idle", NEW f \in File, NEW d \in Owners(f) \cap unchanged
    PROVE  /\ d \in Dir
           /\ projects[d].symbols.texts = Present(d)
           /\ projects[d].symbols.root = conf[d].tree \/ Files(d) = {}
<1>1. d \in Dir
  BY OwnersAreDirs DEF Owners
<1>2. Owned(d) /\ ~Loading(d)
  BY DEF Owned, Loading
<1> QED
  BY <1>1, <1>2 DEF UpToDate, Current, SymbolsAreCurrent, Indexed

LEMMA DefinitionIsCurrent ==
    ASSUME UpToDate, SameConfigs, NEW request \in {"definition", "hover"}, Definition(request),
           NEW f \in File, answer'.from = f, NEW d \in Owners(f) \cap unchanged
    PROVE  answer'.file = Expected(f, d)
<1>1. /\ task.step = "idle" /\ Head(inbox).type = request
  BY DEF Definition, Receive, Idle
<1>2. answer'.from = Head(inbox).file
  BY DEF Definition
<1>3. PICK symbols : symbols = projects[d].symbols
  OBVIOUS
<1>4. PICK found : found = IndexedDefinition(symbols, f)
  OBVIOUS
<1>5. PICK lost : lost = (\/ MayMiss(symbols, f, conf[d])
                          \/ request = "hover" /\ found # NoFile /\ MayMiss(symbols, found, conf[d]))
  OBVIOUS
<1>6. \A e \in Owners(f) : e = d
  BY OwnerIsUnique DEF Owners, UpToDate, InStep, Types
<1>7. PICK g \in {found} \cup {h \in {NoFile} : lost} : answer' = [from |-> f, file |-> g]
  BY <1>2, <1>3, <1>4, <1>5, <1>6 DEF Definition
<1>8. /\ d \in Dir /\ symbols.texts = Present(d)
      /\ symbols.root = conf[d].tree \/ Files(d) = {}
  BY <1>1, <1>3, IndexIsCurrent
<1>9. Expected(f, d) = IndexedDefinition([texts |-> Present(d), root |-> {}], f)
  BY <1>1 DEF Expected
<1>10. found = Expected(f, d)
  BY <1>4, <1>8, <1>9 DEF IndexedDefinition
<1>11. DOMAIN Present(d) = Files(d) /\ \A h \in Files(d) : Present(d)[h] = Effective(h)
  BY DEF Present, Files
<1>12. ASSUME NEW h, MayMiss(symbols, h, conf[d]) PROVE Files(d) = {}
  BY <1>8, <1>11, <1>12 DEF MayMiss
<1>13. ASSUME Files(d) = {} PROVE found = NoFile
  BY <1>4, <1>8, <1>11, <1>13 DEF IndexedDefinition
<1>14. lost => found = NoFile
  BY <1>5, <1>12, <1>13
<1>15. g = found
  BY <1>7, <1>14
<1> QED
  BY <1>7, <1>10, <1>15

LEMMA CompletionIsCurrent ==
    ASSUME UpToDate, SameConfigs, Completion,
           NEW f \in File, answer'.from = f, NEW d \in Owners(f) \cap unchanged
    PROVE  answer'.file = Expected(f, d)
<1>1. /\ task.step = "idle" /\ Head(inbox).type = "completion"
  BY DEF Completion, Receive, Idle
<1>2. answer'.from = Head(inbox).file
  BY DEF Completion
<1>3. \A e \in Owners(f) : e = d
  BY OwnerIsUnique DEF Owners, UpToDate, InStep, Types
<1>4. answer' = [from |-> f, file |-> FirstDefinition(projects[d].symbols.texts)]
  BY <1>2, <1>3 DEF Completion
<1>5. projects[d].symbols.texts = Present(d)
  BY <1>1, IndexIsCurrent
<1> QED
  BY <1>1, <1>4, <1>5 DEF Expected

LEMMA GraphAnswerIsCurrent ==
    ASSUME UpToDate, SameConfigs, AnswerGraph,
           NEW f \in File, answer'.from = f, NEW d \in Owners(f) \cap unchanged
    PROVE  answer'.file = Expected(f, d)
<1>1. /\ task.step = "graph" /\ answer' = [from |-> task.from, file |-> GraphOf(task.listed)]
  BY DEF AnswerGraph
<1>2. PICK e : e = task.project
  OBVIOUS
<1>3. e \in Dir /\ Graphing(e, f)
  BY <1>1, <1>2 DEF Graphing, UpToDate, InStep, Types, TaskIsWellFormed
<1>4. e \in Owners(f) /\ (e \in unchanged => task.listed = Files(e))
  BY <1>3 DEF UpToDate, Current, GraphIsCurrent
<1>5. e = d
  BY <1>4, OwnerIsUnique DEF Owners, UpToDate, InStep, Types
<1>6. task.listed = Files(d)
  BY <1>4, <1>5
<1>7. Present(d) = [g \in Files(d) |-> Effective(g)]
  BY DEF Present, Files
<1>8. \A g \in Files(d) : Effective(g) # Missing
  BY <1>3, <1>5, ListedHasText DEF UpToDate, InStep, Text, Missing
<1>9. GraphOf(Files(d)) = FirstDefinition(Present(d))
  BY <1>7, <1>8 DEF GraphOf
<1> QED
  BY <1>1, <1>6, <1>9 DEF Expected

\* With the projects of the start apart from one another: a request is
\* answered from what the user sees, as long as no config has changed and the
\* disk has not changed since the project was last checked, whichever messages
\* are still on their way and whichever handlers have run before.
THEOREM WhatIsAnsweredIsCurrent == WholeTrees /\ Spec => AnswersAreCurrent
<1>1. ASSUME UpToDate, Next, NEW f \in File, NEW d \in Dir, answer' # answer, answer'.from = f,
             SameConfigs, d \in Owners(f) \cap unchanged
      PROVE  answer'.file = Expected(f, d)
  <2>1. CASE Definition("definition") \/ Definition("hover")
    BY <1>1, <2>1, DefinitionIsCurrent
  <2>2. CASE Completion
    BY <1>1, <2>2, CompletionIsCurrent
  <2>3. CASE AnswerGraph
    BY <1>1, <2>3, GraphAnswerIsCurrent
  <2>4. CASE DependencyGraph
    <3>1. answer'.from = Head(inbox).file \/ answer' = NoAnswer
      BY <2>4 DEF DependencyGraph
    <3>2. Owners(Head(inbox).file) = {} \/ answer' = NoAnswer
      BY <2>4 DEF DependencyGraph
    <3>3. NoAnswer.from \notin File
      BY FileAssumption DEF NoAnswer
    <3> QED
      BY <1>1, <2>4, <3>1, <3>2, <3>3 DEF DependencyGraph
  <2>5. CASE DidOpen \/ DidChange \/ DidClose \/ DidSave \/ Shutdown \/ Exit
    <3>1. answer' = NoAnswer /\ NoAnswer.from \notin File
      BY <2>5, FileAssumption DEF DidOpen, DidChange, DidClose, DidSave, Shutdown, Exit, NoAnswer
    <3> QED
      BY <1>1, <3>1
  <2>6. CASE Environment \/ ListFiles \/ ReadFiles \/ Publish
    <3>1. answer' = answer
      BY <2>6 DEF Environment, Open, Type, Save, Close, Ask, Quit, ChangeFile, ChangeConfig, server,
                  ListFiles, ReadFiles, Publish
    <3> QED
      BY <1>1, <3>1
  <2> QED
    BY <1>1, <2>1, <2>2, <2>3, <2>4, <2>5, <2>6 DEF Next, Server
<1>2. UpToDate /\ [Next]_vars =>
      [\A f \in File, d \in Dir :
          /\ answer' # answer /\ answer'.from = f
          /\ SameConfigs
          /\ d \in Owners(f) \cap unchanged
          => answer'.file = IF task.step = "graph" \/ Head(inbox).type = "completion"
                            THEN FirstDefinition(Present(d))
                            ELSE IndexedDefinition([texts |-> Present(d), root |-> {}], f)]_vars
  BY <1>1 DEF Expected
<1> QED
  BY <1>2, AlwaysUpToDate, PTL DEF Spec, AnswersAreCurrent

=============================================================================
