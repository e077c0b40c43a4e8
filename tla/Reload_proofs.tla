---------------------------- MODULE Reload_proofs ----------------------------
(***************************************************************************)
(* Theorems about the configuration file, and about the reloads of a       *)
(* daemon that reads it: for every set of nodes, every set of changes and  *)
(* any number of reloads and commands at once.                             *)
(***************************************************************************)
EXTENDS Reload, MCConfigFile, FiniteSetTheorems, TLAPS

(***************************************************************************)
(* The file and the commands that change it.                               *)
(***************************************************************************)

(* What commands make of a configuration is a configuration.               *)
LEMMA RemoveType ==
  ASSUME NEW c \in ClawverseConfig, NEW n \in Node
  PROVE  RemoveNode(c, n) \in ClawverseConfig
<1> DEFINE R == RelationsWithout(c.relations, n)
<1>1. R \subseteq NodeRelation
  BY DEF RelationsWithout, ClawverseConfig, NodeRelation
<1>2. \A r, s \in R : r.parent = s.parent => r = s
  <2> DEFINE Cut(r) == [parent |-> r.parent, children |-> r.children \ {n}, mode |-> r.mode]
  <2>1. SUFFICES ASSUME NEW r \in R, NEW s \in R, r.parent = s.parent
                 PROVE  r = s
    OBVIOUS
  <2>2. PICK r0 \in c.relations : r = Cut(r0)
    BY DEF RelationsWithout
  <2>3. PICK s0 \in c.relations : s = Cut(s0)
    BY DEF RelationsWithout
  <2>4. r0.parent = s0.parent
    BY <2>1, <2>2, <2>3
  <2>5. r0 = s0
    BY <2>4 DEF ClawverseConfig
  <2>6. QED
    BY <2>2, <2>3, <2>5
<1>3. RulesWithout(c.rules, n) \subseteq RoutingRule
  BY DEF RulesWithout, ClawverseConfig, RoutingRule
<1>4. QED
  BY <1>1, <1>2, <1>3 DEF RemoveNode, ClawverseConfig

LEMMA ApplyType ==
  ASSUME NEW c \in ClawverseConfig, NEW op \in Operation, Accepts(op, c)
  PROVE  Apply(op, c) \in ClawverseConfig
<1> USE OperationAssumption
<1> \A n : Unrelated(c, n) \subseteq c.relations
  BY DEF Unrelated
<1>1. CASE op \in NodeOperation
  <2>1. op.node \in Node /\ op.kind \in {"add", "remove", "enable", "disable", "unrelate"}
    BY <1>1 DEF NodeOperation
  <2>2. CASE op.kind = "add"
    BY <2>1, <2>2 DEF Apply, AddNode, ClawverseConfig
  <2>3. CASE op.kind = "remove"
    BY <2>1, <2>3, RemoveType DEF Apply
  <2>4. CASE op.kind = "enable"
    BY <2>1, <2>4 DEF Apply, SetDisabled, ClawverseConfig
  <2>5. CASE op.kind = "disable"
    BY <2>1, <2>5 DEF Apply, Accepts, SetDisabled, ClawverseConfig
  <2>6. CASE op.kind = "unrelate"
    BY <2>1, <2>6 DEF Apply, SetRelations, ClawverseConfig
  <2>7. QED
    BY <2>1, <2>2, <2>3, <2>4, <2>5, <2>6
<1>2. CASE op \in RelateOperation
  <2>1. op.kind = "relate" /\ op.relation \in NodeRelation
    BY <1>2 DEF RelateOperation
  <2> DEFINE R == Unrelated(c, op.relation.parent) \union {op.relation}
  <2>2. R \subseteq NodeRelation /\ \A r, s \in R : r.parent = s.parent => r = s
    BY <2>1 DEF Unrelated, ClawverseConfig
  <2>3. Apply(op, c) = SetRelations(c, R)
    BY <2>1 DEF Apply
  <2>4. QED
    BY <2>2, <2>3 DEF SetRelations, ClawverseConfig
<1>3. CASE op \in DefaultOperation
  <2>1. op.kind = "default" /\ op.targets \subseteq Node /\ op.fallback \in Node \union {None}
    BY <1>3 DEF DefaultOperation
  <2>2. QED
    BY <2>1 DEF Apply, SetRouting, ClawverseConfig
<1>4. CASE op \in RuleOperation
  <2>1. op.kind \in {"rule", "unrule"} /\ op.rule \in RoutingRule
    BY <1>4 DEF RuleOperation
  <2>2. CASE op.kind = "rule"
    BY <2>1, <2>2 DEF Apply, SetRouting, ClawverseConfig
  <2>3. CASE op.kind = "unrule"
    BY <2>1, <2>3 DEF Apply, SetRouting, ClawverseConfig
  <2>4. QED
    BY <2>1, <2>2, <2>3
<1>5. QED
  BY <1>1, <1>2, <1>3, <1>4

LEMMA DefaultIsValid ==
  DEFAULT_CONFIG \in ClawverseConfig /\ validateConfig(DEFAULT_CONFIG)
<1>1. Acyclic({})
  BY DEF Acyclic
<1>2. QED
  BY <1>1 DEF DEFAULT_CONFIG, ClawverseConfig, validateConfig, ValidRouting

(* Taking edges away makes no cycle.                                       *)
LEMMA RemoveAcyclic ==
  ASSUME NEW c \in ClawverseConfig, NEW n \in Node, Acyclic(c.relations)
  PROVE  Acyclic(RelationsWithout(c.relations, n))
<1> DEFINE R == RelationsWithout(c.relations, n)
<1>1. \A r \in R : \E s \in c.relations : s.parent = r.parent /\ r.children \subseteq s.children
  BY DEF RelationsWithout, ClawverseConfig, NodeRelation
<1>2. SUFFICES ASSUME NEW S \in SUBSET Node, S # {},
                      \A m \in S : \E r \in R : r.parent = m /\ r.children \intersect S # {}
               PROVE  FALSE
  BY DEF Acyclic
<1>3. \A m \in S : \E s \in c.relations : s.parent = m /\ s.children \intersect S # {}
  <2>1. TAKE m \in S
  <2>2. PICK r \in R : r.parent = m /\ r.children \intersect S # {}
    BY <1>2
  <2>3. PICK s \in c.relations : s.parent = r.parent /\ r.children \subseteq s.children
    BY <1>1
  <2>4. s.parent = m /\ s.children \intersect S # {}
    BY <2>2, <2>3
  <2>5. QED
    BY <2>4
<1>4. QED
  BY <1>2, <1>3 DEF Acyclic

(* removeNode makes a valid configuration of a valid one.                  *)
THEOREM RemoveKeepsValid ==
  ASSUME NEW c \in ClawverseConfig, NEW n \in Node, validateConfig(c)
  PROVE  validateConfig(RemoveNode(c, n))
<1> DEFINE d == RemoveNode(c, n)
<1>1. /\ d.nodes = c.nodes \ {n}
      /\ d.relations = RelationsWithout(c.relations, n)
      /\ d.targets = c.targets \ {n}
      /\ d.fallback = IF c.fallback = n THEN None ELSE c.fallback
      /\ d.rules = RulesWithout(c.rules, n)
  BY DEF RemoveNode
<1>2. \A r \in d.relations : ValidRelation(r, d.nodes)
  BY <1>1 DEF RelationsWithout, ValidRelation, validateConfig, ClawverseConfig, NodeRelation
<1>3. Acyclic(d.relations)
  BY <1>1, RemoveAcyclic DEF validateConfig
<1>4. \A r \in d.rules : ValidRule(r, d.nodes)
  BY <1>1 DEF RulesWithout, ValidRule, ValidRouting, validateConfig, ClawverseConfig, RoutingRule
<1>5. ValidRouting(d)
  BY <1>1, <1>4 DEF ValidRouting, validateConfig
<1>6. QED
  BY <1>2, <1>3, <1>5 DEF validateConfig

-----------------------------------------------------------------------------
(* What is being written is valid, and while no command has met another,   *)
(* at most one is under way and its configuration is made of what the file *)
(* holds - or is about to fill the file it has emptied.                    *)
WritingValid ==
  \A p \in Command : command[p].pc = "writing" => validateConfig(command[p].new)

LoadedFromFile(p) ==
  /\ Readable
  /\ command[p].op \in Operation
  /\ Accepts(command[p].op, file.config)
  /\ command[p].new = Apply(command[p].op, file.config)

Alone ==
  ~ mishap =>
    /\ \A p, q \in Command : command[p].pc # Idle /\ command[q].pc # Idle => p = q
    /\ \A p \in Command :
         /\ command[p].pc = "loaded" => LoadedFromFile(p)
         /\ command[p].pc = "writing" => file.state = "empty"

FileInv == FileTypeOK /\ FileSound /\ RemovalsSucceed /\ WritingValid /\ Alone

LEMMA TextAndBroken ==
  /\ \A c \in ClawverseConfig : Text(c) \in [state : FileState, config : ClawverseConfig]
  /\ \A s \in FileState : Broken(s) \in [state : FileState, config : ClawverseConfig]
BY DefaultIsValid DEF Text, Broken, FileState

LEMMA FileInitInv == FileInit => FileInv
<1> USE DefaultIsValid
<1>1. ASSUME FileInit PROVE FileTypeOK
  BY <1>1 DEF FileInit, FileTypeOK, FileState, NoCommand, Idle
<1>2. ASSUME FileInit PROVE FileSound /\ RemovalsSucceed /\ WritingValid /\ Alone
  BY <1>2 DEF FileInit, FileSound, RemovalsSucceed, WritingValid, Alone, NoCommand, Idle
<1>3. QED
  BY <1>1, <1>2 DEF FileInv

(* What a step of command p leaves alone, as each step below changes one.  *)
LEMMA LoadKeeps ==
  ASSUME FileInv, NEW p \in Command, NEW op \in Operation, Load(p, op)
  PROVE  FileInv'
<1> USE DEF FileInv
<1> DEFINE new == [pc |-> "loaded", op |-> op, new |-> Apply(op, file.config)]
<1>1. /\ command' = [command EXCEPT ![p] = new]
      /\ file' = file
      /\ Readable
      /\ Accepts(op, file.config)
      /\ command[p].pc = Idle
      /\ mishap' = (mishap \/ \E q \in Command \ {p} : command[q].pc # Idle)
  BY DEF Load
<1>2. Apply(op, file.config) \in ClawverseConfig
  BY <1>1, ApplyType DEF FileTypeOK
<1>3. FileTypeOK'
  BY <1>1, <1>2 DEF FileTypeOK
<1>4. /\ command'[p] = new
      /\ \A q \in Command \ {p} : command'[q] = command[q]
  BY <1>1 DEF FileTypeOK
<1>5. FileSound'
  BY <1>1 DEF FileSound
<1>6. op.kind = "remove" => validateConfig(Apply(op, file.config))
  <2>1. ASSUME op.kind = "remove"
        PROVE  op.node \in Node /\ Apply(op, file.config) = RemoveNode(file.config, op.node)
    BY <2>1, OperationAssumption
       DEF Apply, NodeOperation, RelateOperation, DefaultOperation, RuleOperation
  <2>2. file.config \in ClawverseConfig /\ validateConfig(file.config)
    BY <1>1 DEF FileTypeOK, FileSound, Readable
  <2>3. QED
    BY <2>1, <2>2, RemoveKeepsValid
<1>7. RemovalsSucceed'
  BY <1>4, <1>6 DEF RemovalsSucceed
<1>8. WritingValid'
  BY <1>4 DEF WritingValid
<1>9. Alone'
  <2>1. SUFFICES ASSUME ~ mishap'
                 PROVE  /\ (\A q, r \in Command :
                               command[q].pc # Idle /\ command[r].pc # Idle => q = r)'
                        /\ (\A q \in Command :
                              /\ command[q].pc = "loaded" => LoadedFromFile(q)
                              /\ command[q].pc = "writing" => file.state = "empty")'
    BY DEF Alone
  <2>2. \A q \in Command \ {p} : command'[q].pc = Idle
    BY <1>1, <1>4, <2>1
  <2>3. LoadedFromFile(p)'
    BY <1>1, <1>4 DEF LoadedFromFile, Readable
  <2>4. QED
    BY <1>4, <2>2, <2>3 DEF Idle
<1>10. QED
  BY <1>3, <1>5, <1>7, <1>8, <1>9

LEMMA OpenKeeps ==
  ASSUME FileInv, NEW p \in Command, Open(p)
  PROVE  FileInv'
<1> USE DEF FileInv
<1>1. /\ command[p].pc = "loaded"
      /\ validateConfig(command[p].new)
      /\ file' = Broken("empty")
      /\ command' = [command EXCEPT ![p].pc = "writing"]
      /\ mishap' = mishap
  BY DEF Open
<1>2. FileTypeOK'
  BY <1>1, TextAndBroken DEF FileTypeOK, FileState
<1>3. /\ command'[p].pc = "writing" /\ command'[p].new = command[p].new
      /\ \A q \in Command \ {p} : command'[q] = command[q]
  BY <1>1 DEF FileTypeOK
<1>4. FileSound'
  BY <1>1 DEF FileSound, Broken
<1>5. RemovalsSucceed'
  BY <1>3 DEF RemovalsSucceed
<1>6. WritingValid'
  BY <1>1, <1>3 DEF WritingValid
<1>7. Alone'
  BY <1>1, <1>3 DEF Alone, Broken, Idle
<1>8. QED
  BY <1>2, <1>4, <1>5, <1>6, <1>7

LEMMA WriteKeeps ==
  ASSUME FileInv, NEW p \in Command, Write(p)
  PROVE  FileInv'
<1> USE DEF FileInv
<1>1. /\ command[p].pc = "writing"
      /\ file' = Text(command[p].new) \/ file' = Broken("garbage")
      /\ command' = [command EXCEPT ![p] = NoCommand]
      /\ mishap' = mishap
  BY DEF Write
<1>2. FileTypeOK'
  BY <1>1, TextAndBroken, DefaultIsValid DEF FileTypeOK, FileState, NoCommand
<1>3. /\ command'[p] = NoCommand
      /\ \A q \in Command \ {p} : command'[q] = command[q]
  BY <1>1 DEF FileTypeOK
<1>4. FileSound'
  BY <1>1 DEF FileSound, Broken, Text, WritingValid
<1>5. RemovalsSucceed' /\ WritingValid'
  BY <1>3 DEF RemovalsSucceed, WritingValid, NoCommand, Idle
<1>6. Alone'
  BY <1>1, <1>3 DEF Alone, NoCommand, Idle
<1>7. QED
  BY <1>2, <1>4, <1>5, <1>6

(* Invalid and Kill end a command and leave the file alone.                *)
LEMMA EndKeeps ==
  ASSUME FileInv, NEW p \in Command, Invalid(p) \/ Kill(p)
  PROVE  FileInv'
<1> USE DEF FileInv
<1>1. /\ command' = [command EXCEPT ![p] = NoCommand]
      /\ file' = file
      /\ mishap' \in BOOLEAN
      /\ mishap => mishap'
  BY DEF Invalid, Kill, FileTypeOK
<1>2. FileTypeOK'
  BY <1>1, DefaultIsValid DEF FileTypeOK, NoCommand
<1>3. /\ command'[p] = NoCommand
      /\ \A q \in Command \ {p} : command'[q] = command[q]
  BY <1>1 DEF FileTypeOK
<1>4. FileSound' /\ RemovalsSucceed' /\ WritingValid'
  BY <1>1, <1>3 DEF FileSound, RemovalsSucceed, WritingValid, NoCommand, Idle
<1>5. Alone'
  BY <1>1, <1>3 DEF Alone, LoadedFromFile, Readable, NoCommand, Idle
<1>6. QED
  BY <1>2, <1>4, <1>5

LEMMA FileNextInv ==
  ASSUME FileInv, [FileNext]_fileVars
  PROVE  FileInv'
<1>1. CASE UNCHANGED fileVars
  BY <1>1 DEF FileInv, FileTypeOK, FileSound, RemovalsSucceed, WritingValid, Alone,
              LoadedFromFile, Readable, fileVars
<1>2. CASE FileNext
  <2>1. PICK p \in Command : \/ \E op \in Operation : Load(p, op)
                             \/ Open(p) \/ Invalid(p) \/ Write(p) \/ Kill(p)
    BY <1>2 DEF FileNext
  <2>2. QED
    BY <2>1, LoadKeeps, OpenKeeps, WriteKeeps, EndKeeps
<1>3. QED
  BY <1>1, <1>2

(* The state of the configuration file is well typed.                      *)
THEOREM FileTypeCorrect == FileSpec => []FileTypeOK
<1>1. FileInv => FileTypeOK
  BY DEF FileInv
<1>2. QED
  BY <1>1, FileInitInv, FileNextInv, PTL DEF FileSpec

(* However commands overlap and wherever they die, what can be read of the *)
(* file is a valid configuration.                                          *)
THEOREM FileIsSound == FileSpec => []FileSound
<1>1. FileInv => FileSound
  BY DEF FileInv
<1>2. QED
  BY <1>1, FileInitInv, FileNextInv, PTL DEF FileSpec

(* No command that removes a node is refused by the validation.            *)
THEOREM RemovalsAlwaysSucceed == FileSpec => []RemovalsSucceed
<1>1. FileInv => RemovalsSucceed
  BY DEF FileInv
<1>2. QED
  BY <1>1, FileInitInv, FileNextInv, PTL DEF FileSpec
-----------------------------------------------------------------------------
(* The definitions that ConfigStore brings along are those of Config.      *)
LEMMA StoreSame ==
  /\ \A op, c : Store!Accepts(op, c) = Accepts(op, c)
  /\ \A op, c : Store!Apply(op, c) = Apply(op, c)
  /\ \A c : Store!validateConfig(c) = validateConfig(c)
  /\ Store!DEFAULT_CONFIG = DEFAULT_CONFIG
<1>1. \A op, c : Store!Accepts(op, c) = Accepts(op, c)
  BY DEF Store!Accepts, Accepts
<1>2. \A c, n : /\ Store!AddNode(c, n) = AddNode(c, n)
               /\ Store!RemoveNode(c, n) = RemoveNode(c, n)
               /\ Store!SetDisabled(c, n) = SetDisabled(c, n)
               /\ Store!SetRelations(c, n) = SetRelations(c, n)
               /\ Store!Unrelated(c, n) = Unrelated(c, n)
  BY DEF Store!AddNode, AddNode, Store!RemoveNode, RemoveNode, Store!SetDisabled, SetDisabled,
         Store!SetRelations, SetRelations, Store!Unrelated, Unrelated,
         Store!RelationsWithout, RelationsWithout, Store!RulesWithout, RulesWithout
<1>3. \A c, t, f, r : Store!SetRouting(c, t, f, r) = SetRouting(c, t, f, r)
  BY DEF Store!SetRouting, SetRouting
<1>4. \A op, c : Store!Apply(op, c) = Apply(op, c)
  BY <1>2, <1>3 DEF Store!Apply, Apply
<1>5. \A c : Store!validateConfig(c) = validateConfig(c)
  BY DEF Store!validateConfig, validateConfig, Store!ValidRelation, ValidRelation,
         Store!Acyclic, Acyclic, Store!ValidRouting, ValidRouting, Store!ValidRule, ValidRule
<1>6. Store!DEFAULT_CONFIG = DEFAULT_CONFIG
  BY DEF Store!DEFAULT_CONFIG, DEFAULT_CONFIG
<1>7. QED
  BY <1>1, <1>4, <1>5, <1>6

(* A step that is alone changes the store as a command should, or not.     *)
LEMMA AloneStep ==
  ASSUME FileInv, FileNext, ~ mishap'
  PROVE  Store!Next \/ Stored' = Stored
<1> USE DEF FileInv
<1>1. PICK p \in Command : \/ \E op \in Operation : Load(p, op)
                           \/ Open(p) \/ Invalid(p) \/ Write(p) \/ Kill(p)
  BY DEF FileNext
<1>2. ~ mishap
  BY <1>1 DEF Load, Open, Invalid, Write, Kill, FileTypeOK
<1>3. ASSUME \A q \in Command : command[q].pc # "writing"
      PROVE  Stored = file.config
  BY <1>3 DEF Stored
<1>4. ASSUME \A q \in Command : command'[q].pc # "writing"
      PROVE  Stored' = file'.config
  BY <1>4 DEF Stored
<1>5. CASE \E op \in Operation : Load(p, op)
  <2>1. PICK op \in Operation : Load(p, op)
    BY <1>5
  <2>2. \A q \in Command : command[q].pc = Idle
    BY <2>1 DEF Load
  <2>3. \A q \in Command : command'[q].pc # "writing"
    BY <2>1, <2>2 DEF Load, FileTypeOK, Idle
  <2>4. QED
    BY <1>3, <1>4, <2>1, <2>2, <2>3 DEF Load, Idle
<1>6. CASE Open(p)
  <2>1. /\ command[p].pc = "loaded"
        /\ validateConfig(command[p].new)
        /\ command' = [command EXCEPT ![p].pc = "writing"]
    BY <1>6 DEF Open
  <2>2. \A q \in Command \ {p} : command[q].pc = Idle
    BY <1>2, <2>1 DEF Alone, Idle
  <2>3. LoadedFromFile(p)
    BY <1>2, <2>1 DEF Alone
  <2>4. Stored = file.config
    BY <1>3, <2>1, <2>2 DEF Idle
  <2>5. /\ command'[p].pc = "writing" /\ command'[p].new = command[p].new
        /\ \A q \in Command \ {p} : command'[q] = command[q]
    BY <2>1 DEF FileTypeOK
  <2>6. \A q \in Command : command'[q].pc = "writing" => q = p
    BY <2>2, <2>5 DEF Idle
  <2>7. Stored' = command[p].new
    BY <2>5, <2>6 DEF Stored
  <2>8. Store!Change(command[p].op)
    BY <2>1, <2>3, <2>4, <2>7, StoreSame DEF Store!Change, LoadedFromFile
  <2>9. QED
    BY <2>3, <2>8 DEF Store!Next, LoadedFromFile
<1>7. CASE Write(p)
  <2>1. /\ command[p].pc = "writing"
        /\ file' = Text(command[p].new) \/ file.state # "empty"
        /\ command' = [command EXCEPT ![p] = NoCommand]
    BY <1>7 DEF Write
  <2>2. file' = Text(command[p].new) /\ \A q \in Command \ {p} : command[q].pc = Idle
    BY <1>2, <2>1 DEF Alone, Idle
  <2>3. Stored = command[p].new
    BY <2>1, <2>2 DEF Stored, Idle
  <2>4. \A q \in Command : command'[q].pc # "writing"
    BY <2>1, <2>2 DEF FileTypeOK, NoCommand, Idle
  <2>5. QED
    BY <1>4, <2>2, <2>3, <2>4 DEF Text
<1>8. CASE Invalid(p) \/ Kill(p)
  <2>1. /\ command[p].pc = "loaded"
        /\ file' = file
        /\ command' = [command EXCEPT ![p] = NoCommand]
    BY <1>8 DEF Invalid, Kill, FileTypeOK, Idle
  <2>2. \A q \in Command \ {p} : command[q].pc = Idle
    BY <1>2, <2>1 DEF Alone, Idle
  <2>3. \A q \in Command : command[q].pc # "writing"
    BY <2>1, <2>2 DEF Idle
  <2>4. \A q \in Command : command'[q].pc # "writing"
    BY <2>1, <2>3 DEF FileTypeOK, NoCommand, Idle
  <2>5. QED
    BY <1>3, <1>4, <2>1, <2>3, <2>4
<1>9. QED
  BY <1>1, <1>5, <1>6, <1>7, <1>8

(* While commands run one after the other, the file and the commands       *)
(* implement the store.                                                    *)
THEOREM SerialStore == FileSpec => SerialImplementsStore
<1>1. FileInit => Store!Init
  BY StoreSame DEF FileInit, Store!Init, Stored, NoCommand, Idle
<1>2. ASSUME FileInv, [FileNext]_fileVars
      PROVE  [~ mishap' => Store!Next]_Stored
  <2>1. CASE UNCHANGED fileVars
    BY <2>1 DEF fileVars, Stored
  <2>2. CASE FileNext
    BY <1>2, <2>2, AloneStep
  <2>3. QED
    BY <1>2, <2>1, <2>2
<1>3. QED
  BY <1>1, <1>2, FileInitInv, FileNextInv, PTL DEF FileSpec, SerialImplementsStore

-----------------------------------------------------------------------------------------------------------------------------------------
(***************************************************************************)
(* Induction and recursion over the numbers up to a bound.                 *)
(***************************************************************************)

(* A set with 0 and with the successor of each number in it has them all.  *)
LEMMA NatInduct ==
  ASSUME NEW S, 0 \in S, \A n \in Nat : n \in S => n + 1 \in S
  PROVE  Nat \subseteq S
<1> DEFINE T == Nat \ S
<1>1. SUFFICES ASSUME T # {} PROVE FALSE
  OBVIOUS
<1>2. PICK x \in T : \A y \in T : ~ (<<y, x>> \in OpToRel(<, Nat))
  BY <1>1, NatLessThanWellFounded, WFMin
<1>3. x \in Nat /\ x # 0 /\ x - 1 \in Nat
  OBVIOUS
<1>4. x - 1 \in T
  BY <1>3
<1>5. <<x - 1, x>> \in OpToRel(<, Nat)
  BY <1>3 DEF OpToRel
<1>6. QED
  BY <1>2, <1>4, <1>5

(* A function is defined by its first value and by each from the last.     *)
LEMMA RecursionExists ==
  ASSUME NEW S, NEW first \in S, NEW n \in Nat, NEW next \in [1..n -> [S -> S]]
  PROVE  \E g \in [0..n -> S] :
           g[0] = first /\ \A i \in 1..n : g[i] = next[i][g[i - 1]]
<1> DEFINE Good(g, m) == /\ g \in [0..m -> S]
                         /\ g[0] = first
                         /\ \A i \in 1..m : g[i] = next[i][g[i - 1]]
           M == {m \in Nat : m <= n => \E g : Good(g, m)}
<1>1. 0 \in M
  <2>1. Good([i \in 0..0 |-> first], 0)
    OBVIOUS
  <2>2. QED
    BY <2>1
<1>2. ASSUME NEW m \in Nat, m \in M PROVE m + 1 \in M
  <2>1. SUFFICES ASSUME m + 1 <= n PROVE \E g : Good(g, m + 1)
    OBVIOUS
  <2>2. PICK g : Good(g, m)
    BY <1>2, <2>1
  <2> DEFINE h == [i \in 0..(m + 1) |-> IF i <= m THEN g[i] ELSE next[m + 1][g[m]]]
  <2>3. m + 1 \in 1..n /\ g[m] \in S
    BY <2>1, <2>2
  <2>4. h \in [0..(m + 1) -> S]
    BY <2>2, <2>3
  <2>5. h[0] = first
    BY <2>2
  <2>6. \A i \in 1..(m + 1) : h[i] = next[i][h[i - 1]]
    <3> TAKE i \in 1..(m + 1)
    <3>1. CASE i <= m
      <4>1. i \in 1..m /\ i - 1 \in 0..(m + 1) /\ i - 1 <= m /\ i \in 0..(m + 1)
        BY <3>1
      <4>2. h[i] = g[i] /\ h[i - 1] = g[i - 1]
        BY <3>1, <4>1
      <4>3. QED
        BY <2>2, <4>1, <4>2
    <3>2. CASE i = m + 1
      <4>1. i - 1 = m /\ m \in 0..(m + 1) /\ i \in 0..(m + 1) /\ ~ (i <= m)
        BY <3>2
      <4>2. h[i] = next[m + 1][g[m]] /\ h[m] = g[m]
        BY <4>1
      <4>3. QED
        BY <3>2, <4>1, <4>2
    <3>3. QED
      BY <3>1, <3>2
  <2>7. QED
    BY <2>4, <2>5, <2>6
<1>3. n \in M
  <2> HIDE DEF M
  <2> QED
    BY <1>1, <1>2, NatInduct
<1>4. PICK g : Good(g, n)
  BY <1>3
<1>5. QED
  BY <1>4

-----------------------------------------------------------------------------
(***************************************************************************)
(* The search for cycles in the relations.                                 *)
(***************************************************************************)
N == Cardinality(Node)

(* There are finitely many nodes.                                          *)
LEMMA NodeCount == N \in Nat /\ IsFiniteSet(Node)
BY ConfigAssumption, FS_CardinalityType DEF N

(* A list without repetitions as long as its set lists all of it.          *)
LEMMA ListsAll ==
  ASSUME NEW S, IsFiniteSet(S), NEW f \in [1..Cardinality(S) -> S],
         \A i, j \in 1..Cardinality(S) : f[i] = f[j] => i = j
  PROVE  f \in Seq(S) /\ Len(f) = Cardinality(S) /\ \A s \in S : \E i \in 1..Cardinality(S) : f[i] = s
<1>1. Cardinality(S) \in Nat
  BY FS_CardinalityType
<1>2. ASSUME NEW s \in S, \A i \in 1..Cardinality(S) : f[i] # s PROVE FALSE
  <2>1. f \in [1..Cardinality(S) -> S \ {s}]
    BY <1>2
  <2>2. IsFiniteSet(S \ {s}) /\ Cardinality(S \ {s}) = Cardinality(S) - 1
    BY FS_RemoveElement
  <2>3. IsFiniteSet(1..Cardinality(S)) /\ Cardinality(1..Cardinality(S)) = Cardinality(S)
    <3>1. \/ Cardinality(S) > 0
          \/ Cardinality(S) = 0
      BY <1>1
    <3>2. 1 \in Int /\ Cardinality(S) \in Int
      BY <1>1
    <3>3. IsFiniteSet(1..Cardinality(S)) /\
          Cardinality(1..Cardinality(S)) = IF 1 > Cardinality(S) THEN 0 ELSE (Cardinality(S) - 1) + 1
      BY <3>2, FS_Interval
    <3>4. QED
      BY <1>1, <3>1, <3>3
  <2>4. Cardinality(S \ {s}) < Cardinality(1..Cardinality(S))
    BY <1>1, <2>2, <2>3
  <2>5. \E i, j \in 1..Cardinality(S) : i # j /\ f[i] = f[j]
    <3> DEFINE D == 1..Cardinality(S)
               T == S \ {s}
    <3>1. /\ f \in [D -> T] /\ IsFiniteSet(D) /\ IsFiniteSet(T)
          /\ Cardinality(T) < Cardinality(D)
      BY <2>1, <2>2, <2>3, <2>4
    <3> HIDE DEF D, T
    <3>2. \E i, j \in D : i # j /\ f[i] = f[j]
      BY ONLY <3>1, FS_PigeonHole
    <3>3. QED
      BY <3>2 DEF D
  <2>6. QED
    BY <2>5
<1>3. f \in Seq(S) /\ Len(f) = Cardinality(S)
  BY <1>1
<1>4. QED
  BY <1>2, <1>3

(* SetToSeq lists all of a finite set.                                     *)
LEMMA SetToSeqLists ==
  ASSUME NEW S, IsFiniteSet(S)
  PROVE  LET f == SetToSeq(S) IN
         f \in Seq(S) /\ \A s \in S : \E i \in 1..Len(f) : f[i] = s
<1> DEFINE f == SetToSeq(S)
<1>1. \E g \in [1..Cardinality(S) -> S] : IsInjective(g)
  <2>1. ExistsBijection(1..Cardinality(S), S)
    BY FS_CardinalityType
  <2>2. PICK g : g \in Bijection(1..Cardinality(S), S)
    BY <2>1 DEF ExistsBijection
  <2>3. g \in [1..Cardinality(S) -> S] /\ IsInjective(g)
    BY <2>2 DEF Bijection, Injection, IsInjective
  <2>4. QED
    BY <2>3
<1>2. f \in [1..Cardinality(S) -> S] /\ IsInjective(f)
  BY <1>1 DEF SetToSeq
<1>3. \A i, j \in 1..Cardinality(S) : f[i] = f[j] => i = j
  BY <1>2 DEF IsInjective
<1> HIDE DEF f
<1>4. f \in Seq(S) /\ Len(f) = Cardinality(S) /\ \A s \in S : \E i \in 1..Cardinality(S) : f[i] = s
  BY <1>2, <1>3, ListsAll
<1>5. QED
  BY <1>4 DEF f

(* What the search returns.                                                *)
Finding == [visited : SUBSET Node, cycle : BOOLEAN]

(* A circle of a graph, as a set in which each node has a child.           *)
Circular(G) == \E T \in SUBSET Node : T # {} /\ \A x \in T : G[x] \intersect T # {}

(* The nodes the search has left lead to no others and to no circle.       *)
Settled(G, F) ==
  /\ \A x \in F : G[x] \subseteq F
  /\ \A T \in SUBSET F : T # {} => \E x \in T : G[x] \intersect T = {}

(* Each node of the stack leads on to a node of the path.                  *)
Legal(G, at) ==
  /\ at.stack \subseteq at.visited
  /\ at.node \notin at.visited
  /\ Settled(G, at.visited \ at.stack)
  /\ \A x \in at.stack : G[x] \intersect (at.stack \union {at.node}) # {}

Right(G, at, res) ==
  /\ res.cycle => Circular(G)
  /\ ~ res.cycle => /\ at.visited \union {at.node} \subseteq res.visited
                    /\ Settled(G, res.visited \ at.stack)

(* One step of the loop over the children.                                 *)
FoundNext(children, at, dfs, i, last) ==
  IF last.cycle THEN last
  ELSE IF children[i] \notin last.visited
  THEN dfs[[node |-> children[i], visited |-> last.visited, stack |-> at.stack \union {at.node}]]
  ELSE [last EXCEPT !.cycle = children[i] \in at.stack \union {at.node}]

IsLoop(children, at, dfs, f) ==
  /\ f \in [0..Len(children) -> Finding]
  /\ f[0] = [visited |-> at.visited \union {at.node}, cycle |-> FALSE]
  /\ \A i \in 1..Len(children) : f[i] = FoundNext(children, at, dfs, i, f[i - 1])

(* The loop over the children is a table with a row for each of them.      *)
LEMMA LoopExists ==
  ASSUME NEW children, NEW at, NEW dfs,
         children \in Seq(Node), at \in DfsCall, dfs \in [DfsCall -> Finding]
  PROVE  \E f : IsLoop(children, at, dfs, f) /\ VisitChildren(children, at, dfs) = f[Len(children)]
<1> DEFINE first == [visited |-> at.visited \union {at.node}, cycle |-> FALSE]
           next == [i \in 1..Len(children) |->
                      [last \in Finding |-> FoundNext(children, at, dfs, i, last)]]
           found[i \in 0..Len(children)] ==
             IF i = 0 THEN [visited |-> at.visited \union {at.node}, cycle |-> FALSE]
             ELSE LET last == found[i - 1] IN
                  IF last.cycle THEN last
                  ELSE IF children[i] \notin last.visited
                  THEN dfs[[node |-> children[i], visited |-> last.visited,
                            stack |-> at.stack \union {at.node}]]
                  ELSE [last EXCEPT !.cycle = children[i] \in at.stack \union {at.node}]
<1>1. at.node \in Node /\ at.visited \in SUBSET Node /\ at.stack \in SUBSET Node
  BY DEF DfsCall
<1>2. first \in Finding /\ Len(children) \in Nat
  BY <1>1 DEF Finding
<1>3. \A i \in 1..Len(children), last \in Finding : FoundNext(children, at, dfs, i, last) \in Finding
  <2> TAKE i \in 1..Len(children), last \in Finding
  <2>1. children[i] \in Node /\ last.visited \in SUBSET Node
    BY DEF Finding
  <2>2. [node |-> children[i], visited |-> last.visited, stack |-> at.stack \union {at.node}] \in DfsCall
    BY <1>1, <2>1 DEF DfsCall
  <2>3. [last EXCEPT !.cycle = children[i] \in at.stack \union {at.node}] \in Finding
    <3> DEFINE met == children[i] \in at.stack \union {at.node}
    <3>1. met \in BOOLEAN
      OBVIOUS
    <3> HIDE DEF met
    <3>2. [last EXCEPT !.cycle = met] \in Finding
      BY <3>1 DEF Finding
    <3>3. QED
      BY <3>2 DEF met
  <2>4. QED
    BY <2>2, <2>3 DEF FoundNext
<1>4. PICK f \in [0..Len(children) -> Finding] :
        f[0] = first /\ \A i \in 1..Len(children) : f[i] = FoundNext(children, at, dfs, i, f[i - 1])
  <2>1. next \in [1..Len(children) -> [Finding -> Finding]]
    BY <1>3
  <2>2. PICK f \in [0..Len(children) -> Finding] :
          f[0] = first /\ \A i \in 1..Len(children) : f[i] = next[i][f[i - 1]]
    <3> DEFINE L == Len(children)
               S == Finding
    <3>1. first \in S
      BY <1>2
    <3>2. L \in Nat
      BY <1>2
    <3>3. next \in [1..L -> [S -> S]]
      BY <2>1
    <3> HIDE DEF first, next, found, L, S
    <3>4. \E f \in [0..L -> S] : f[0] = first /\ \A i \in 1..L : f[i] = next[i][f[i - 1]]
      BY ONLY <3>1, <3>2, <3>3, RecursionExists
    <3>5. QED
      BY <3>4 DEF L, S
  <2>3. \A i \in 1..Len(children) : f[i] = FoundNext(children, at, dfs, i, f[i - 1])
    <3> TAKE i \in 1..Len(children)
    <3>1. i - 1 \in 0..Len(children)
      BY <1>2
    <3>2. f[i] = next[i][f[i - 1]] /\ f[i - 1] \in Finding
      BY <2>2, <3>1
    <3>3. QED
      BY <3>2
  <2>4. QED
    BY <2>2, <2>3
<1> DEFINE Row(g, i) == IF i = 0 THEN first ELSE FoundNext(children, at, dfs, i, g[i - 1])
<1>5. \E g : g = [i \in 0..Len(children) |-> Row(g, i)]
  <2>1. \A i \in 0..Len(children) : f[i] = Row(f, i)
    <3> TAKE i \in 0..Len(children)
    <3>1. i = 0 \/ i \in 1..Len(children)
      BY <1>2
    <3>2. QED
      BY <1>2, <1>4, <3>1
  <2> HIDE DEF Row
  <2>2. f = [i \in 0..Len(children) |-> Row(f, i)]
    BY <1>4, <2>1
  <2>3. QED
    BY <2>2
<1>6. found = [i \in 0..Len(children) |-> Row(found, i)]
  BY <1>5 DEF FoundNext
<1>7. VisitChildren(children, at, dfs) = found[Len(children)]
  BY DEF VisitChildren
<1> HIDE DEF found, first, next
<1>8. /\ found[0] = first
      /\ \A i \in 1..Len(children) : found[i] = FoundNext(children, at, dfs, i, found[i - 1])
  <2>1. 0 \in 0..Len(children) /\ \A i \in 1..Len(children) : i \in 0..Len(children) /\ i # 0
    BY <1>2
  <2> HIDE DEF Row
  <2>2. \A i \in 0..Len(children) : found[i] = Row(found, i)
    BY ONLY <1>6
  <2>3. QED
    BY <2>1, <2>2 DEF Row
<1>9. \A i \in 0..Len(children) : found[i] \in Finding
  <2> DEFINE M == {i \in Nat : i <= Len(children) => found[i] \in Finding}
  <2>1. 0 \in M
    BY <1>2, <1>8
  <2>2. ASSUME NEW i \in Nat, i \in M PROVE i + 1 \in M
    <3>1. SUFFICES ASSUME i + 1 <= Len(children) PROVE found[i + 1] \in Finding
      OBVIOUS
    <3>2. found[i] \in Finding /\ i + 1 \in 1..Len(children) /\ (i + 1) - 1 = i
      BY <1>2, <2>2, <3>1
    <3>3. QED
      BY <1>3, <1>8, <3>2
  <2>3. Nat \subseteq M
    <3> HIDE DEF M
    <3>1. QED
      BY <2>1, <2>2, NatInduct
  <2>4. QED
    BY <1>2, <2>3
<1>10. found \in [0..Len(children) -> Finding]
  <2> HIDE DEF Row
  <2>1. QED
    BY <1>6, <1>9
<1>11. QED
  BY <1>7, <1>8, <1>10 DEF first, IsLoop

(* A node all of whose children are settled is settled with them.          *)
LEMMA SettledGrows ==
  ASSUME NEW G \in [Node -> SUBSET Node], NEW F \in SUBSET Node, NEW n \in Node,
         Settled(G, F), G[n] \subseteq F, n \notin F
  PROVE  Settled(G, F \union {n})
<1>1. \A x \in F \union {n} : G[x] \subseteq F \union {n}
  BY DEF Settled
<1>2. ASSUME NEW T \in SUBSET (F \union {n}), T # {}, \A x \in T : G[x] \intersect T # {}
      PROVE  FALSE
  <2>1. T \intersect F # {}
    <3>1. CASE n \in T
      BY <1>2, <3>1
    <3>2. CASE n \notin T
      BY <1>2, <3>2
    <3>3. QED
      BY <3>1, <3>2
  <2>2. \A x \in T \intersect F : G[x] \intersect (T \intersect F) # {}
    BY <1>2 DEF Settled
  <2>3. T \intersect F \in SUBSET F
    OBVIOUS
  <2>4. QED
    BY <2>1, <2>2, <2>3 DEF Settled
<1>3. QED
  BY <1>1, <1>2 DEF Settled

(* The loop over the children is right if the search of each is.           *)
LEMMA LoopIsRight ==
  ASSUME NEW G, NEW children, NEW at, NEW dfs,
         G \in [Node -> SUBSET Node], children \in Seq(Node),
         at \in DfsCall, dfs \in [DfsCall -> Finding],
         \A i \in 1..Len(children) : children[i] \in G[at.node],
         \A k \in G[at.node] : \E i \in 1..Len(children) : children[i] = k,
         Legal(G, at),
         \A call \in DfsCall : call.stack = at.stack \union {at.node} /\ Legal(G, call) =>
           Right(G, call, dfs[call])
  PROVE  /\ VisitChildren(children, at, dfs) \in Finding
         /\ Right(G, at, VisitChildren(children, at, dfs))
<1> DEFINE L == Len(children)
           path == at.stack \union {at.node}
<1>1. PICK f : /\ f \in [0..L -> Finding]
               /\ f[0] = [visited |-> at.visited \union {at.node}, cycle |-> FALSE]
               /\ \A i \in 1..L : f[i] = FoundNext(children, at, dfs, i, f[i - 1])
               /\ VisitChildren(children, at, dfs) = f[L]
  <2>1. PICK f : IsLoop(children, at, dfs, f) /\ VisitChildren(children, at, dfs) = f[Len(children)]
    <3>1. children \in Seq(Node) /\ at \in DfsCall /\ dfs \in [DfsCall -> Finding]
      OBVIOUS
    <3>2. QED
      BY ONLY <3>1, LoopExists
  <2>2. QED
    BY <2>1 DEF IsLoop
<1>2. /\ L \in Nat
      /\ at.node \in Node /\ at.visited \in SUBSET Node /\ at.stack \in SUBSET Node
      /\ \A i \in 1..L : children[i] \in Node
  BY DEF DfsCall
<1>3. /\ at.stack \subseteq at.visited /\ at.node \notin at.visited
      /\ Settled(G, at.visited \ at.stack)
      /\ \A x \in at.stack : G[x] \intersect path # {}
  BY DEF Legal
<1> DEFINE Kept(i) ==
             /\ f[i].cycle => Circular(G)
             /\ ~ f[i].cycle => /\ at.visited \union {at.node} \subseteq f[i].visited
                                /\ Settled(G, f[i].visited \ path)
                                /\ \A j \in 1..i : children[j] \in f[i].visited \ path
           M == {i \in Nat : i <= L => Kept(i)}
<1>4. 0 \in M
  <2>1. (at.visited \union {at.node}) \ path = at.visited \ at.stack
    BY <1>3
  <2>2. f[0].visited = at.visited \union {at.node} /\ ~ f[0].cycle
    BY <1>1
  <2>3. Settled(G, f[0].visited \ path)
    BY <1>3, <2>1, <2>2
  <2>4. \A j \in 1..0 : FALSE
    OBVIOUS
  <2>5. Kept(0)
    BY <2>2, <2>3, <2>4
  <2> HIDE DEF Kept
  <2>6. QED
    BY <2>5
<1>5. ASSUME NEW i \in Nat, i \in M PROVE i + 1 \in M
  <2>1. SUFFICES ASSUME i + 1 <= L PROVE Kept(i + 1)
    OBVIOUS
  <2>2. Kept(i) /\ i + 1 \in 1..L /\ (i + 1) - 1 = i /\ i \in 0..L /\ i + 1 \in 0..L
    BY <1>2, <1>5, <2>1
  <2> DEFINE last == f[i]
             k == children[i + 1]
             call == [node |-> k, visited |-> last.visited, stack |-> path]
  <2>3. f[i + 1] = FoundNext(children, at, dfs, i + 1, last)
    BY <1>1, <2>2
  <2>4. last \in Finding /\ last.visited \in SUBSET Node /\ last.cycle \in BOOLEAN
    BY <1>1, <2>2 DEF Finding
  <2>5. k \in Node /\ k \in G[at.node]
    BY <1>2, <2>2
  <2>6. CASE last.cycle
    <3>1. f[i + 1] = last
      BY <2>3, <2>6 DEF FoundNext
    <3>2. QED
      BY <2>2, <2>6, <3>1
  <2>7. CASE ~ last.cycle
    <3>1. /\ at.visited \union {at.node} \subseteq last.visited
          /\ Settled(G, last.visited \ path)
          /\ \A j \in 1..i : children[j] \in last.visited \ path
      BY <2>2, <2>7
    <3>2. CASE k \notin last.visited
      <4>1. f[i + 1] = dfs[call]
        BY <2>3, <2>7, <3>2 DEF FoundNext
      <4>2. call \in DfsCall
        BY <1>2, <2>4, <2>5 DEF DfsCall
      <4>3. Legal(G, call)
        <5>1. path \subseteq last.visited
          BY <1>3, <3>1
        <5>2. \A x \in path : G[x] \intersect (path \union {k}) # {}
          BY <1>3, <2>5
        <5>3. QED
          BY <3>1, <3>2, <5>1, <5>2 DEF Legal
      <4>4. Right(G, call, f[i + 1])
        BY <4>1, <4>2, <4>3
      <4>5. f[i + 1].cycle => Circular(G)
        BY <4>4 DEF Right
      <4>6. ASSUME ~ f[i + 1].cycle
            PROVE  /\ at.visited \union {at.node} \subseteq f[i + 1].visited
                   /\ Settled(G, f[i + 1].visited \ path)
                   /\ \A j \in 1..(i + 1) : children[j] \in f[i + 1].visited \ path
        <5>1. last.visited \union {k} \subseteq f[i + 1].visited /\ Settled(G, f[i + 1].visited \ path)
          BY <4>4, <4>6 DEF Right
        <5>2. k \notin path
          BY <1>3, <3>1, <3>2
        <5>3. ASSUME NEW j \in 1..(i + 1) PROVE children[j] \in f[i + 1].visited \ path
          <6>1. j \in 1..i \/ j = i + 1
            BY <2>2
          <6>2. QED
            BY <3>1, <5>1, <5>2, <6>1
        <5>4. QED
          BY <3>1, <5>1, <5>3
      <4>7. QED
        BY <4>5, <4>6
    <3>3. CASE k \in last.visited
      <4>1. f[i + 1] = [last EXCEPT !.cycle = k \in path]
        BY <2>3, <2>7, <3>3 DEF FoundNext
      <4>2. f[i + 1].visited = last.visited /\ (f[i + 1].cycle <=> k \in path)
        <5> DEFINE met == k \in path
        <5> HIDE DEF met, last
        <5>1. f[i + 1] = [last EXCEPT !.cycle = met]
          BY <4>1 DEF met
        <5>2. f[i + 1].visited = last.visited /\ f[i + 1].cycle = met
          BY <2>4, <5>1 DEF Finding
        <5>3. QED
          BY <5>2 DEF met
      <4>3. ASSUME k \in path PROVE Circular(G)
        <5>1. \A x \in path : G[x] \intersect path # {}
          BY <1>3, <2>5, <4>3
        <5>2. path \in SUBSET Node /\ path # {}
          BY <1>2
        <5>3. QED
          BY <5>1, <5>2 DEF Circular
      <4>4. ASSUME k \notin path
            PROVE  /\ at.visited \union {at.node} \subseteq f[i + 1].visited
                   /\ Settled(G, f[i + 1].visited \ path)
                   /\ \A j \in 1..(i + 1) : children[j] \in f[i + 1].visited \ path
        <5>1. ASSUME NEW j \in 1..(i + 1) PROVE children[j] \in f[i + 1].visited \ path
          <6>1. j \in 1..i \/ j = i + 1
            BY <2>2
          <6>2. QED
            BY <3>1, <3>3, <4>2, <4>4, <6>1
        <5>2. QED
          BY <3>1, <4>2, <5>1
      <4>5. QED
        BY <4>2, <4>3, <4>4
    <3>4. QED
      BY <3>2, <3>3
  <2>8. QED
    BY <2>4, <2>6, <2>7
<1>6. Kept(L)
  <2>1. L \in M
    <3> HIDE DEF M
    <3>1. QED
      BY <1>2, <1>4, <1>5, NatInduct
  <2> HIDE DEF Kept
  <2>2. QED
    BY <1>2, <2>1
<1>7. f[L] \in Finding
  BY <1>1, <1>2
<1>8. ASSUME ~ f[L].cycle
      PROVE  /\ at.visited \union {at.node} \subseteq f[L].visited
             /\ Settled(G, f[L].visited \ at.stack)
  <2>1. /\ at.visited \union {at.node} \subseteq f[L].visited
        /\ Settled(G, f[L].visited \ path)
        /\ \A j \in 1..L : children[j] \in f[L].visited \ path
    BY <1>6, <1>8
  <2>2. G[at.node] \subseteq f[L].visited \ path
    BY <2>1
  <2>3. f[L].visited \ path \in SUBSET Node
    BY <1>7 DEF Finding
  <2>4. at.node \notin f[L].visited \ path
    OBVIOUS
  <2>5. Settled(G, (f[L].visited \ path) \union {at.node})
    BY <1>2, <2>1, <2>2, <2>3, <2>4, SettledGrows
  <2>6. (f[L].visited \ path) \union {at.node} = f[L].visited \ at.stack
    BY <1>3, <2>1
  <2>7. QED
    BY <2>1, <2>5, <2>6
<1>9. QED
  BY <1>1, <1>6, <1>7, <1>8 DEF Right

(* The children of a node, in the order in which they are searched.        *)
LEMMA GraphFacts ==
  ASSUME NEW relations, Range(relations) \subseteq NodeRelation, NEW n \in Node
  PROVE  /\ Graph(relations, n) \in SUBSET Node
         /\ SetToSeq(Graph(relations, n)) \in Seq(Node)
         /\ LET children == SetToSeq(Graph(relations, n)) IN
            /\ \A i \in 1..Len(children) : children[i] \in Graph(relations, n)
            /\ \A k \in Graph(relations, n) : \E i \in 1..Len(children) : children[i] = k
<1> DEFINE S == Graph(relations, n)
           children == SetToSeq(S)
<1>1. S \in SUBSET Node
  BY DEF Graph, NodeRelation
<1>2. IsFiniteSet(S)
  BY <1>1, NodeCount, FS_Subset
<1> HIDE DEF S
<1>3. children \in Seq(S) /\ \A k \in S : \E i \in 1..Len(children) : children[i] = k
  BY <1>2, SetToSeqLists
<1> HIDE DEF children
<1>4. children \in Seq(Node) /\ \A i \in 1..Len(children) : children[i] \in S
  BY <1>1, <1>3
<1>5. QED
  BY <1>1, <1>3, <1>4 DEF children, S

IsDfs(relations, d) ==
  /\ d \in [0..N -> [DfsCall -> Finding]]
  /\ \A n \in 1..N, at \in DfsCall :
       d[n][at] = VisitChildren(SetToSeq(Graph(relations, at.node)), at, d[n - 1])

(* The loop returns what dfs returns.                                      *)
LEMMA VisitType ==
  ASSUME NEW children, NEW at, NEW dfs,
         children \in Seq(Node), at \in DfsCall, dfs \in [DfsCall -> Finding]
  PROVE  VisitChildren(children, at, dfs) \in Finding
<1>1. PICK f : IsLoop(children, at, dfs, f) /\ VisitChildren(children, at, dfs) = f[Len(children)]
  <2>1. children \in Seq(Node) /\ at \in DfsCall /\ dfs \in [DfsCall -> Finding]
    OBVIOUS
  <2>2. QED
    BY ONLY <2>1, LoopExists
<1>2. Len(children) \in 0..Len(children)
  OBVIOUS
<1>3. QED
  BY <1>1, <1>2 DEF IsLoop

(* The search is a table too, with a row for each depth of its calls.      *)
LEMMA DfsExists ==
  ASSUME NEW relations, Range(relations) \subseteq NodeRelation
  PROVE  \E d : IsDfs(relations, d) /\ Dfs(relations) = d[N]
<1> DEFINE S == [DfsCall -> Finding]
           first == [at \in DfsCall |-> [visited |-> at.visited, cycle |-> FALSE]]
           Visit(e) == [at \in DfsCall |-> VisitChildren(SetToSeq(Graph(relations, at.node)), at, e)]
           next == [n \in 1..N |-> [e \in S |-> Visit(e)]]
           Row(g, n) == [at \in DfsCall |->
                           IF n = 0 THEN [visited |-> at.visited, cycle |-> FALSE]
                           ELSE VisitChildren(SetToSeq(Graph(relations, at.node)), at, g[n - 1])]
           dfs[calls \in 0..N] ==
             [at \in DfsCall |->
                IF calls = 0 THEN [visited |-> at.visited, cycle |-> FALSE]
                ELSE VisitChildren(SetToSeq(Graph(relations, at.node)), at, dfs[calls - 1])]
<1>1. N \in Nat
  BY NodeCount
<1>2. first \in S
  BY DEF Finding, DfsCall
<1>3. ASSUME NEW e, e \in S PROVE Visit(e) \in S
  <2>1. ASSUME NEW at \in DfsCall
        PROVE  VisitChildren(SetToSeq(Graph(relations, at.node)), at, e) \in Finding
    <3>1. at.node \in Node
      BY DEF DfsCall
    <3>2. SetToSeq(Graph(relations, at.node)) \in Seq(Node) /\ at \in DfsCall /\ e \in [DfsCall -> Finding]
      BY <1>3, <3>1, GraphFacts
    <3>3. QED
      BY ONLY <3>2, VisitType
  <2>2. QED
    BY <2>1
<1>4. PICK g \in [0..N -> S] : g[0] = first /\ \A n \in 1..N : g[n] = Visit(g[n - 1])
  <2>1. next \in [1..N -> [S -> S]]
    <3> HIDE DEF Visit, S
    <3>1. \A e \in S : Visit(e) \in S
      BY <1>3
    <3>2. QED
      BY <3>1
  <2>2. \E g \in [0..N -> S] : g[0] = first /\ \A n \in 1..N : g[n] = next[n][g[n - 1]]
    <3> HIDE DEF S, first, next, dfs
    <3>1. QED
      BY ONLY <1>1, <1>2, <2>1, RecursionExists
  <2>3. PICK g \in [0..N -> S] : g[0] = first /\ \A n \in 1..N : g[n] = next[n][g[n - 1]]
    BY <2>2
  <2>4. \A n \in 1..N : g[n] = Visit(g[n - 1])
    <3> TAKE n \in 1..N
    <3>1. n - 1 \in 0..N
      BY <1>1
    <3>2. g[n] = next[n][g[n - 1]] /\ g[n - 1] \in S
      BY <2>3, <3>1
    <3> HIDE DEF Visit, S
    <3>3. QED
      BY <3>2
  <2>5. QED
    BY <2>3, <2>4
<1>5. \E f : f = [n \in 0..N |-> Row(f, n)]
  <2>1. \A n \in 0..N : g[n] = Row(g, n)
    <3> TAKE n \in 0..N
    <3>1. CASE n = 0
      BY <1>4, <3>1
    <3>2. CASE n # 0
      <4>1. n \in 1..N
        BY <1>1, <3>2
      <4>2. g[n] = Visit(g[n - 1])
        BY <1>4, <4>1
      <4>3. QED
        BY <3>2, <4>2
    <3>3. QED
      BY <3>1, <3>2
  <2> HIDE DEF Row
  <2>2. g = [n \in 0..N |-> Row(g, n)]
    BY <1>4, <2>1
  <2>3. QED
    BY <2>2
<1>6. dfs = [n \in 0..N |-> Row(dfs, n)]
  BY <1>5
<1>7. Dfs(relations) = dfs[N]
  BY DEF Dfs, N
<1> HIDE DEF dfs
<1>8. \A n \in 0..N : dfs[n] = Row(dfs, n)
  <2> HIDE DEF Row
  <2>1. QED
    BY ONLY <1>6
<1>9. dfs[0] = first /\ \A n \in 1..N : dfs[n] = Visit(dfs[n - 1])
  <2>1. 0 \in 0..N /\ \A n \in 1..N : n \in 0..N /\ n # 0
    BY <1>1
  <2>2. dfs[0] = first
    BY <1>8, <2>1
  <2>3. ASSUME NEW n \in 1..N PROVE dfs[n] = Visit(dfs[n - 1])
    <3>1. dfs[n] = Row(dfs, n) /\ n # 0
      BY <1>8, <2>1
    <3>2. QED
      BY <3>1
  <2>4. QED
    BY <2>2, <2>3
<1>10. \A n \in 0..N : dfs[n] \in S
  <2> DEFINE M == {n \in Nat : n <= N => dfs[n] \in S}
  <2> HIDE DEF S, Visit, first
  <2>1. 0 \in M
    BY <1>2, <1>9
  <2>2. ASSUME NEW n \in Nat, n \in M PROVE n + 1 \in M
    <3>1. SUFFICES ASSUME n + 1 <= N PROVE dfs[n + 1] \in S
      OBVIOUS
    <3>2. dfs[n] \in S /\ n + 1 \in 1..N /\ (n + 1) - 1 = n
      BY <1>1, <2>2, <3>1
    <3>3. dfs[n + 1] = Visit(dfs[n])
      BY <1>9, <3>2
    <3>4. QED
      BY <1>3, <3>2, <3>3
  <2>3. Nat \subseteq M
    <3> HIDE DEF M
    <3>1. QED
      BY <2>1, <2>2, NatInduct
  <2>4. QED
    BY <1>1, <2>3
<1>11. dfs \in [0..N -> S]
  <2> HIDE DEF Row, S
  <2>1. QED
    BY <1>6, <1>10
<1>12. \A n \in 1..N, at \in DfsCall :
         dfs[n][at] = VisitChildren(SetToSeq(Graph(relations, at.node)), at, dfs[n - 1])
  <2> TAKE n \in 1..N, at \in DfsCall
  <2>1. dfs[n] = Visit(dfs[n - 1])
    BY <1>9
  <2>2. QED
    BY <2>1
<1>13. QED
  BY <1>7, <1>11, <1>12 DEF IsDfs

(* The search from a node is right: the path to it can have no more nodes  *)
(* than there are, so that the calls do not nest any deeper.               *)
LEMMA DfsIsRight ==
  ASSUME NEW relations, Range(relations) \subseteq NodeRelation,
         NEW at, at \in DfsCall, at.stack = {},
         Legal([n \in Node |-> Graph(relations, n)], at)
  PROVE  /\ Dfs(relations)[at] \in Finding
         /\ Right([n \in Node |-> Graph(relations, n)], at, Dfs(relations)[at])
<1> DEFINE G == [n \in Node |-> Graph(relations, n)]
<1>1. PICK d : IsDfs(relations, d) /\ Dfs(relations) = d[N]
  BY DfsExists
<1>2. N \in Nat /\ IsFiniteSet(Node)
  BY NodeCount
<1>3. G \in [Node -> SUBSET Node] /\ \A n \in Node : G[n] = Graph(relations, n)
  BY GraphFacts
<1>4. Legal(G, at)
  OBVIOUS
<1> HIDE DEF G
<1> DEFINE Good(n) == \A call \in DfsCall :
                        Legal(G, call) /\ n + Cardinality(call.stack) >= N => Right(G, call, d[n][call])
           M == {n \in Nat : n <= N => Good(n)}
<1>5. \A call \in DfsCall : Legal(G, call) =>
        /\ call.node \in Node /\ call.stack \in SUBSET Node /\ call.node \notin call.stack
        /\ IsFiniteSet(call.stack) /\ Cardinality(call.stack) \in Nat
        /\ Cardinality(call.stack \union {call.node}) = Cardinality(call.stack) + 1
        /\ Cardinality(call.stack) < N
  <2> TAKE call \in DfsCall
  <2> HAVE Legal(G, call)
  <2>1. call.node \in Node /\ call.stack \in SUBSET Node /\ call.node \notin call.stack
    BY DEF DfsCall, Legal
  <2>2. IsFiniteSet(call.stack)
    BY <1>2, <2>1, FS_Subset
  <2>3. Cardinality(call.stack) \in Nat
    BY <2>2, FS_CardinalityType
  <2>4. Cardinality(call.stack \union {call.node}) = Cardinality(call.stack) + 1
    BY <2>1, <2>2, FS_AddElement
  <2>5. Cardinality(call.stack \union {call.node}) <= N
    <3>1. call.stack \union {call.node} \in SUBSET Node
      BY <2>1
    <3>2. QED
      BY <1>2, <3>1, FS_Subset DEF N
  <2>6. QED
    BY <1>2, <2>1, <2>2, <2>3, <2>4, <2>5
<1>6. 0 \in M
  <2>1. ASSUME NEW call \in DfsCall, Legal(G, call), 0 + Cardinality(call.stack) >= N PROVE FALSE
    <3>1. Cardinality(call.stack) \in Nat /\ Cardinality(call.stack) < N
      BY <1>5, <2>1
    <3>2. QED
      BY <1>2, <2>1, <3>1
  <2>2. QED
    BY <2>1
<1>7. ASSUME NEW n \in Nat, n \in M PROVE n + 1 \in M
  <2>1. SUFFICES ASSUME n + 1 <= N, NEW call \in DfsCall, Legal(G, call),
                        (n + 1) + Cardinality(call.stack) >= N
                 PROVE  Right(G, call, d[n + 1][call])
    OBVIOUS
  <2>2. n + 1 \in 1..N /\ (n + 1) - 1 = n /\ n \in 0..N /\ n <= N
    BY <1>2, <2>1
  <2>3. d[n] \in [DfsCall -> Finding]
    BY <1>1, <2>2 DEF IsDfs
  <2> DEFINE children == SetToSeq(Graph(relations, call.node))
             dfs == d[n]
  <2>4. d[n + 1][call] = VisitChildren(children, call, dfs)
    BY <1>1, <2>2 DEF IsDfs
  <2>5. /\ children \in Seq(Node)
        /\ \A i \in 1..Len(children) : children[i] \in G[call.node]
        /\ \A k \in G[call.node] : \E i \in 1..Len(children) : children[i] = k
    <3>1. call.node \in Node
      BY <1>5, <2>1
    <3>2. G[call.node] = Graph(relations, call.node)
      BY <1>3, <3>1
    <3>3. Range(relations) \subseteq NodeRelation
      OBVIOUS
    <3>4. /\ children \in Seq(Node)
          /\ \A i \in 1..Len(children) : children[i] \in Graph(relations, call.node)
          /\ \A k \in Graph(relations, call.node) : \E i \in 1..Len(children) : children[i] = k
      BY ONLY <3>1, <3>3, GraphFacts
    <3>5. QED
      BY <3>2, <3>4
  <2>6. \A x \in DfsCall : x.stack = call.stack \union {call.node} /\ Legal(G, x) => Right(G, x, dfs[x])
    <3> TAKE x \in DfsCall
    <3> HAVE x.stack = call.stack \union {call.node} /\ Legal(G, x)
    <3>1. Cardinality(x.stack) = Cardinality(call.stack) + 1 /\ Cardinality(call.stack) \in Nat
      BY <1>5, <2>1
    <3>2. n + Cardinality(x.stack) >= N
      BY <1>2, <2>1, <3>1
    <3>3. Good(n)
      BY <1>7, <2>2
    <3>4. QED
      BY <3>2, <3>3
  <2>7. call \in DfsCall /\ Legal(G, call)
    BY <2>1
  <2> HIDE DEF children, dfs
  <2>8. Right(G, call, VisitChildren(children, call, dfs))
    <3>1. dfs \in [DfsCall -> Finding] /\ G \in [Node -> SUBSET Node]
      BY <1>3, <2>3 DEF dfs
    <3>2. QED
      BY ONLY <3>1, <2>5, <2>6, <2>7, LoopIsRight
  <2>9. QED
    BY <2>4, <2>8
<1>8. Good(N)
  <2>1. N \in M
    <3> HIDE DEF M
    <3>1. QED
      BY <1>2, <1>6, <1>7, NatInduct
  <2> HIDE DEF Good
  <2>2. QED
    BY <1>2, <2>1
<1>9. Cardinality(at.stack) = 0
  BY FS_EmptySet
<1>10. Right(G, at, d[N][at])
  <2>1. N + Cardinality(at.stack) >= N
    BY <1>2, <1>9
  <2>2. at \in DfsCall
    OBVIOUS
  <2>3. QED
    BY ONLY <1>4, <1>8, <2>1, <2>2
<1>11. d[N][at] \in Finding
  BY <1>1, <1>2 DEF IsDfs
<1>12. QED
  BY <1>1, <1>10, <1>11 DEF G

(* What is a circle of the graph is one of the relations.                  *)
LEMMA CircularIsCycle ==
  ASSUME NEW relations, Range(relations) \subseteq NodeRelation
  PROVE  Circular([n \in Node |-> Graph(relations, n)]) <=> ~ Acyclic(Range(relations))
<1> DEFINE R == Range(relations)
           G == [n \in Node |-> Graph(relations, n)]
<1>1. ASSUME NEW T \in SUBSET Node, NEW n \in T
      PROVE  G[n] \intersect T # {} <=> \E r \in R : r.parent = n /\ r.children \intersect T # {}
  <2>1. G[n] = UNION {r.children : r \in {s \in R : s.parent = n}}
    BY DEF Graph
  <2> HIDE DEF G
  <2>2. QED
    BY <2>1
<1> HIDE DEF G, R
<1>2. ASSUME NEW T \in SUBSET Node
      PROVE  (\A n \in T : G[n] \intersect T # {}) <=>
               (\A n \in T : \E r \in R : r.parent = n /\ r.children \intersect T # {})
  BY <1>1
<1>3. Circular(G) <=> ~ Acyclic(R)
  BY <1>2 DEF Circular, Acyclic
<1>4. QED
  BY <1>3 DEF R, G

(* So is the loop of hasCircularDependency over the relations.             *)
LEMMA SearchExists ==
  ASSUME NEW relations, Range(relations) \subseteq NodeRelation, relations \in Seq(NodeRelation)
  PROVE  \E f : /\ HasCircularDependency(relations) = f[Len(relations)].cycle
                /\ f[0] = [visited |-> {}, cycle |-> FALSE]
                /\ \A i \in 1..Len(relations) :
                     f[i] = LET last == f[i - 1] IN
                            IF last.cycle \/ relations[i].parent \in last.visited THEN last
                            ELSE Dfs(relations)[[node |-> relations[i].parent,
                                                 visited |-> last.visited, stack |-> {}]]
<1> DEFINE L == Len(relations)
           first == [visited |-> {}, cycle |-> FALSE]
           Then(i, last) == IF last.cycle \/ relations[i].parent \in last.visited THEN last
                            ELSE Dfs(relations)[[node |-> relations[i].parent,
                                                 visited |-> last.visited, stack |-> {}]]
           next == [i \in 1..L |-> [last \in Finding |-> Then(i, last)]]
           found[i \in 0..L] ==
             IF i = 0 THEN [visited |-> {}, cycle |-> FALSE]
             ELSE LET last == found[i - 1] IN
                  IF last.cycle \/ relations[i].parent \in last.visited THEN last
                  ELSE Dfs(relations)[[node |-> relations[i].parent, visited |-> last.visited,
                                       stack |-> {}]]
           Row(g, i) == IF i = 0 THEN first ELSE Then(i, g[i - 1])
<1>1. L \in Nat /\ first \in Finding
  BY DEF Finding
<1>2. ASSUME NEW i \in 1..L, NEW last \in Finding PROVE Then(i, last) \in Finding
  <2>1. relations[i].parent \in Node /\ last.visited \in SUBSET Node
    <3>1. relations[i] \in NodeRelation
      OBVIOUS
    <3>2. QED
      BY <3>1 DEF NodeRelation, Finding
  <2>2. [node |-> relations[i].parent, visited |-> last.visited, stack |-> {}] \in DfsCall
    BY <2>1 DEF DfsCall
  <2>3. Dfs(relations) \in [DfsCall -> Finding]
    <3>1. PICK d : IsDfs(relations, d) /\ Dfs(relations) = d[N]
      BY DfsExists
    <3>2. QED
      BY <3>1, NodeCount DEF IsDfs
  <2>4. QED
    BY <2>2, <2>3
<1>3. PICK g \in [0..L -> Finding] : g[0] = first /\ \A i \in 1..L : g[i] = Then(i, g[i - 1])
  <2>1. next \in [1..L -> [Finding -> Finding]]
    BY <1>2
  <2>2. \E g \in [0..L -> Finding] : g[0] = first /\ \A i \in 1..L : g[i] = next[i][g[i - 1]]
    <3> HIDE DEF L, first, next, found
    <3>1. QED
      BY ONLY <1>1, <2>1, RecursionExists
  <2>3. PICK g \in [0..L -> Finding] : g[0] = first /\ \A i \in 1..L : g[i] = next[i][g[i - 1]]
    BY <2>2
  <2>4. \A i \in 1..L : g[i] = Then(i, g[i - 1])
    <3> TAKE i \in 1..L
    <3>1. i - 1 \in 0..L
      BY <1>1
    <3>2. g[i] = next[i][g[i - 1]] /\ g[i - 1] \in Finding
      BY <2>3, <3>1
    <3> HIDE DEF Then
    <3>3. QED
      BY <3>2
  <2>5. QED
    BY <2>3, <2>4
<1>4. \E f : f = [i \in 0..L |-> Row(f, i)]
  <2>1. \A i \in 0..L : g[i] = Row(g, i)
    <3> TAKE i \in 0..L
    <3>1. i = 0 \/ i \in 1..L
      BY <1>1
    <3> HIDE DEF Then
    <3>2. QED
      BY <1>1, <1>3, <3>1
  <2> HIDE DEF Row
  <2>2. g = [i \in 0..L |-> Row(g, i)]
    BY <1>3, <2>1
  <2>3. QED
    BY <2>2
<1>5. found = [i \in 0..L |-> Row(found, i)]
  BY <1>4
<1>6. HasCircularDependency(relations) = found[L].cycle
  BY DEF HasCircularDependency
<1> HIDE DEF found
<1>7. \A i \in 0..L : found[i] = Row(found, i)
  <2> HIDE DEF Row
  <2>1. QED
    BY ONLY <1>5
<1>8. found[0] = first /\ \A i \in 1..L : found[i] = Then(i, found[i - 1])
  <2>1. 0 \in 0..L /\ \A i \in 1..L : i \in 0..L /\ i # 0
    BY <1>1
  <2> HIDE DEF Then, first
  <2>2. QED
    BY <1>7, <2>1
<1>9. QED
  BY <1>6, <1>8

(* hasCircularDependency finds a circle exactly if there is one, in        *)
(* whichever order the file lists the relations.                           *)
THEOREM CycleSearchIsExact ==
  ASSUME NEW relations \in Seq(NodeRelation)
  PROVE  HasCircularDependency(relations) <=> ~ Acyclic(Range(relations))
<1> DEFINE L == Len(relations)
           G == [n \in Node |-> Graph(relations, n)]
<1>1. Range(relations) \subseteq NodeRelation /\ L \in Nat
  BY DEF Range
<1>2. PICK f : /\ HasCircularDependency(relations) = f[L].cycle
               /\ f[0] = [visited |-> {}, cycle |-> FALSE]
               /\ \A i \in 1..L :
                    f[i] = IF f[i - 1].cycle \/ relations[i].parent \in f[i - 1].visited THEN f[i - 1]
                           ELSE Dfs(relations)[[node |-> relations[i].parent,
                                                visited |-> f[i - 1].visited, stack |-> {}]]
  BY <1>1, SearchExists
<1> DEFINE Kept(i) ==
             /\ f[i] \in Finding
             /\ f[i].cycle => Circular(G)
             /\ ~ f[i].cycle => /\ Settled(G, f[i].visited)
                                /\ \A j \in 1..i : relations[j].parent \in f[i].visited
           M == {i \in Nat : i <= L => Kept(i)}
<1>3. 0 \in M
  <2>1. f[0] \in Finding /\ ~ f[0].cycle /\ f[0].visited = {}
    BY <1>2 DEF Finding
  <2>2. Settled(G, {})
    BY DEF Settled
  <2>3. \A j \in 1..0 : FALSE
    OBVIOUS
  <2>4. Kept(0)
    BY <2>1, <2>2, <2>3
  <2> HIDE DEF Kept
  <2>5. QED
    BY <2>4
<1>4. ASSUME NEW i \in Nat, i \in M PROVE i + 1 \in M
  <2>1. SUFFICES ASSUME i + 1 <= L PROVE Kept(i + 1)
    OBVIOUS
  <2>2. Kept(i) /\ i + 1 \in 1..L /\ (i + 1) - 1 = i
    BY <1>1, <1>4, <2>1
  <2> DEFINE last == f[i]
             n == relations[i + 1].parent
             call == [node |-> n, visited |-> last.visited, stack |-> {}]
  <2>3. f[i + 1] = IF last.cycle \/ n \in last.visited THEN last ELSE Dfs(relations)[call]
    BY <1>2, <2>2
  <2>4. n \in Node
    <3>1. relations[i + 1] \in NodeRelation
      BY <2>2
    <3>2. QED
      BY <3>1 DEF NodeRelation
  <2>5. \A j \in 1..(i + 1) : j \in 1..i \/ j = i + 1
    OBVIOUS
  <2>6. CASE last.cycle \/ n \in last.visited
    <3>1. f[i + 1] = last
      BY <2>3, <2>6
    <3>2. QED
      BY <2>2, <2>5, <2>6, <3>1
  <2>7. CASE ~ (last.cycle \/ n \in last.visited)
    <3>1. f[i + 1] = Dfs(relations)[call]
      BY <2>3, <2>7
    <3>2. last.visited \in SUBSET Node /\ Settled(G, last.visited)
      BY <2>2, <2>7 DEF Finding
    <3>3. call \in DfsCall /\ call.stack = {}
      BY <2>4, <3>2 DEF DfsCall
    <3>4. Legal(G, call)
      <4>1. last.visited \ {} = last.visited
        OBVIOUS
      <4>2. QED
        BY <2>7, <3>2, <4>1 DEF Legal
    <3>5. f[i + 1] \in Finding /\ Right(G, call, f[i + 1])
      BY <1>1, <3>1, <3>3, <3>4, DfsIsRight
    <3>6. ASSUME ~ f[i + 1].cycle
          PROVE  /\ Settled(G, f[i + 1].visited)
                 /\ \A j \in 1..(i + 1) : relations[j].parent \in f[i + 1].visited
      <4>1. /\ last.visited \union {n} \subseteq f[i + 1].visited
            /\ Settled(G, f[i + 1].visited \ {})
        BY <3>5, <3>6 DEF Right
      <4>2. f[i + 1].visited \ {} = f[i + 1].visited
        OBVIOUS
      <4>3. \A j \in 1..i : relations[j].parent \in last.visited
        BY <2>2, <2>7
      <4>4. QED
        BY <2>5, <4>1, <4>2, <4>3
    <3>7. QED
      BY <3>5, <3>6 DEF Right
  <2>8. QED
    BY <2>6, <2>7
<1>5. Kept(L)
  <2>1. L \in M
    <3> HIDE DEF M
    <3>1. QED
      BY <1>1, <1>3, <1>4, NatInduct
  <2> HIDE DEF Kept
  <2>2. QED
    BY <1>1, <2>1
<1>6. ASSUME ~ f[L].cycle, Circular(G) PROVE FALSE
  <2>1. PICK T \in SUBSET Node : T # {} /\ \A x \in T : G[x] \intersect T # {}
    BY <1>6 DEF Circular
  <2>2. \A x \in T : x \in f[L].visited
    <3> TAKE x \in T
    <3>1. PICK r \in Range(relations) : r.parent = x
      BY <2>1 DEF Graph
    <3>2. PICK j \in 1..L : relations[j] = r
      BY DEF Range
    <3>3. QED
      BY <1>5, <1>6, <3>1, <3>2
  <2>3. QED
    BY <1>5, <1>6, <2>1, <2>2 DEF Settled
<1>7. Circular(G) <=> ~ Acyclic(Range(relations))
  BY <1>1, CircularIsCycle
<1>8. QED
  BY <1>2, <1>5, <1>6, <1>7

-----------------------------------------------------------------------------
(***************************************************************************)
(* The permissions that the relations grant.                               *)
(***************************************************************************)

(* A list of the relations of a file, in any order.                        *)
Listed(relations, R) ==
  /\ relations \in Seq(NodeRelation)
  /\ Range(relations) = R
  /\ \A r, s \in R : r.parent = s.parent => r = s

Kids(R, n) == UNION {r.children : r \in {s \in R : s.parent = n}}

(* Every order of a set of relations with one for each parent is a list.   *)
LEMMA OrderIsListed ==
  ASSUME NEW R \in SUBSET NodeRelation, \A r, s \in R : r.parent = s.parent => r = s,
         NEW relations \in SetToSeqs(R)
  PROVE  Listed(relations, R)
<1> DEFINE f == [r \in R |-> r.parent]
<1>1. IsFiniteSet(R)
  <2>1. \A r \in R : r.parent \in Node
    BY DEF NodeRelation
  <2>2. f \in [R -> Node]
    BY <2>1
  <2>3. \A r, s \in R : f[r] = f[s] => r = s
    OBVIOUS
  <2> HIDE DEF f
  <2>4. f \in Injection(R, Node)
    BY <2>2, <2>3 DEF Injection, IsInjective
  <2>5. QED
    BY <2>4, NodeCount, FS_Injection
<1>2. /\ relations \in [1..Cardinality(R) -> R]
      /\ \A i, j \in 1..Cardinality(R) : relations[i] = relations[j] => i = j
  BY DEF SetToSeqs
<1>3. /\ relations \in Seq(R) /\ Len(relations) = Cardinality(R)
      /\ \A s \in R : \E i \in 1..Cardinality(R) : relations[i] = s
  BY <1>1, <1>2, ListsAll
<1>4. Range(relations) = R
  BY <1>2, <1>3 DEF Range
<1>5. relations \in Seq(NodeRelation)
  BY <1>3
<1>6. QED
  BY <1>4, <1>5 DEF Listed

(* SelectInSeq answers with an index it has selected.                      *)
LEMMA FirstIndex ==
  ASSUME NEW n \in Nat, NEW I \in SUBSET (1..n), I # {}
  PROVE  Min(I) \in I
<1>1. \E x \in I : \A y \in I : x <= y
  <2>1. PICK x \in I : \A y \in I : ~ (<<y, x>> \in OpToRel(<, Nat))
    <3>1. I \subseteq Nat /\ I # {}
      OBVIOUS
    <3>2. QED
      BY <3>1, NatLessThanWellFounded, WFMin
  <2>2. ASSUME NEW y \in I, y < x PROVE FALSE
    <3>1. <<y, x>> \in OpToRel(<, Nat)
      BY <2>2 DEF OpToRel
    <3>2. QED
      BY <2>1, <3>1
  <2>3. QED
    BY <2>2
<1>2. QED
  BY <1>1 DEF Min

(* The first relation found is one of the relations, if there is any:      *)
(* getParent, getChildren and getRelationMode.                             *)
LEMMA ParentFound ==
  ASSUME NEW relations, NEW R, Listed(relations, R), NEW n \in Node
  PROVE  /\ GetParent(relations, n) \in Node \union {None}
         /\ GetParent(relations, n) = None => \A r \in R : n \notin r.children
         /\ GetParent(relations, n) # None =>
              \E r \in R : n \in r.children /\ r.parent = GetParent(relations, n)
<1> DEFINE Test(r) == n \in r.children
           I == {j \in 1..Len(relations) : Test(relations[j])}
<1>1. Len(relations) \in Nat /\ relations \in Seq(NodeRelation)
  BY DEF Listed
<1>2. GetParent(relations, n) = IF I = {} THEN None ELSE relations[Min(I)].parent
  <2>1. I # {} => Min(I) \in I
    BY <1>1, FirstIndex
  <2>2. Min(I) \in I => Min(I) # 0
    BY <1>1
  <2> HIDE DEF I
  <2>3. SelectInSeq(relations, Test) = IF I # {} THEN Min(I) ELSE 0
    BY DEF SelectInSeq, I
  <2>4. QED
    BY <2>1, <2>2, <2>3 DEF GetParent
<1>3. CASE I = {}
  <2>1. \A r \in R : n \notin r.children
    BY <1>3 DEF Listed, Range
  <2>2. QED
    BY <1>2, <1>3, <2>1
<1>4. CASE I # {}
  <2>1. Min(I) \in I
    BY <1>1, <1>4, FirstIndex
  <2> DEFINE r == relations[Min(I)]
  <2>2. r \in R /\ r \in NodeRelation /\ n \in r.children
    BY <1>1, <2>1 DEF Listed, Range
  <2>3. GetParent(relations, n) = r.parent
    BY <1>2, <1>4
  <2>4. r.parent \in Node /\ r.parent # None
    BY <2>2, ConfigAssumption DEF NodeRelation
  <2>5. QED
    BY <2>2, <2>3, <2>4
<1>5. QED
  BY <1>3, <1>4

(* There is but one relation for a parent, and it has all the children.    *)
LEMMA ChildrenFound ==
  ASSUME NEW relations, NEW R, Listed(relations, R), NEW n
  PROVE  GetChildren(relations, n) = Kids(R, n) /\ Kids(R, n) \in SUBSET Node
<1> DEFINE Test(r) == r.parent = n
           I == {j \in 1..Len(relations) : Test(relations[j])}
<1>1. Len(relations) \in Nat /\ relations \in Seq(NodeRelation)
  BY DEF Listed
<1>2. GetChildren(relations, n) = IF I = {} THEN {} ELSE relations[Min(I)].children
  <2>1. I # {} => Min(I) \in I
    BY <1>1, FirstIndex
  <2>2. Min(I) \in I => Min(I) # 0
    BY <1>1
  <2> HIDE DEF I
  <2>3. SelectInSeq(relations, Test) = IF I # {} THEN Min(I) ELSE 0
    BY DEF SelectInSeq, I
  <2>4. QED
    BY <2>1, <2>2, <2>3 DEF GetChildren
<1>3. CASE I = {}
  <2>1. {s \in R : s.parent = n} = {}
    BY <1>3 DEF Listed, Range
  <2>2. Kids(R, n) = {}
    BY <2>1 DEF Kids
  <2>3. QED
    BY <1>2, <1>3, <2>2
<1>4. CASE I # {}
  <2>1. Min(I) \in I
    BY <1>1, <1>4, FirstIndex
  <2> DEFINE r == relations[Min(I)]
  <2>2. r \in R /\ r \in NodeRelation /\ r.parent = n
    BY <1>1, <2>1 DEF Listed, Range
  <2>3. {s \in R : s.parent = n} = {r}
    BY <2>2 DEF Listed
  <2>4. Kids(R, n) = r.children
    BY <2>3 DEF Kids
  <2>5. r.children \in SUBSET Node
    BY <2>2 DEF NodeRelation
  <2>6. QED
    BY <1>2, <1>4, <2>4, <2>5
<1>5. QED
  BY <1>3, <1>4

(* The mode of a node and its child is that of a relation of theirs.       *)
LEMMA ModeFound ==
  ASSUME NEW relations, NEW R, Listed(relations, R), NEW parent, NEW child
  PROVE  LET mode == GetRelationMode(relations, parent, child) IN
         /\ mode = None => \A r \in R : r.parent = parent => child \notin r.children
         /\ mode # None => \E r \in R : r.parent = parent /\ child \in r.children /\ r.mode = mode
<1> DEFINE Test(r) == r.parent = parent /\ child \in r.children
           I == {j \in 1..Len(relations) : Test(relations[j])}
           mode == GetRelationMode(relations, parent, child)
<1>1. Len(relations) \in Nat /\ relations \in Seq(NodeRelation)
  BY DEF Listed
<1>2. mode = IF I = {} THEN None ELSE relations[Min(I)].mode
  <2>1. I # {} => Min(I) \in I
    BY <1>1, FirstIndex
  <2>2. Min(I) \in I => Min(I) # 0
    BY <1>1
  <2> HIDE DEF I
  <2>3. SelectInSeq(relations, Test) = IF I # {} THEN Min(I) ELSE 0
    BY DEF SelectInSeq, I
  <2>4. QED
    BY <2>1, <2>2, <2>3 DEF GetRelationMode
<1>3. CASE I = {}
  <2>1. \A r \in R : r.parent = parent => child \notin r.children
    BY <1>3 DEF Listed, Range
  <2>2. QED
    BY <1>2, <1>3, <2>1
<1>4. CASE I # {}
  <2>1. Min(I) \in I
    BY <1>1, <1>4, FirstIndex
  <2> DEFINE r == relations[Min(I)]
  <2>2. r \in R /\ r \in NodeRelation /\ r.parent = parent /\ child \in r.children
    BY <1>1, <2>1 DEF Listed, Range
  <2>3. mode = r.mode
    BY <1>2, <1>4
  <2>4. r.mode \in Mode /\ r.mode # None
    BY <2>2, ModeAssumption DEF NodeRelation
  <2>5. /\ mode # None
        /\ \E x \in R : x.parent = parent /\ child \in x.children /\ x.mode = mode
    <3> HIDE DEF mode
    <3>1. QED
      BY <2>2, <2>3, <2>4
  <2>6. QED
    BY <2>5
<1>5. QED
  BY <1>3, <1>4

(* The table of the descendants, by the length of the paths to them.       *)
IsBelow(relations, d) ==
  /\ d \in [0..N -> [Node -> SUBSET Node]]
  /\ \A k \in Node : d[0][k] = {}
  /\ \A n \in 1..N, k \in Node :
       d[n][k] = LET children == GetChildren(relations, k)
                 IN  children \union UNION {d[n - 1][child] : child \in children}

(* GetDescendants is the last row of such a table.                         *)
LEMMA DescendantRows ==
  ASSUME NEW relations, NEW R, Listed(relations, R)
  PROVE  \E d : IsBelow(relations, d) /\ \A n \in Node : GetDescendants(relations, n) = d[N][n]
<1> DEFINE S == [Node -> SUBSET Node]
           first == [k \in Node |-> {}]
           Step(e, k) == LET children == GetChildren(relations, k)
                         IN  children \union UNION {e[child] : child \in children}
           Visit(e) == [k \in Node |-> Step(e, k)]
           next == [n \in 1..N |-> [e \in S |-> Visit(e)]]
           Row(g, n) == [k \in Node |-> IF n = 0 THEN {}
                ELSE LET children == GetChildren(relations, k)
                     IN  children \union UNION {g[n - 1][child] : child \in children}]
           below[length \in 0..N] ==
             [k \in Node |-> IF length = 0 THEN {}
                ELSE LET children == GetChildren(relations, k)
                     IN  children \union UNION {below[length - 1][child] : child \in children}]
<1>1. N \in Nat
  BY NodeCount
<1>2. first \in S
  OBVIOUS
<1>3. ASSUME NEW e, e \in S PROVE Visit(e) \in S
  <2>1. \A k \in Node : Step(e, k) \in SUBSET Node
    BY <1>3, ChildrenFound
  <2> HIDE DEF Step
  <2>2. QED
    BY <2>1
<1>5. ASSUME NEW g, NEW n \in 0..N, n # 0 PROVE Row(g, n) = Visit(g[n - 1])
  BY <1>5
<1>6. PICK g \in [0..N -> S] : g[0] = first /\ \A n \in 1..N : g[n] = Visit(g[n - 1])
  <2>1. next \in [1..N -> [S -> S]]
    <3> HIDE DEF Visit, S
    <3>1. \A e \in S : Visit(e) \in S
      BY <1>3
    <3>2. QED
      BY <3>1
  <2>2. \E g \in [0..N -> S] : g[0] = first /\ \A n \in 1..N : g[n] = next[n][g[n - 1]]
    <3> HIDE DEF S, first, next, below
    <3>1. QED
      BY ONLY <1>1, <1>2, <2>1, RecursionExists
  <2>3. PICK g \in [0..N -> S] : g[0] = first /\ \A n \in 1..N : g[n] = next[n][g[n - 1]]
    BY <2>2
  <2>4. \A n \in 1..N : g[n] = Visit(g[n - 1])
    <3> TAKE n \in 1..N
    <3>1. n - 1 \in 0..N
      BY <1>1
    <3>2. g[n] = next[n][g[n - 1]] /\ g[n - 1] \in S
      BY <2>3, <3>1
    <3> HIDE DEF Visit, S
    <3>3. QED
      BY <3>2
  <2>5. QED
    BY <2>3, <2>4
<1>7. \E f : f = [n \in 0..N |-> Row(f, n)]
  <2>1. \A n \in 0..N : g[n] = Row(g, n)
    <3> TAKE n \in 0..N
    <3>1. CASE n = 0
      <4> HIDE DEF Visit
      <4>1. QED
        BY <1>6, <3>1
    <3>2. CASE n # 0
      <4>1. n \in 1..N
        BY <1>1, <3>2
      <4>2. g[n] = Visit(g[n - 1])
        BY <1>6, <4>1
      <4>3. QED
        BY <1>5, <3>2, <4>2
    <3>3. QED
      BY <3>1, <3>2
  <2> HIDE DEF Row
  <2>2. g = [n \in 0..N |-> Row(g, n)]
    BY <1>6, <2>1
  <2>3. QED
    BY <2>2
<1>8. below = [n \in 0..N |-> Row(below, n)]
  BY <1>7
<1>9. \A n \in Node : GetDescendants(relations, n) = below[N][n]
  BY DEF GetDescendants, N
<1> HIDE DEF below
<1>10. \A n \in 0..N : below[n] = Row(below, n)
  <2> HIDE DEF Row
  <2>1. QED
    BY ONLY <1>8
<1>11. below[0] = first /\ \A n \in 1..N : below[n] = Visit(below[n - 1])
  <2>1. 0 \in 0..N /\ \A n \in 1..N : n \in 0..N /\ n # 0
    BY <1>1
  <2>2. below[0] = first
    BY <1>10, <2>1
  <2>3. ASSUME NEW n \in 1..N PROVE below[n] = Visit(below[n - 1])
    <3>1. below[n] = Row(below, n) /\ n \in 0..N /\ n # 0
      BY <1>10, <2>1
    <3>2. QED
      BY <1>5, <3>1
  <2>4. QED
    BY <2>2, <2>3
<1>12. \A n \in 0..N : below[n] \in S
  <2> DEFINE M == {n \in Nat : n <= N => below[n] \in S}
  <2> HIDE DEF S, Visit, first
  <2>1. 0 \in M
    BY <1>2, <1>11
  <2>2. ASSUME NEW n \in Nat, n \in M PROVE n + 1 \in M
    <3>1. SUFFICES ASSUME n + 1 <= N PROVE below[n + 1] \in S
      OBVIOUS
    <3>2. below[n] \in S /\ n + 1 \in 1..N /\ (n + 1) - 1 = n
      BY <1>1, <2>2, <3>1
    <3>3. below[n + 1] = Visit(below[n])
      BY <1>11, <3>2
    <3>4. QED
      BY <1>3, <3>2, <3>3
  <2>3. Nat \subseteq M
    <3> HIDE DEF M
    <3>1. QED
      BY <2>1, <2>2, NatInduct
  <2>4. QED
    BY <1>1, <2>3
<1>13. below \in [0..N -> S]
  <2> HIDE DEF Row, S
  <2>1. QED
    BY <1>8, <1>12
<1>14. \A n \in 1..N, k \in Node : below[n][k] = Step(below[n - 1], k)
  <2> HIDE DEF Step
  <2> TAKE n \in 1..N, k \in Node
  <2>1. below[n] = Visit(below[n - 1]) /\ k \in Node
    BY <1>11
  <2>2. QED
    BY ONLY <2>1
<1>15. \A k \in Node : below[0][k] = {}
  BY <1>11
<1>16. QED
  BY <1>9, <1>13, <1>14, <1>15 DEF IsBelow

(* The table of the ancestors, by the length of the paths from them.       *)
IsAbove(relations, d) ==
  /\ d \in [0..N -> [Node -> SUBSET Node]]
  /\ \A k \in Node : d[0][k] = {}
  /\ \A n \in 1..N, k \in Node :
       d[n][k] = LET parent == GetParent(relations, k)
                 IN  IF parent = None THEN {} ELSE {parent} \union d[n - 1][parent]

(* GetAncestors is the last row of such a table.                           *)
LEMMA AncestorRows ==
  ASSUME NEW relations, NEW R, Listed(relations, R)
  PROVE  \E d : IsAbove(relations, d) /\ \A n \in Node : GetAncestors(relations, n) = d[N][n]
<1> DEFINE S == [Node -> SUBSET Node]
           first == [k \in Node |-> {}]
           Step(e, k) == LET parent == GetParent(relations, k)
                         IN  IF parent = None THEN {} ELSE {parent} \union e[parent]
           Visit(e) == [k \in Node |-> Step(e, k)]
           next == [n \in 1..N |-> [e \in S |-> Visit(e)]]
           Row(g, n) == [k \in Node |-> LET parent == GetParent(relations, k)
                IN  IF n = 0 \/ parent = None THEN {} ELSE {parent} \union g[n - 1][parent]]
           above[length \in 0..N] ==
             [k \in Node |-> LET parent == GetParent(relations, k)
                IN  IF length = 0 \/ parent = None THEN {} ELSE {parent} \union above[length - 1][parent]]
<1>1. N \in Nat
  BY NodeCount
<1>2. first \in S
  OBVIOUS
<1>3. ASSUME NEW e, e \in S PROVE Visit(e) \in S
  <2>1. \A k \in Node : Step(e, k) \in SUBSET Node
    BY <1>3, ParentFound
  <2> HIDE DEF Step
  <2>2. QED
    BY <2>1
<1>5. ASSUME NEW g, NEW n \in 0..N, n # 0 PROVE Row(g, n) = Visit(g[n - 1])
  BY <1>5
<1>6. PICK g \in [0..N -> S] : g[0] = first /\ \A n \in 1..N : g[n] = Visit(g[n - 1])
  <2>1. next \in [1..N -> [S -> S]]
    <3> HIDE DEF Visit, S
    <3>1. \A e \in S : Visit(e) \in S
      BY <1>3
    <3>2. QED
      BY <3>1
  <2>2. \E g \in [0..N -> S] : g[0] = first /\ \A n \in 1..N : g[n] = next[n][g[n - 1]]
    <3> HIDE DEF S, first, next, above
    <3>1. QED
      BY ONLY <1>1, <1>2, <2>1, RecursionExists
  <2>3. PICK g \in [0..N -> S] : g[0] = first /\ \A n \in 1..N : g[n] = next[n][g[n - 1]]
    BY <2>2
  <2>4. \A n \in 1..N : g[n] = Visit(g[n - 1])
    <3> TAKE n \in 1..N
    <3>1. n - 1 \in 0..N
      BY <1>1
    <3>2. g[n] = next[n][g[n - 1]] /\ g[n - 1] \in S
      BY <2>3, <3>1
    <3> HIDE DEF Visit, S
    <3>3. QED
      BY <3>2
  <2>5. QED
    BY <2>3, <2>4
<1>7. \E f : f = [n \in 0..N |-> Row(f, n)]
  <2>1. \A n \in 0..N : g[n] = Row(g, n)
    <3> TAKE n \in 0..N
    <3>1. CASE n = 0
      <4> HIDE DEF Visit
      <4>1. QED
        BY <1>6, <3>1
    <3>2. CASE n # 0
      <4>1. n \in 1..N
        BY <1>1, <3>2
      <4>2. g[n] = Visit(g[n - 1])
        BY <1>6, <4>1
      <4>3. QED
        BY <1>5, <3>2, <4>2
    <3>3. QED
      BY <3>1, <3>2
  <2> HIDE DEF Row
  <2>2. g = [n \in 0..N |-> Row(g, n)]
    BY <1>6, <2>1
  <2>3. QED
    BY <2>2
<1>8. above = [n \in 0..N |-> Row(above, n)]
  BY <1>7
<1>9. \A n \in Node : GetAncestors(relations, n) = above[N][n]
  BY DEF GetAncestors, N
<1> HIDE DEF above
<1>10. \A n \in 0..N : above[n] = Row(above, n)
  <2> HIDE DEF Row
  <2>1. QED
    BY ONLY <1>8
<1>11. above[0] = first /\ \A n \in 1..N : above[n] = Visit(above[n - 1])
  <2>1. 0 \in 0..N /\ \A n \in 1..N : n \in 0..N /\ n # 0
    BY <1>1
  <2>2. above[0] = first
    BY <1>10, <2>1
  <2>3. ASSUME NEW n \in 1..N PROVE above[n] = Visit(above[n - 1])
    <3>1. above[n] = Row(above, n) /\ n \in 0..N /\ n # 0
      BY <1>10, <2>1
    <3>2. QED
      BY <1>5, <3>1
  <2>4. QED
    BY <2>2, <2>3
<1>12. \A n \in 0..N : above[n] \in S
  <2> DEFINE M == {n \in Nat : n <= N => above[n] \in S}
  <2> HIDE DEF S, Visit, first
  <2>1. 0 \in M
    BY <1>2, <1>11
  <2>2. ASSUME NEW n \in Nat, n \in M PROVE n + 1 \in M
    <3>1. SUFFICES ASSUME n + 1 <= N PROVE above[n + 1] \in S
      OBVIOUS
    <3>2. above[n] \in S /\ n + 1 \in 1..N /\ (n + 1) - 1 = n
      BY <1>1, <2>2, <3>1
    <3>3. above[n + 1] = Visit(above[n])
      BY <1>11, <3>2
    <3>4. QED
      BY <1>3, <3>2, <3>3
  <2>3. Nat \subseteq M
    <3> HIDE DEF M
    <3>1. QED
      BY <2>1, <2>2, NatInduct
  <2>4. QED
    BY <1>1, <2>3
<1>13. above \in [0..N -> S]
  <2> HIDE DEF Row, S
  <2>1. QED
    BY <1>8, <1>12
<1>14. \A n \in 1..N, k \in Node : above[n][k] = Step(above[n - 1], k)
  <2> HIDE DEF Step
  <2> TAKE n \in 1..N, k \in Node
  <2>1. above[n] = Visit(above[n - 1]) /\ k \in Node
    BY <1>11
  <2>2. QED
    BY ONLY <2>1
<1>15. \A k \in Node : above[0][k] = {}
  BY <1>11
<1>16. QED
  BY <1>9, <1>13, <1>14, <1>15 DEF IsAbove

(* W[d] has the nodes that a path of d steps leads on from.                *)
IsPaths(R, W) ==
  /\ W \in [0..N -> SUBSET Node]
  /\ W[0] = Node
  /\ \A d \in 1..N : W[d] = {k \in Node : Kids(R, k) \intersect W[d - 1] # {}}
  /\ W[N] = {}

(* Paths that follow the relations end, for there is no circle.            *)
LEMMA PathsEnd ==
  ASSUME NEW R, R \in SUBSET NodeRelation, Acyclic(R)
  PROVE  \E W : IsPaths(R, W)
<1> DEFINE S == SUBSET Node
           Higher(w) == {k \in Node : Kids(R, k) \intersect w # {}}
           first == Node
           next == [d \in 1..N |-> [w \in S |-> Higher(w)]]
<1>1. N \in Nat /\ IsFiniteSet(Node) /\ first \in S
  BY NodeCount
<1>2. PICK W \in [0..N -> S] : W[0] = Node /\ \A d \in 1..N : W[d] = Higher(W[d - 1])
  <2>1. next \in [1..N -> [S -> S]]
    OBVIOUS
  <2>2. \E W \in [0..N -> S] : W[0] = first /\ \A d \in 1..N : W[d] = next[d][W[d - 1]]
    <3>1. N \in Nat /\ first \in S
      BY <1>1
    <3> HIDE DEF S, next, first, Higher
    <3>2. QED
      BY ONLY <3>1, <2>1, RecursionExists
  <2>3. PICK W \in [0..N -> S] : W[0] = Node /\ \A d \in 1..N : W[d] = next[d][W[d - 1]]
    BY <2>2
  <2>4. \A d \in 1..N : W[d] = Higher(W[d - 1])
    <3> TAKE d \in 1..N
    <3>1. d - 1 \in 0..N
      BY <1>1
    <3>2. W[d] = next[d][W[d - 1]] /\ W[d - 1] \in S
      BY <2>3, <3>1
    <3> HIDE DEF Higher, S
    <3>3. QED
      BY <3>2
  <2>5. QED
    BY <2>3, <2>4
<1>3. ASSUME NEW w \in S, w # {} PROVE ~ (w \subseteq Higher(w))
  <2>1. PICK n \in w : \A r \in R : r.parent = n => r.children \intersect w = {}
    BY <1>3 DEF Acyclic
  <2>2. Kids(R, n) \intersect w = {}
    BY <2>1 DEF Kids
  <2>3. QED
    BY <2>2
<1>4. ASSUME NEW v \in S, NEW w \in S, v \subseteq w PROVE Higher(v) \subseteq Higher(w)
  BY <1>4
<1> DEFINE Good(d) == /\ Higher(W[d]) \subseteq W[d]
                      /\ Cardinality(W[d]) \in Nat
                      /\ Cardinality(W[d]) <= N - d
           M == {d \in Nat : d <= N => Good(d)}
<1>5. 0 \in M
  <2>1. Higher(W[0]) \subseteq W[0]
    BY <1>2
  <2>2. Cardinality(W[0]) = N
    BY <1>2 DEF N
  <2> HIDE DEF Higher
  <2>3. QED
    BY <1>1, <2>1, <2>2
<1>6. ASSUME NEW d \in Nat, d \in M PROVE d + 1 \in M
  <2>1. SUFFICES ASSUME d + 1 <= N PROVE Good(d + 1)
    OBVIOUS
  <2>2. d + 1 \in 1..N /\ (d + 1) - 1 = d /\ d \in 0..N /\ d + 1 \in 0..N /\ d <= N
    BY <1>1, <2>1
  <2>3. W[d + 1] = Higher(W[d]) /\ Good(d) /\ W[d] \in S /\ W[d + 1] \in S
    BY <1>2, <1>6, <2>2
  <2> HIDE DEF Higher
  <2>4. W[d + 1] \subseteq W[d]
    BY <2>3
  <2>5. Higher(W[d + 1]) \subseteq W[d + 1]
    BY <1>4, <2>3, <2>4
  <2>6. IsFiniteSet(W[d])
    BY <1>1, <2>3, FS_Subset
  <2>7. CASE W[d] = {}
    <3>1. W[d + 1] = {}
      BY <2>4, <2>7
    <3>2. Cardinality(W[d + 1]) = 0
      BY <3>1, FS_EmptySet
    <3>3. QED
      BY <1>1, <2>1, <2>5, <3>2
  <2>8. CASE W[d] # {}
    <3>1. W[d + 1] # W[d]
      BY <1>3, <2>3, <2>8
    <3> DEFINE A == W[d]
               B == W[d + 1]
    <3>5. B \in SUBSET A /\ IsFiniteSet(A) /\ B # A
      BY <2>4, <2>6, <3>1
    <3> HIDE DEF A, B
    <3>6. Cardinality(B) < Cardinality(A) /\ IsFiniteSet(B)
      BY <3>5, FS_Subset, FS_CardinalityType
    <3>2. Cardinality(W[d + 1]) < Cardinality(W[d]) /\ IsFiniteSet(W[d + 1])
      BY <3>6 DEF A, B
    <3>3. Cardinality(W[d + 1]) \in Nat
      BY <3>2, FS_CardinalityType
    <3>4. QED
      BY <1>1, <2>3, <2>5, <3>2, <3>3
  <2>9. QED
    BY <2>7, <2>8
<1>7. W[N] = {}
  <2>1. N \in M
    <3> HIDE DEF M
    <3>1. QED
      BY <1>1, <1>5, <1>6, NatInduct
  <2>2. Cardinality(W[N]) = 0
    <3> HIDE DEF Higher
    <3>1. QED
      BY <1>1, <2>1
  <2>3. IsFiniteSet(W[N])
    BY <1>1, <1>2, FS_Subset
  <2>4. QED
    BY <2>2, <2>3, FS_EmptySet
<1>8. QED
  BY <1>2, <1>7 DEF IsPaths

(* What the table of descendants has leads on only to what it has.         *)
LEMMA DescendantsAreClosed ==
  ASSUME NEW R \in SUBSET NodeRelation, Acyclic(R), NEW relations, Listed(relations, R),
         NEW n \in Node, NEW x \in GetDescendants(relations, n) \union {n}
  PROVE  /\ GetDescendants(relations, n) \in SUBSET Node
         /\ Kids(R, x) \subseteq GetDescendants(relations, n)
<1>1. PICK b : IsBelow(relations, b) /\ \A k \in Node : GetDescendants(relations, k) = b[N][k]
  BY DescendantRows
<1>2. /\ b \in [0..N -> [Node -> SUBSET Node]]
      /\ \A k \in Node : b[0][k] = {}
      /\ \A d \in 1..N, k \in Node :
           b[d][k] = Kids(R, k) \union UNION {b[d - 1][c] : c \in Kids(R, k)}
  BY <1>1, ChildrenFound DEF IsBelow
<1>3. PICK W \in [0..N -> SUBSET Node] :
        /\ W[0] = Node
        /\ \A d \in 1..N : W[d] = {k \in Node : Kids(R, k) \intersect W[d - 1] # {}}
        /\ W[N] = {}
  <2>1. R \in SUBSET NodeRelation /\ Acyclic(R)
    OBVIOUS
  <2>2. PICK W : IsPaths(R, W)
    BY <2>1, PathsEnd
  <2>3. QED
    BY <2>2 DEF IsPaths
<1>4. N \in Nat /\ N # 0
  <2>1. N \in Nat /\ IsFiniteSet(Node)
    BY NodeCount
  <2>2. Node # {}
    OBVIOUS
  <2>3. QED
    BY <2>1, <2>2, FS_EmptySet DEF N
<1>5. \A k \in Node : Kids(R, k) \in SUBSET Node
  BY ChildrenFound
<1> DEFINE Stable(d) == \A k \in Node \ W[d] : b[d - 1][k] = b[d][k]
           M == {d \in Nat : d + 1 <= N => Stable(d + 1)}
<1>6. 0 \in M
  <2>1. 1 \in 1..N /\ 1 - 1 = 0
    BY <1>4
  <2>2. ASSUME NEW k \in Node \ W[1] PROVE b[0][k] = b[1][k]
    <3>1. Kids(R, k) \intersect Node = {}
      BY <1>3, <2>1
    <3>2. Kids(R, k) = {}
      BY <1>5, <3>1
    <3>3. b[1][k] = Kids(R, k) \union UNION {b[1 - 1][c] : c \in Kids(R, k)}
      BY <1>2, <2>1
    <3>4. b[1][k] = {}
      BY <3>2, <3>3
    <3>5. QED
      BY <1>2, <3>4
  <2>3. QED
    BY <2>1, <2>2
<1>7. ASSUME NEW d \in Nat, d \in M PROVE d + 1 \in M
  <2>1. SUFFICES ASSUME (d + 1) + 1 <= N, NEW k \in Node \ W[d + 2] PROVE b[d + 1][k] = b[d + 2][k]
    OBVIOUS
  <2>2. /\ d + 1 \in 1..N /\ d + 2 \in 1..N /\ (d + 1) - 1 = d /\ (d + 2) - 1 = d + 1
        /\ d + 1 <= N
    BY <1>4, <2>1
  <2>3. \A c \in Kids(R, k) : c \in Node /\ c \notin W[d + 1]
    BY <1>3, <1>5, <2>2
  <2>4. \A c \in Kids(R, k) : b[d][c] = b[d + 1][c]
    BY <1>7, <2>2, <2>3
  <2>5. UNION {b[d][c] : c \in Kids(R, k)} = UNION {b[d + 1][c] : c \in Kids(R, k)}
    BY <2>4
  <2>6. /\ b[d + 1][k] = Kids(R, k) \union UNION {b[d][c] : c \in Kids(R, k)}
        /\ b[d + 2][k] = Kids(R, k) \union UNION {b[d + 1][c] : c \in Kids(R, k)}
    BY <1>2, <2>2
  <2>7. QED
    BY <2>5, <2>6
<1>8. \A k \in Node : b[N - 1][k] = b[N][k]
  <2>1. N - 1 \in M
    <3>1. N - 1 \in Nat
      BY <1>4
    <3> HIDE DEF M
    <3>2. QED
      BY <1>6, <1>7, <3>1, NatInduct
  <2>2. Stable(N)
    BY <1>4, <2>1
  <2>3. QED
    BY <1>3, <2>2
<1> DEFINE D == [k \in Node |-> b[N][k]]
<1>9. \A k \in Node : Kids(R, k) \subseteq D[k] /\ \A c \in Kids(R, k) : D[c] \subseteq D[k]
  <2> TAKE k \in Node
  <2>1. b[N][k] = Kids(R, k) \union UNION {b[N - 1][c] : c \in Kids(R, k)}
    BY <1>2, <1>4
  <2>2. \A c \in Kids(R, k) : c \in Node /\ b[N - 1][c] = D[c]
    BY <1>5, <1>8
  <2>3. QED
    BY <2>1, <2>2
<1> HIDE DEF D
<1> DEFINE Closed(d) == \A k \in Node : \A y \in b[d][k] : Kids(R, y) \subseteq D[k]
           K == {d \in Nat : d <= N => Closed(d)}
<1>10. 0 \in K
  BY <1>2
<1>11. ASSUME NEW d \in Nat, d \in K PROVE d + 1 \in K
  <2>1. SUFFICES ASSUME d + 1 <= N, NEW k \in Node, NEW y \in b[d + 1][k] PROVE Kids(R, y) \subseteq D[k]
    OBVIOUS
  <2>2. d + 1 \in 1..N /\ (d + 1) - 1 = d /\ d <= N
    BY <1>4, <2>1
  <2>3. y \in Kids(R, k) \union UNION {b[d][c] : c \in Kids(R, k)}
    BY <1>2, <2>1, <2>2
  <2>4. CASE y \in Kids(R, k)
    BY <1>5, <1>9, <2>4
  <2>5. CASE y \notin Kids(R, k)
    <3>1. PICK c \in Kids(R, k) : y \in b[d][c]
      BY <2>3, <2>5
    <3>2. c \in Node
      BY <1>5
    <3>3. Kids(R, y) \subseteq D[c]
      BY <1>11, <2>2, <3>1, <3>2
    <3>4. QED
      BY <1>9, <3>3
  <2>6. QED
    BY <2>4, <2>5
<1>12. Closed(N)
  <2>1. N \in K
    <3> HIDE DEF K
    <3>1. QED
      BY <1>4, <1>10, <1>11, NatInduct
  <2>2. QED
    BY <1>4, <2>1
<1>13. GetDescendants(relations, n) = D[n] /\ D[n] = b[N][n]
  BY <1>1 DEF D
<1>14. b[N][n] \in SUBSET Node
  BY <1>2, <1>4
<1>15. QED
  BY <1>9, <1>12, <1>13, <1>14

(* What a node is reached from is what the nodes below it are reached from *)
(* too, where nodes have one parent at most.                               *)
LEMMA AncestorsReach ==
  ASSUME NEW R \in SUBSET NodeRelation, Acyclic(R), NEW relations, Listed(relations, R), Forest(R),
         NEW x \in Node, NEW y \in Kids(R, x)
  PROVE  /\ x \in GetAncestors(relations, y)
         /\ GetAncestors(relations, x) \subseteq GetAncestors(relations, y)
<1>1. PICK a : IsAbove(relations, a) /\ \A k \in Node : GetAncestors(relations, k) = a[N][k]
  BY AncestorRows
<1>2. PICK W \in [0..N -> SUBSET Node] :
        /\ W[0] = Node
        /\ \A d \in 1..N : W[d] = {k \in Node : Kids(R, k) \intersect W[d - 1] # {}}
        /\ W[N] = {}
  <2>1. R \in SUBSET NodeRelation /\ Acyclic(R)
    OBVIOUS
  <2>2. PICK W : IsPaths(R, W)
    BY <2>1, PathsEnd
  <2>3. QED
    BY <2>2 DEF IsPaths
<1>3. N \in Nat /\ N # 0
  <2>1. N \in Nat /\ IsFiniteSet(Node)
    BY NodeCount
  <2>2. Node # {}
    OBVIOUS
  <2>3. QED
    BY <2>1, <2>2, FS_EmptySet DEF N
<1> DEFINE up == [k \in Node |-> GetParent(relations, k)]
<1>4. \A k \in Node : up[k] # None => up[k] \in Node /\ k \in Kids(R, up[k])
  <2> TAKE k \in Node
  <2> HAVE up[k] # None
  <2>1. PICK r \in R : k \in r.children /\ r.parent = up[k]
    BY ParentFound
  <2>2. r.parent \in Node
    BY DEF NodeRelation
  <2>3. QED
    BY <2>1, <2>2 DEF Kids
<1>5. \A d \in 1..N : \A k \in Node :
        a[d][k] = IF up[k] = None THEN {} ELSE {up[k]} \union a[d - 1][up[k]]
  BY <1>1 DEF IsAbove
<1>6. y \in Node /\ up[y] = x /\ x # None
  <2>1. PICK r \in R : r.parent = x /\ y \in r.children
    BY DEF Kids
  <2>2. y \in Node
    BY <2>1 DEF NodeRelation
  <2>3. up[y] # None
    BY <2>1, <2>2, ParentFound
  <2>4. PICK s \in R : y \in s.children /\ s.parent = up[y]
    BY <2>2, <2>3, ParentFound
  <2>5. r = s
    BY <2>1, <2>4 DEF Forest
  <2>6. QED
    BY <2>1, <2>2, <2>4, <2>5, ConfigAssumption
<1> HIDE DEF up
(* A node that a path of N - e steps leads down from has no more than e    *)
(* nodes above it.                                                         *)
<1> DEFINE Stable(e) == \A k \in W[N - e] : a[e][k] = a[e + 1][k]
           M == {e \in Nat : e + 1 <= N => Stable(e)}
<1>7. 0 \in M
  BY <1>2, <1>3
<1>8. ASSUME NEW e \in Nat, e \in M PROVE e + 1 \in M
  <2>1. SUFFICES ASSUME (e + 1) + 1 <= N, NEW k \in W[N - (e + 1)] PROVE a[e + 1][k] = a[e + 2][k]
    OBVIOUS
  <2>2. /\ e + 1 \in 1..N /\ e + 2 \in 1..N /\ (e + 1) - 1 = e /\ (e + 2) - 1 = e + 1
        /\ e + 1 <= N /\ N - e \in 1..N /\ (N - e) - 1 = N - (e + 1) /\ N - (e + 1) \in 0..N
    BY <1>3, <2>1
  <2>3. k \in Node
    BY <1>2, <2>1, <2>2
  <2>4. /\ a[e + 1][k] = IF up[k] = None THEN {} ELSE {up[k]} \union a[e][up[k]]
        /\ a[e + 2][k] = IF up[k] = None THEN {} ELSE {up[k]} \union a[e + 1][up[k]]
    <3>1. /\ a[e + 1][k] = IF up[k] = None THEN {} ELSE {up[k]} \union a[(e + 1) - 1][up[k]]
          /\ a[e + 2][k] = IF up[k] = None THEN {} ELSE {up[k]} \union a[(e + 2) - 1][up[k]]
      BY ONLY <1>5, <2>2, <2>3
    <3>2. QED
      BY <2>2, <3>1
  <2>5. up[k] # None => a[e][up[k]] = a[e + 1][up[k]]
    <3> HAVE up[k] # None
    <3>1. up[k] \in Node /\ k \in Kids(R, up[k])
      BY <1>4, <2>3
    <3>2. up[k] \in W[N - e]
      BY <1>2, <2>1, <2>2, <3>1
    <3>3. QED
      BY <1>8, <2>2, <3>2
  <2>6. QED
    BY <2>4, <2>5
<1>9. a[N - 1][x] = a[N][x]
  <2>1. N - 1 \in M
    <3>1. N - 1 \in Nat
      BY <1>3
    <3> HIDE DEF M
    <3>2. QED
      BY <1>7, <1>8, <3>1, NatInduct
  <2>2. N - (N - 1) = 1 /\ 1 \in 1..N /\ 1 - 1 = 0 /\ (N - 1) + 1 = N
    BY <1>3
  <2>3. x \in W[1]
    BY <1>2, <1>6, <2>2
  <2>4. QED
    BY <2>1, <2>2, <2>3
<1>10. a[N][y] = {x} \union a[N - 1][x]
  <2>1. N \in 1..N
    BY <1>3
  <2>2. a[N][y] = IF up[y] = None THEN {} ELSE {up[y]} \union a[N - 1][up[y]]
    BY ONLY <1>5, <1>6, <2>1
  <2>3. QED
    BY <1>6, <2>2
<1>11. QED
  BY <1>1, <1>6, <1>9, <1>10

(* A set of nodes that has the children of s, and those of each it has,    *)
(* has all that is below s.                                                *)
LEMMA BelowIsLeast ==
  ASSUME NEW R, NEW s, NEW t \in Below(R, s), NEW S \in SUBSET Node, Kids(R, s) \subseteq S,
         \A k \in S : Kids(R, k) \subseteq S
  PROVE  t \in S
BY DEF Below, Kids

(* No more is found below a node than there is.                            *)
LEMMA DescendantsAreBelow ==
  ASSUME NEW R, NEW relations, Listed(relations, R), NEW n \in Node, NEW S \in SUBSET Node,
         Kids(R, n) \subseteq S, \A k \in S : Kids(R, k) \subseteq S
  PROVE  GetDescendants(relations, n) \subseteq S
<1>1. PICK b : IsBelow(relations, b) /\ \A k \in Node : GetDescendants(relations, k) = b[N][k]
  BY DescendantRows
<1>2. /\ \A k \in Node : b[0][k] = {}
      /\ \A d \in 1..N, k \in Node :
           b[d][k] = Kids(R, k) \union UNION {b[d - 1][c] : c \in Kids(R, k)}
  BY <1>1, ChildrenFound DEF IsBelow
<1> DEFINE Good(d) == \A k \in Node : Kids(R, k) \subseteq S => b[d][k] \subseteq S
           M == {d \in Nat : d <= N => Good(d)}
<1>3. 0 \in M
  BY <1>2
<1>4. ASSUME NEW d \in Nat, d \in M PROVE d + 1 \in M
  <2>1. SUFFICES ASSUME d + 1 <= N, NEW k \in Node, Kids(R, k) \subseteq S PROVE b[d + 1][k] \subseteq S
    OBVIOUS
  <2>2. d + 1 \in 1..N /\ (d + 1) - 1 = d /\ d <= N
    BY <2>1, NodeCount
  <2>3. b[d + 1][k] = Kids(R, k) \union UNION {b[d][c] : c \in Kids(R, k)}
    BY <1>2, <2>2
  <2>4. \A c \in Kids(R, k) : b[d][c] \subseteq S
    BY <1>4, <2>1, <2>2
  <2>5. QED
    BY <2>1, <2>3, <2>4
<1>5. Good(N)
  <2>1. N \in M
    <3> HIDE DEF M
    <3>1. QED
      BY <1>3, <1>4, NatInduct, NodeCount
  <2>2. QED
    BY <2>1, NodeCount
<1>6. QED
  BY <1>1, <1>5

(* The child on the path is one from which the target is found.            *)
LEMMA ChildInPath ==
  ASSUME NEW R, NEW relations, Listed(relations, R), NEW s, NEW t
  PROVE  LET child == FindDirectChildInPath(relations, s, t) IN
         /\ child # None => child \in Kids(R, s) /\ t \in {child} \union GetDescendants(relations, child)
         /\ (\E c \in Kids(R, s) : t \in {c} \union GetDescendants(relations, c)) => child # None
<1> DEFINE kids == Kids(R, s)
           Reaches(c) == t \in {c} \union GetDescendants(relations, c)
           Fits(child) == IF \E c \in kids : Reaches(c) THEN child # None /\ Reaches(child)
                          ELSE child = None
<1>1. FindDirectChildInPath(relations, s, t) = CHOOSE child \in kids \union {None} : Fits(child)
  BY ChildrenFound DEF FindDirectChildInPath
<1>2. None \notin kids
  BY ChildrenFound, ConfigAssumption
<1>3. \E child \in kids \union {None} : Fits(child)
  <2> HIDE DEF kids, Reaches
  <2>1. CASE \E c \in kids : Reaches(c)
    BY <1>2, <2>1
  <2>2. CASE ~ \E c \in kids : Reaches(c)
    BY <2>2
  <2>3. QED
    BY <2>1, <2>2
<1> DEFINE child == FindDirectChildInPath(relations, s, t)
<1>4. child \in kids \union {None} /\ Fits(child)
  <2> HIDE DEF kids, Fits
  <2>1. QED
    BY <1>1, <1>3
<1>5. /\ child # None => child \in kids /\ Reaches(child)
      /\ (\E c \in kids : Reaches(c)) => child # None
  <2> HIDE DEF child, kids, Reaches
  <2>1. QED
    BY <1>4
<1>6. QED
  BY <1>5

(* What is below a node of it is below it: below s are its children, and   *)
(* all that is found below them.                                           *)
LEMMA FoundIsBelow ==
  ASSUME NEW R \in SUBSET NodeRelation, NEW relations, Listed(relations, R),
         NEW s \in Node, NEW c \in Kids(R, s), NEW t \in {c} \union GetDescendants(relations, c)
  PROVE  t \in Below(R, s)
<1>1. c \in Node
  BY ChildrenFound
<1>2. ASSUME NEW S \in SUBSET Node, Kids(R, s) \subseteq S, \A k \in S : Kids(R, k) \subseteq S
      PROVE  t \in S
  <2>1. c \in S
    BY <1>2
  <2>2. Kids(R, c) \subseteq S
    BY <1>2, <2>1
  <2>3. GetDescendants(relations, c) \subseteq S
    BY <1>1, <1>2, <2>2, DescendantsAreBelow
  <2>4. QED
    BY <2>1, <2>3
<1>3. Kids(R, s) \subseteq Node /\ \A k \in Node : Kids(R, k) \subseteq Node
  BY ChildrenFound
<1>4. t \in Node
  BY <1>2, <1>3
<1>5. QED
  BY <1>2, <1>4 DEF Below, Kids

(* All that is below a node is found from one of its children.             *)
LEMMA BelowIsFound ==
  ASSUME NEW R \in SUBSET NodeRelation, Acyclic(R), NEW relations, Listed(relations, R),
         NEW s \in Node, NEW t \in Below(R, s)
  PROVE  \E c \in Kids(R, s) : t \in {c} \union GetDescendants(relations, c)
<1> DEFINE S == {x \in Node : \E c \in Kids(R, s) : x \in {c} \union GetDescendants(relations, c)}
<1>1. Kids(R, s) \subseteq S
  BY ChildrenFound
<1>2. ASSUME NEW k \in S PROVE Kids(R, k) \subseteq S
  <2>1. PICK c \in Kids(R, s) : k \in GetDescendants(relations, c) \union {c}
    OBVIOUS
  <2>2. c \in Node
    BY ChildrenFound
  <2>3. Kids(R, k) \subseteq GetDescendants(relations, c) /\ Kids(R, k) \subseteq Node
    BY <2>1, <2>2, DescendantsAreClosed, ChildrenFound
  <2>4. QED
    BY <2>1, <2>3
<1>3. S \in SUBSET Node
  OBVIOUS
<1>4. t \in S
  <2> HIDE DEF S
  <2>1. QED
    BY <1>1, <1>2, <1>3, BelowIsLeast
<1>5. QED
  BY <1>4

(* A node is among the ancestors of all that is below it.                  *)
LEMMA BelowHasAncestor ==
  ASSUME NEW R \in SUBSET NodeRelation, Acyclic(R), NEW relations, Listed(relations, R), Forest(R),
         NEW s \in Node, NEW t \in Below(R, s)
  PROVE  s \in GetAncestors(relations, t)
<1> DEFINE S == {x \in Node : s \in GetAncestors(relations, x)}
<1>1. \A k \in Node : Kids(R, k) \subseteq Node
  BY ChildrenFound
<1>2. Kids(R, s) \subseteq S
  BY <1>1, AncestorsReach
<1>3. \A k \in S : Kids(R, k) \subseteq S
  BY <1>1, AncestorsReach
<1>4. S \in SUBSET Node
  OBVIOUS
<1>5. t \in S
  <2> HIDE DEF S
  <2>1. QED
    BY <1>2, <1>3, <1>4, BelowIsLeast
<1>6. QED
  BY <1>5

(* A permission to control or to delegate is one that the relations grant, *)
(* and where nodes have one parent at most every such grant is permitted.  *)
THEOREM PermissionsAreExact ==
  ASSUME NEW R \in SUBSET NodeRelation, Acyclic(R), NEW relations, Listed(relations, R), NEW ids,
         NEW s \in Node, NEW t \in Node, NEW action, action # "message"
  PROVE  /\ CheckPermission(relations, ids, s, t, action) => Granted(R, s, t, action)
         /\ Forest(R) /\ Granted(R, s, t, action) => CheckPermission(relations, ids, s, t, action)
<1> DEFINE mode  == GetRelationMode(relations, s, t)
           child == FindDirectChildInPath(relations, s, t)
           far   == GetRelationMode(relations, s, child)
<1>1. CheckPermission(relations, ids, s, t, action) <=>
        \/ s = t
        \/ mode # None /\ Covers(mode, action)
        \/ /\ mode = None /\ s # t
           /\ s \in GetAncestors(relations, t) /\ child # None /\ Covers(far, action)
  <2>1. CASE s = t
    BY <2>1 DEF CheckPermission
  <2>2. CASE s # t /\ mode # None
    BY <2>2 DEF CheckPermission
  <2>3. CASE s # t /\ mode = None
    BY <2>3 DEF CheckPermission
  <2>4. QED
    BY <2>1, <2>2, <2>3
<1>2. /\ mode = None => \A r \in R : r.parent = s => t \notin r.children
      /\ mode # None => \E r \in R : r.parent = s /\ t \in r.children /\ r.mode = mode
  BY ModeFound
<1>3. /\ far = None => \A r \in R : r.parent = s => child \notin r.children
      /\ far # None => \E r \in R : r.parent = s /\ child \in r.children /\ r.mode = far
  <2> HIDE DEF child
  <2>1. QED
    BY ModeFound
<1>4. /\ child # None => child \in Kids(R, s) /\ t \in {child} \union GetDescendants(relations, child)
      /\ (\E c \in Kids(R, s) : t \in {c} \union GetDescendants(relations, c)) => child # None
  BY ChildInPath
<1>5. \A r \in R : r.parent = s => r.children \subseteq Kids(R, s)
  BY DEF Kids
<1>6. \A r, q \in R : r.parent = q.parent => r = q
  BY DEF Listed
<1> HIDE DEF mode, child, far
<1>7. ASSUME CheckPermission(relations, ids, s, t, action) PROVE Granted(R, s, t, action)
  <2>1. CASE s = t
    BY <2>1 DEF Granted
  <2>2. CASE mode # None /\ Covers(mode, action)
    <3>1. PICK r \in R : r.parent = s /\ t \in r.children /\ r.mode = mode
      BY <1>2, <2>2
    <3>2. t \in Below(R, s)
      BY <1>5, <3>1, FoundIsBelow
    <3>3. QED
      BY <2>2, <3>1, <3>2 DEF Granted
  <2>3. CASE child # None /\ Covers(far, action)
    <3>1. child \in Kids(R, s) /\ t \in {child} \union GetDescendants(relations, child)
      BY <1>4, <2>3
    <3>2. t \in Below(R, s)
      BY <3>1, FoundIsBelow
    <3>3. PICK r \in R : r.parent = s /\ child \in r.children
      BY <3>1 DEF Kids
    <3>4. far # None
      BY <1>3, <3>3
    <3>5. PICK q \in R : q.parent = s /\ q.mode = far
      BY <1>3, <3>4
    <3>6. QED
      BY <2>3, <3>2, <3>5 DEF Granted
  <2>4. QED
    BY <1>1, <1>7, <2>1, <2>2, <2>3
<1>8. ASSUME Forest(R), Granted(R, s, t, action)
      PROVE  CheckPermission(relations, ids, s, t, action)
  <2>1. CASE s = t
    BY <1>1, <2>1
  <2>2. CASE s # t
    <3>1. PICK r \in R : r.parent = s /\ Covers(r.mode, action) /\ t \in Below(R, s)
      BY <1>8, <2>2 DEF Granted
    <3>2. CASE mode # None
      <4>1. PICK q \in R : q.parent = s /\ q.mode = mode
        BY <1>2, <3>2
      <4>2. q = r
        BY <1>6, <3>1, <4>1
      <4>3. QED
        BY <1>1, <3>1, <3>2, <4>1, <4>2
    <3>3. CASE mode = None
      <4>1. \E c \in Kids(R, s) : t \in {c} \union GetDescendants(relations, c)
        BY <3>1, BelowIsFound
      <4>2. child # None /\ child \in Kids(R, s)
        BY <1>4, <4>1
      <4>3. PICK q \in R : q.parent = s /\ child \in q.children
        BY <4>2 DEF Kids
      <4>4. far # None
        BY <1>3, <4>3
      <4>5. PICK p \in R : p.parent = s /\ p.mode = far
        BY <1>3, <4>4
      <4>6. p = r
        BY <1>6, <3>1, <4>5
      <4>7. s \in GetAncestors(relations, t)
        BY <1>8, <3>1, BelowHasAncestor
      <4>8. QED
        BY <1>1, <2>2, <3>1, <3>3, <4>2, <4>5, <4>6, <4>7
    <3>4. QED
      BY <3>2, <3>3
  <2>3. QED
    BY <2>1, <2>2
<1>9. QED
  BY <1>7, <1>8

-----------------------------------------------------------------------------
(***************************************************************************)
(* What that says of the file and of the commands.                         *)
(***************************************************************************)

(* The depth-first search finds a cycle exactly where there is one, in     *)
(* every configuration a command wants to save and every order of its      *)
(* relations.                                                              *)
THEOREM CycleCheckIsExact == FileSpec => []CycleCheckExact
<1>1. ASSUME FileTypeOK PROVE CycleCheckExact
  <2>1. SUFFICES ASSUME NEW p \in Command,
                        NEW relations \in SetToSeqs(command[p].new.relations)
                 PROVE  HasCircularDependency(relations) <=> ~ Acyclic(command[p].new.relations)
    BY DEF CycleCheckExact
  <2> DEFINE R == command[p].new.relations
  <2>2. command[p].new \in ClawverseConfig
    BY <1>1 DEF FileTypeOK
  <2>3. R \in SUBSET NodeRelation /\ \A r, s \in R : r.parent = s.parent => r = s
    BY <2>2 DEF ClawverseConfig
  <2> HIDE DEF R
  <2>4. Listed(relations, R)
    BY <2>1, <2>3, OrderIsListed DEF R
  <2>5. relations \in Seq(NodeRelation) /\ Range(relations) = R
    BY <2>4 DEF Listed
  <2>6. HasCircularDependency(relations) <=> ~ Acyclic(R)
    BY <2>5, CycleSearchIsExact
  <2>7. QED
    BY <2>6 DEF R
<1>2. QED
  BY <1>1, FileTypeCorrect, PTL

(* What a saved configuration permits to control or to delegate is what    *)
(* its relations grant, and where nodes have one parent at most all of it. *)
THEOREM PermissionsFollowRelations == FileSpec => []PermissionsGranted
<1>1. ASSUME FileTypeOK, FileSound PROVE PermissionsGranted
  <2>1. SUFFICES ASSUME file.state = "ok",
                        NEW relations \in SetToSeqs(file.config.relations),
                        NEW s \in Node, NEW t \in Node, NEW action \in Action \ {"message"}
                 PROVE  LET allowed == CheckPermission(relations, file.config.nodes, s, t, action)
                            granted == Granted(file.config.relations, s, t, action)
                        IN  /\ allowed => granted
                            /\ Forest(file.config.relations) /\ granted => allowed
    BY DEF PermissionsGranted
  <2> DEFINE R == file.config.relations
  <2>2. file.config \in ClawverseConfig /\ validateConfig(file.config)
    BY <1>1, <2>1 DEF FileTypeOK, FileSound
  <2>3. R \in SUBSET NodeRelation /\ \A r, q \in R : r.parent = q.parent => r = q
    BY <2>2 DEF ClawverseConfig
  <2>4. Acyclic(R)
    BY <2>2 DEF validateConfig
  <2> HIDE DEF R
  <2>5. Listed(relations, R)
    BY <2>1, <2>3, OrderIsListed DEF R
  <2>6. action # "message"
    BY <2>1
  <2>7. LET allowed == CheckPermission(relations, file.config.nodes, s, t, action)
        IN  /\ allowed => Granted(R, s, t, action)
            /\ Forest(R) /\ Granted(R, s, t, action) => allowed
    BY <2>3, <2>4, <2>5, <2>6, PermissionsAreExact
  <2>8. QED
    BY <2>7 DEF R
<1>2. QED
  BY <1>1, FileTypeCorrect, FileIsSound, PTL

-----------------
(***************************************************************************)
(* The daemon's reloads.                                                   *)
(***************************************************************************)

(* A reload that is on its own: the nodes it has still to register are     *)
(* just those the registry lacks.                                          *)
OnItsOwn ==
  starter.pc # "off" /\ ~ overlap =>
    /\ registered \subseteq config.nodes
    /\ \A g, h \in Handler :
         handler[g].pc = "awaiting" /\ handler[h].pc = "awaiting" => g = h
    /\ \A h \in Handler :
         handler[h].pc = "awaiting" =>
           /\ Enabled(config) \subseteq registered \union handler[h].todo
           /\ handler[h].todo \subseteq config.nodes \ registered
    /\ (\A h \in Handler : handler[h].pc # "awaiting") => Enabled(config) \subseteq registered

OffIsQuiet == starter.pc = "off" => \A h \in Handler : handler[h].pc # "awaiting"

Inv == FileInv /\ TypeOK /\ OffIsQuiet /\ OnItsOwn /\ EveryNodeDialed

LEMMA InitInv == Init => Inv
<1>1. ASSUME Init PROVE FileInv /\ FileTypeOK
  BY <1>1, FileInitInv DEF Init, FileInv
<1>2. ASSUME Init PROVE TypeOK
  BY <1>1, <1>2, DefaultIsValid DEF Init, DaemonInit, TypeOK, NoReload, Off, Idle
<1>3. ASSUME Init PROVE OffIsQuiet /\ OnItsOwn /\ EveryNodeDialed
  BY <1>3 DEF Init, DaemonInit, OffIsQuiet, OnItsOwn, EveryNodeDialed, NoReload, Off, Idle
<1>4. QED
  BY <1>1, <1>2, <1>3 DEF Inv

LEMMA CommandStep ==
  ASSUME Inv, FileNext, UNCHANGED daemonVars
  PROVE  Inv'
<1>1. FileInv' /\ FileTypeOK'
  BY FileNextInv DEF Inv, FileInv
<1>2. QED
  BY <1>1 DEF Inv, TypeOK, OffIsQuiet, OnItsOwn, EveryNodeDialed, daemonVars

(* The file as daemon steps find it.                                       *)
LEMMA DaemonFile ==
  ASSUME Inv, UNCHANGED fileVars
  PROVE  FileInv' /\ FileTypeOK' /\ file.config \in ClawverseConfig
BY FileNextInv DEF Inv, FileInv, FileTypeOK

LEMMA StartKeeps ==
  ASSUME Inv, Start, UNCHANGED fileVars
  PROVE  Inv'
<1> DEFINE E == Enabled(file.config)
<1>1. /\ starter.pc = "off"
      /\ config' = file.config
      /\ registered' = E
      /\ ConnectNext({}, E, {})
      /\ handler' = handler
      /\ overlap' = overlap
  BY DEF Start
<1>2. file.config \in ClawverseConfig /\ FileTypeOK' /\ FileInv'
  BY DaemonFile
<1>3. E \subseteq Node /\ E \subseteq file.config.nodes
  BY <1>2 DEF Enabled, ClawverseConfig
<1>4. \/ E = {} /\ starter' = [pc |-> "done", at |-> None, seen |-> {}] /\ dialed' = {}
      \/ \E n \in E : /\ starter' = [pc |-> "awaiting", at |-> n, seen |-> {n}]
                      /\ dialed' = {n}
  BY <1>1 DEF ConnectNext
<1>5. TypeOK'
  BY <1>1, <1>2, <1>3, <1>4 DEF TypeOK, Inv
<1>6. OffIsQuiet' /\ OnItsOwn'
  BY <1>1, <1>3, <1>4 DEF Inv, OffIsQuiet, OnItsOwn
<1>7. EveryNodeDialed'
  BY <1>1, <1>3, <1>4 DEF EveryNodeDialed
<1>8. QED
  BY <1>2, <1>5, <1>6, <1>7 DEF Inv

LEMMA StartStepKeeps ==
  ASSUME Inv, StartStep, UNCHANGED fileVars
  PROVE  Inv'
<1>1. /\ starter.pc = "awaiting"
      /\ UNCHANGED <<config, registered, handler, overlap>>
      /\ \/ /\ registered \subseteq starter.seen
            /\ starter' = [pc |-> "done", at |-> None, seen |-> {}]
            /\ dialed' = dialed
         \/ \E n \in registered \ starter.seen :
              /\ starter' = [pc |-> "awaiting", at |-> n, seen |-> starter.seen \union {n}]
              /\ dialed' = dialed \union {n}
  BY DEF StartStep, ConnectNext
<1>2. FileTypeOK' /\ FileInv'
  BY DaemonFile
<1>3. TypeOK'
  BY <1>1, <1>2 DEF TypeOK, Inv
<1>4. OffIsQuiet' /\ OnItsOwn'
  BY <1>1 DEF Inv, OffIsQuiet, OnItsOwn
<1>5. EveryNodeDialed'
  BY <1>1 DEF EveryNodeDialed, Inv, TypeOK
<1>6. QED
  BY <1>2, <1>3, <1>4, <1>5 DEF Inv

LEMMA ExitKeeps ==
  ASSUME Inv, Exit, UNCHANGED fileVars
  PROVE  Inv'
<1>1. FileTypeOK' /\ FileInv'
  BY DaemonFile
<1>2. TypeOK'
  BY <1>1, DefaultIsValid DEF TypeOK, Exit, NoReload, Off, Idle
<1>3. OffIsQuiet' /\ OnItsOwn' /\ EveryNodeDialed'
  BY DEF Exit, OffIsQuiet, OnItsOwn, EveryNodeDialed, NoReload, Off, Idle
<1>4. QED
  BY <1>1, <1>2, <1>3 DEF Inv
(* What handleReload does before its first suspension, as the proofs below *)
(* use it: which nodes it drops, which it takes in, and what becomes of    *)
(* the tasks that are under way.                                           *)
LEMMA ReloadEffect ==
  ASSUME Inv, NEW h \in Handler, Reload(h), UNCHANGED fileVars
  PROVE  LET removed == Removed(file.config)
             added   == Added(file.config)
         IN
         /\ starter.pc # "off" /\ handler[h].pc = Idle
         /\ config' = file.config
         /\ overlap' = \E g \in Handler : handler[g].pc = "awaiting"
         /\ starter'.pc \in {"awaiting", "lost", "done"}
         /\ starter'.pc \notin {"awaiting", "lost"} => starter.pc \notin {"awaiting", "lost"}
         /\ starter'.seen = starter.seen \ removed
         /\ starter' \in [pc : {"off", "awaiting", "lost", "done"}, at : Node \union {None},
                          seen : SUBSET Node]
         /\ handler' \in [Handler -> [pc : {Idle, "awaiting", "lost"}, at : Node \union {None},
                                      todo : SUBSET Node]]
         /\ \A g \in Handler \ {h} : handler'[g].pc = "awaiting" => handler[g].pc = "awaiting"
         /\ \/ /\ added = {}
               /\ registered' = registered \ removed
               /\ dialed' = dialed \ removed
               /\ handler'[h].pc = Idle
            \/ \E n \in added :
                 /\ registered' = (registered \ removed) \union {n}
                 /\ dialed' = (dialed \ removed) \union {n}
                 /\ handler'[h].pc = "awaiting"
                 /\ handler'[h].todo = added \ {n}
<1> DEFINE removed == Removed(file.config)
           added   == Added(file.config)
<1>1. /\ handler \in [Handler -> [pc : {Idle, "awaiting", "lost"}, at : Node \union {None},
                                  todo : SUBSET Node]]
      /\ starter \in [pc : {"off", "awaiting", "lost", "done"}, at : Node \union {None},
                      seen : SUBSET Node]
      /\ added \subseteq Node
  BY DaemonFile DEF Inv, TypeOK, Added, Enabled, ClawverseConfig
<1>2. /\ starter.pc # "off" /\ handler[h].pc = Idle
      /\ config' = file.config
      /\ overlap' = \E g \in Handler : handler[g].pc = "awaiting"
  BY DEF Reload
<1>3. \E stuck \in BOOLEAN :
         starter' = IF Interrupts(removed, starter)
                    THEN [pc |-> PcAfter(stuck), at |-> None, seen |-> starter.seen \ removed]
                    ELSE [pc |-> starter.pc, at |-> starter.at, seen |-> starter.seen \ removed]
  BY DEF Reload
<1>4. /\ starter'.pc \in {"awaiting", "lost", "done"}
      /\ starter'.pc \notin {"awaiting", "lost"} => starter.pc \notin {"awaiting", "lost"}
      /\ starter'.seen = starter.seen \ removed
      /\ starter' \in [pc : {"off", "awaiting", "lost", "done"}, at : Node \union {None},
                       seen : SUBSET Node]
  BY <1>1, <1>2, <1>3 DEF Interrupts, PcAfter
<1>5. PICK stuck \in SUBSET Handler :
        LET After(g) == IF Interrupts(removed, handler[g])
                        THEN [pc |-> PcAfter(g \in stuck), at |-> None,
                              todo |-> handler[g].todo]
                        ELSE handler[g]
        IN
        \/ /\ added = {}
           /\ registered' = registered \ removed
           /\ dialed' = dialed \ removed
           /\ handler' = [g \in Handler |-> After(g)]
        \/ \E n \in added :
             /\ registered' = (registered \ removed) \union {n}
             /\ dialed' = (dialed \ removed) \union {n}
             /\ handler' = [g \in Handler |->
                             IF g = h THEN [pc |-> "awaiting", at |-> n, todo |-> added \ {n}]
                                      ELSE After(g)]
  BY DEF Reload
<1> DEFINE After(g) == IF Interrupts(removed, handler[g])
                       THEN [pc |-> PcAfter(g \in stuck), at |-> None, todo |-> handler[g].todo]
                       ELSE handler[g]
<1>6. \A g \in Handler :
        /\ After(g) \in [pc : {Idle, "awaiting", "lost"}, at : Node \union {None},
                         todo : SUBSET Node]
        /\ After(g).pc = "awaiting" => handler[g].pc = "awaiting"
  BY <1>1 DEF Interrupts, PcAfter
<1>7. After(h) = handler[h]
  BY <1>2 DEF Interrupts, Idle
<1>8. CASE /\ added = {}
           /\ registered' = registered \ removed
           /\ dialed' = dialed \ removed
           /\ handler' = [g \in Handler |-> After(g)]
  <2>1. /\ handler' \in [Handler -> [pc : {Idle, "awaiting", "lost"}, at : Node \union {None},
                                     todo : SUBSET Node]]
        /\ \A g \in Handler : handler'[g].pc = "awaiting" => handler[g].pc = "awaiting"
        /\ handler'[h].pc = Idle
    BY <1>2, <1>6, <1>7, <1>8
  <2>2. QED
    BY <1>2, <1>4, <1>8, <2>1
<1>9. CASE \E n \in added :
             /\ registered' = (registered \ removed) \union {n}
             /\ dialed' = (dialed \ removed) \union {n}
             /\ handler' = [g \in Handler |->
                             IF g = h THEN [pc |-> "awaiting", at |-> n, todo |-> added \ {n}]
                                      ELSE After(g)]
  <2>1. PICK n \in added :
             /\ registered' = (registered \ removed) \union {n}
             /\ dialed' = (dialed \ removed) \union {n}
             /\ handler' = [g \in Handler |->
                             IF g = h THEN [pc |-> "awaiting", at |-> n, todo |-> added \ {n}]
                                      ELSE After(g)]
    BY <1>9
  <2>2. /\ handler' \in [Handler -> [pc : {Idle, "awaiting", "lost"}, at : Node \union {None},
                                     todo : SUBSET Node]]
        /\ \A g \in Handler \ {h} : handler'[g].pc = "awaiting" => handler[g].pc = "awaiting"
        /\ handler'[h].pc = "awaiting" /\ handler'[h].todo = added \ {n}
    BY <1>1, <1>6, <2>1
  <2>3. QED
    BY <1>2, <1>4, <2>1, <2>2
<1>10. QED
  BY <1>5, <1>8, <1>9

LEMMA ReloadPreserves ==
  ASSUME Inv, NEW h \in Handler, Reload(h), UNCHANGED fileVars
  PROVE  Inv'
<1> DEFINE removed == Removed(file.config)
           added   == Added(file.config)
<1>1. FileTypeOK' /\ FileInv' /\ file.config \in ClawverseConfig
  BY DaemonFile
<1>2. /\ removed = registered \ file.config.nodes
      /\ added = Enabled(file.config) \ registered
      /\ Enabled(file.config) \subseteq file.config.nodes
      /\ added \subseteq Node
      /\ registered \subseteq Node /\ dialed \subseteq registered
  BY <1>1 DEF Removed, Added, Enabled, ClawverseConfig, Inv, TypeOK
<1>3. TypeOK'
  <2>1. registered' \subseteq Node /\ dialed' \subseteq registered'
    <3>1. CASE registered' = registered \ removed /\ dialed' = dialed \ removed
      BY <1>2, <3>1
    <3>2. CASE \E n \in added : /\ registered' = (registered \ removed) \union {n}
                               /\ dialed' = (dialed \ removed) \union {n}
      BY <1>2, <3>2
    <3>3. QED
      BY <3>1, <3>2, ReloadEffect
  <2>2. config' \in ClawverseConfig /\ overlap' \in BOOLEAN
    BY <1>1, ReloadEffect
  <2>3. QED
    BY <1>1, <2>1, <2>2, ReloadEffect DEF TypeOK
<1>4. OffIsQuiet'
  BY ReloadEffect DEF OffIsQuiet
<1>5. OnItsOwn'
  <2>1. SUFFICES ASSUME ~ overlap'
                 PROVE  OnItsOwn'
    BY DEF OnItsOwn
  <2>2. \A g \in Handler \ {h} : handler'[g].pc # "awaiting"
    BY <2>1, ReloadEffect
  <2>3. config' = file.config
    BY ReloadEffect
  <2>4. CASE /\ added = {}
             /\ registered' = registered \ removed
             /\ handler'[h].pc = Idle
    BY <1>2, <2>2, <2>3, <2>4 DEF OnItsOwn, Idle
  <2>5. CASE \E n \in added :
               /\ registered' = (registered \ removed) \union {n}
               /\ handler'[h].pc = "awaiting"
               /\ handler'[h].todo = added \ {n}
    BY <1>2, <2>2, <2>3, <2>5 DEF OnItsOwn
  <2>6. QED
    BY <2>4, <2>5, ReloadEffect
<1>6. EveryNodeDialed'
  <2>1. registered' \ dialed' \subseteq (registered \ dialed) \ removed
    BY ReloadEffect
  <2>2. CASE starter'.pc \in {"awaiting", "lost"}
    <3>1. registered \ dialed \subseteq Node \ starter.seen
      BY <1>2 DEF Inv, EveryNodeDialed
    <3>2. starter'.seen = starter.seen \ removed
      BY ReloadEffect
    <3>3. QED
      BY <2>1, <2>2, <3>1, <3>2 DEF EveryNodeDialed
  <2>3. CASE starter'.pc \notin {"awaiting", "lost"}
    <3>1. starter.pc \notin {"awaiting", "lost"}
      BY <2>3, ReloadEffect
    <3>2. QED
      BY <2>1, <2>3, <3>1 DEF Inv, EveryNodeDialed
  <2>4. QED
    BY <2>2, <2>3
<1>7. QED
  BY <1>1, <1>3, <1>4, <1>5, <1>6 DEF Inv

LEMMA ReloadStepPreserves ==
  ASSUME Inv, NEW h \in Handler, ReloadStep(h), UNCHANGED fileVars
  PROVE  Inv'
<1>1. /\ handler[h].pc = "awaiting"
      /\ UNCHANGED <<config, starter, overlap>>
  BY DEF ReloadStep
<1>2. FileTypeOK' /\ FileInv'
  BY DaemonFile
<1>3. starter.pc # "off"
  BY <1>1 DEF Inv, OffIsQuiet
<1>4. CASE /\ handler[h].todo = {} \/ handler[h].todo \intersect registered # {}
           /\ handler' = [handler EXCEPT ![h] = NoReload]
           /\ UNCHANGED <<registered, dialed>>
  <2>1. /\ handler'[h] = NoReload
        /\ \A g \in Handler \ {h} : handler'[g] = handler[g]
    BY <1>4 DEF Inv, TypeOK
  <2>2. TypeOK'
    BY <1>1, <1>2, <1>4 DEF Inv, TypeOK, NoReload, Idle
  <2>3. OnItsOwn'
    <3>1. SUFFICES ASSUME ~ overlap PROVE OnItsOwn'
      BY <1>1 DEF OnItsOwn
    <3>2. /\ registered \subseteq config.nodes
          /\ \A g \in Handler : handler[g].pc = "awaiting" => g = h
          /\ Enabled(config) \subseteq registered \union handler[h].todo
          /\ handler[h].todo \subseteq config.nodes \ registered
      BY <1>1, <1>3, <3>1 DEF Inv, OnItsOwn
    <3>3. Enabled(config) \subseteq registered
      BY <1>4, <3>2
    <3>4. \A g \in Handler : handler'[g].pc # "awaiting"
      BY <2>1, <3>2 DEF NoReload, Idle
    <3>5. Enabled(config') = Enabled(config)
      BY <1>1
    <3>6. QED
      BY <1>1, <1>4, <3>2, <3>3, <3>4, <3>5 DEF OnItsOwn
  <2>4. OffIsQuiet' /\ EveryNodeDialed'
    BY <1>1, <1>3, <1>4 DEF Inv, OffIsQuiet, EveryNodeDialed
  <2>5. QED
    BY <1>2, <2>2, <2>3, <2>4 DEF Inv
<1>5. CASE \E n \in handler[h].todo \ registered :
             /\ handler' = [handler EXCEPT ![h] = [pc |-> "awaiting", at |-> n,
                                                   todo |-> handler[h].todo \ {n}]]
             /\ registered' = registered \union {n}
             /\ dialed' = dialed \union {n}
  <2>1. PICK n \in handler[h].todo \ registered :
             /\ handler' = [handler EXCEPT ![h] = [pc |-> "awaiting", at |-> n,
                                                   todo |-> handler[h].todo \ {n}]]
             /\ registered' = registered \union {n}
             /\ dialed' = dialed \union {n}
    BY <1>5
  <2>2. n \in Node /\ handler[h].todo \subseteq Node
    BY <2>1 DEF Inv, TypeOK
  <2>3. /\ handler'[h] = [pc |-> "awaiting", at |-> n, todo |-> handler[h].todo \ {n}]
        /\ \A g \in Handler \ {h} : handler'[g] = handler[g]
    BY <2>1 DEF Inv, TypeOK
  <2>4. TypeOK'
    BY <1>1, <1>2, <2>1, <2>2 DEF Inv, TypeOK
  <2>5. OnItsOwn'
    <3>1. SUFFICES ASSUME ~ overlap PROVE OnItsOwn'
      BY <1>1 DEF OnItsOwn
    <3>2. /\ registered \subseteq config.nodes
          /\ \A g \in Handler : handler[g].pc = "awaiting" => g = h
          /\ Enabled(config) \subseteq registered \union handler[h].todo
          /\ handler[h].todo \subseteq config.nodes \ registered
      BY <1>1, <1>3, <3>1 DEF Inv, OnItsOwn
    <3>3. /\ registered' \subseteq config.nodes
          /\ Enabled(config) \subseteq registered' \union handler'[h].todo
          /\ handler'[h].todo \subseteq config.nodes \ registered'
      BY <2>1, <2>3, <3>2
    <3>4. /\ \A g \in Handler : handler'[g].pc = "awaiting" => g = h
          /\ handler'[h].pc = "awaiting"
      BY <2>3, <3>2
    <3>5. Enabled(config') = Enabled(config) /\ config' = config
      BY <1>1
    <3>6. QED
      BY <3>3, <3>4, <3>5 DEF OnItsOwn
  <2>6. OffIsQuiet' /\ EveryNodeDialed'
    BY <1>1, <1>3, <2>1 DEF Inv, OffIsQuiet, EveryNodeDialed
  <2>7. QED
    BY <1>2, <2>4, <2>5, <2>6 DEF Inv
<1>6. QED
  BY <1>4, <1>5 DEF ReloadStep

LEMMA NextInv ==
  ASSUME Inv, [Next]_vars
  PROVE  Inv'
<1>1. CASE UNCHANGED vars
  <2>1. UNCHANGED fileVars /\ UNCHANGED daemonVars
    BY <1>1 DEF vars
  <2>2. FileInv' /\ FileTypeOK'
    BY <2>1, DaemonFile
  <2>3. QED
    BY <2>1, <2>2 DEF Inv, TypeOK, OffIsQuiet, OnItsOwn, EveryNodeDialed, daemonVars
<1>2. CASE FileNext /\ UNCHANGED daemonVars
  BY <1>2, CommandStep
<1>3. CASE DaemonNext /\ UNCHANGED fileVars
  <2>1. CASE Start
    BY <1>3, <2>1, StartKeeps
  <2>2. CASE StartStep
    BY <1>3, <2>2, StartStepKeeps
  <2>3. CASE Exit
    BY <1>3, <2>3, ExitKeeps
  <2>4. CASE \E h \in Handler : Reload(h)
    BY <1>3, <2>4, ReloadPreserves
  <2>5. CASE \E h \in Handler : ReloadStep(h)
    BY <1>3, <2>5, ReloadStepPreserves
  <2>6. QED
    BY <1>3, <2>1, <2>2, <2>3, <2>4, <2>5 DEF DaemonNext
<1>4. QED
  BY <1>1, <1>2, <1>3 DEF Next

(* The state of the daemon's configuration is well typed.                  *)
THEOREM TypeCorrect == Spec => []TypeOK
<1>1. Inv => TypeOK
  BY DEF Inv
<1>2. QED
  BY <1>1, InitInv, NextInv, PTL DEF Spec

(* A reload that runs alone leaves the registry with the nodes of the      *)
(* configuration, whatever went before.                                    *)
THEOREM ReloadsConverge == Spec => []Converged
<1>1. Inv => Converged
  BY DEF Inv, OnItsOwn, Converged
<1>2. QED
  BY <1>1, InitInv, NextInv, PTL DEF Spec

(* Every registered node has been told to connect, or start will come to   *)
(* it, unless start is stuck.                                              *)
THEOREM NodesAreDialed == Spec => []EveryNodeDialed
<1>1. Inv => EveryNodeDialed
  BY DEF Inv
<1>2. QED
  BY <1>1, InitInv, NextInv, PTL DEF Spec
=============================================================================
