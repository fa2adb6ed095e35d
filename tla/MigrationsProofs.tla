-------------------------- MODULE MigrationsProofs --------------------------
(***************************************************************************)
(* A container serves only once every migration of its image is recorded,  *)
(* for any number of containers, any images and any chain of files.        *)
(*                                                                         *)
(* ServesMigrated is not inductive: what a container does once it has read *)
(* the migrations table rests on a list that others make stale.  Covered   *)
(* says that each of its files is recorded, still to do or done in its     *)
(* transaction.  That a commit adds the rows of what was done, and takes   *)
(* the row of nobody else, needs the ids of Shape: a commit that wrote     *)
(* over an id would unrecord a file another container serves with.         *)
(***************************************************************************)
EXTENDS Migrations, TLAPS

Table == executed = [id \in DOMAIN executed |-> executed[id]] /\ DOMAIN executed \subseteq Nat

Container(c) ==
  /\ DOMAIN c = {"st", "rel", "todo", "done", "tx", "why"}
  /\ \E S : c.done \in Seq(S)

Shape ==
  /\ Table
  /\ inst = [i \in Containers |-> inst[i]]
  /\ \A i \in Containers : Container(inst[i])

(* What container c knows of the first c.rel files. *)
Cover(c, names) ==
  /\ c.st = "serving" => \A k \in 1..c.rel : order[k] \in Range(names)
  /\ c.st \in {"loaded", "tx"} =>
       \A k \in 1..c.rel : order[k] \in Range(names) \/ k \in c.todo \/ order[k] \in Range(c.done)
  /\ c.st = "loaded" => c.done = <<>>

Covered == \A i \in Containers : Cover(inst[i], executed)

MInv == Shape /\ Covered

---------------------------------------------------------------------------
(* The rows a commit adds are new ones, and the old ones are kept.         *)
LEMMA RecordedRows ==
  ASSUME NEW names, NEW top, NEW new, NEW S, new \in Seq(S),
         names = [id \in DOMAIN names |-> names[id]], DOMAIN names \subseteq Nat,
         top \in DOMAIN names \cup {0}, NextIds(names, top),
         NEW rows, rows = Recorded(names, top, new)
  PROVE  /\ rows = [id \in DOMAIN rows |-> rows[id]] /\ DOMAIN rows \subseteq Nat
         /\ Range(names) \subseteq Range(rows) /\ Range(new) \subseteq Range(rows)
<1> DEFINE ids == {top + k : k \in DOMAIN new}
           all == [id \in DOMAIN names \cup ids |-> IF id \in ids THEN new[id - top] ELSE names[id]]
<1>1. rows = all
  BY DEF Recorded
<1>2. top \in Nat /\ DOMAIN new = 1..Len(new) /\ Len(new) \in Nat
  OBVIOUS
<1>3. ids \subseteq Nat /\ ids \cap DOMAIN names = {}
  BY <1>2 DEF NextIds, LastId
<1>4. DOMAIN all = DOMAIN names \cup ids
  OBVIOUS
<1>5. ASSUME NEW m \in Range(names)
      PROVE  m \in Range(all)
  BY <1>3, <1>4 DEF Range
<1>6. ASSUME NEW m \in Range(new)
      PROVE  m \in Range(all)
  <2>1. PICK k \in DOMAIN new : m = new[k]
    BY <1>6 DEF Range
  <2>2. top + k \in ids /\ (top + k) - top = k
    BY <1>2, <2>1
  <2>3. top + k \in DOMAIN all /\ all[top + k] = m
    BY <2>1, <2>2, <1>4
  <2> QED
    BY <2>3 DEF Range
<1> QED
  BY <1>1, <1>3, <1>4, <1>5, <1>6

(* A step of container i that leaves the recorded names in the table.      *)
LEMMA OneMoves ==
  ASSUME MInv, Table', order' = order, Range(executed) \subseteq Range(executed)',
         NEW i \in Containers, NEW c, inst' = [inst EXCEPT ![i] = c],
         Container(c), Cover(c, executed')
  PROVE  MInv'
<1>1. inst'[i] = c /\ \A j \in Containers : j # i => inst'[j] = inst[j]
  BY DEF MInv, Shape
<1>2. Shape'
  BY <1>1 DEF MInv, Shape, Container
<1>3. ASSUME NEW j \in Containers
      PROVE  Cover(inst[j], executed)' 
  <2>1. CASE j = i
    BY <1>1, <2>1 DEF Cover
  <2>2. CASE j # i
    BY <1>1, <2>2 DEF MInv, Covered, Cover
  <2> QED
    BY <2>1, <2>2
<1> QED
  BY <1>2, <1>3 DEF MInv, Covered

LEMMA StoppedIsFine == Container(Stopped) /\ Cover(Stopped, executed')
<1>1. <<>> \in Seq({})
  OBVIOUS
<1> QED
  BY <1>1 DEF Container, Cover, Stopped

LEMMA MInit == Init => MInv
<1> SUFFICES ASSUME Init PROVE MInv
  OBVIOUS
<1>1. executed = <<>> /\ inst = [i \in Containers |-> Stopped]
  BY DEF Init
<1>2. Table
  BY <1>1 DEF Table
<1>3. <<>> \in Seq({})
  OBVIOUS
<1>4. \A i \in Containers : inst[i] = Stopped
  BY <1>1
<1>5. Container(Stopped)
  BY <1>3 DEF Container, Stopped
<1>6. Cover(Stopped, executed)
  BY DEF Cover, Stopped
<1> QED
  BY <1>1, <1>2, <1>4, <1>5, <1>6 DEF MInv, Shape, Covered

(* What a container finds not recorded it puts on its list.                *)
LEMMA LoadKeeps ==
  ASSUME MInv, NEW i \in Containers, NEW r, Load(i, r)
  PROVE  MInv'
<1> DEFINE c == [Stopped EXCEPT !.st = "loaded", !.rel = r, !.todo = Pending(order, executed, r)]
<1>1. inst' = [inst EXCEPT ![i] = c] /\ order' = order /\ executed' = executed
  BY DEF Load
<1>2. /\ c.st = "loaded" /\ c.rel = r /\ c.todo = Pending(order, executed, r) /\ c.done = <<>>
      /\ DOMAIN c = {"st", "rel", "todo", "done", "tx", "why"}
  BY DEF Stopped
<1>3. <<>> \in Seq({})
  OBVIOUS
<1>4. Container(c)
  BY <1>2, <1>3 DEF Container
<1>5. Cover(c, executed')
  BY <1>1, <1>2 DEF Cover, Pending
<1>6. Table'
  BY <1>1 DEF MInv, Shape, Table
<1> HIDE DEF c
<1> QED
  BY <1>1, <1>4, <1>5, <1>6, OneMoves

LEMMA NonePendingKeeps ==
  ASSUME MInv, NEW i \in Containers, NonePending(i)
  PROVE  MInv'
<1> DEFINE c == [inst[i] EXCEPT !.st = "serving"]
<1>1. /\ inst' = [inst EXCEPT ![i] = c] /\ order' = order /\ executed' = executed
      /\ inst[i].st = "loaded" /\ inst[i].todo = {}
  BY DEF NonePending
<1>2. Container(inst[i]) /\ Cover(inst[i], executed)
  BY DEF MInv, Shape, Covered
<1>3. Container(c) /\ c.st = "serving" /\ c.rel = inst[i].rel
  BY <1>2 DEF Container
<1>4. Range(<<>>) = {}
  BY DEF Range
<1>5. Cover(c, executed')
  BY <1>1, <1>2, <1>3, <1>4 DEF Cover
<1>6. Table'
  BY <1>1 DEF MInv, Shape, Table
<1> HIDE DEF c
<1> QED
  BY <1>1, <1>3, <1>5, <1>6, OneMoves

LEMMA BeginKeeps ==
  ASSUME MInv, NEW i \in Containers, Begin(i)
  PROVE  MInv'
<1> DEFINE c == [inst[i] EXCEPT !.st = "tx", !.tx = schema]
<1>1. /\ inst' = [inst EXCEPT ![i] = c] /\ order' = order /\ executed' = executed
      /\ inst[i].st = "loaded"
  BY DEF Begin, MInv, Shape
<1>2. Container(inst[i]) /\ Cover(inst[i], executed)
  BY DEF MInv, Shape, Covered
<1>3. /\ Container(c) /\ c.st = "tx" /\ c.rel = inst[i].rel /\ c.todo = inst[i].todo
      /\ c.done = inst[i].done
  BY <1>2 DEF Container
<1>5. Cover(c, executed')
  BY <1>1, <1>2, <1>3 DEF Cover
<1>6. Table'
  BY <1>1 DEF MInv, Shape, Table
<1> HIDE DEF c
<1> QED
  BY <1>1, <1>3, <1>5, <1>6, OneMoves

(* The file that is applied leaves the list and joins what is done; one    *)
(* that fails takes the container out of service.                          *)
LEMMA StepKeeps ==
  ASSUME MInv, NEW i \in Containers, Step(i)
  PROVE  MInv'
<1> DEFINE next == Min(inst[i].todo)
           m == order[next]
           s == Migrate(inst[i].tx, m)
           on == [inst[i] EXCEPT !.tx = s, !.todo = @ \ {next}, !.done = Append(inst[i].done, m)]
           why == [m |-> m, stale |-> m \in Range(executed), rows |-> schema.full # {},
                   reverted |-> reverted]
           off == [Stopped EXCEPT !.st = "exited", !.why = why]
           c == IF s.ok THEN on ELSE off
<1>1. /\ inst' = [inst EXCEPT ![i] = c] /\ order' = order /\ executed' = executed
      /\ inst[i].st = "tx"
  BY DEF Step
<1>2. Container(inst[i]) /\ Cover(inst[i], executed)
  BY DEF MInv, Shape, Covered
<1> HIDE DEF next, s, why
<1>3. Container(on) /\ Cover(on, executed')
  <2>1. /\ DOMAIN on = {"st", "rel", "todo", "done", "tx", "why"}
        /\ on.st = inst[i].st /\ on.rel = inst[i].rel /\ on.todo = inst[i].todo \ {next}
        /\ on.done = Append(inst[i].done, m)
    BY <1>2 DEF Container
  <2>2. PICK S : inst[i].done \in Seq(S)
    BY <1>2 DEF Container
  <2>3. inst[i].done \in Seq(S \cup {m})
    BY <2>2
  <2>4. Append(inst[i].done, m) \in Seq(S \cup {m})
    BY <2>3
  <2>5. /\ DOMAIN Append(inst[i].done, m) = 1..(Len(inst[i].done) + 1)
        /\ DOMAIN inst[i].done = 1..Len(inst[i].done) /\ Len(inst[i].done) \in Nat
        /\ Append(inst[i].done, m)[Len(inst[i].done) + 1] = m
        /\ \A k \in 1..Len(inst[i].done) : Append(inst[i].done, m)[k] = inst[i].done[k]
    BY <2>3
  <2>6. /\ m \in Range(Append(inst[i].done, m))
        /\ Range(inst[i].done) \subseteq Range(Append(inst[i].done, m))
    BY <2>5 DEF Range
  <2>7. Container(on)
    BY <2>1, <2>4 DEF Container
  <2>8. Cover(on, executed')
    BY <1>1, <1>2, <2>1, <2>6 DEF Cover
  <2> QED
    BY <2>7, <2>8
<1>4. Container(off) /\ Cover(off, executed')
  <2>1. /\ DOMAIN off = {"st", "rel", "todo", "done", "tx", "why"}
        /\ off.st = "exited" /\ off.done = <<>>
    BY DEF Stopped
  <2>2. <<>> \in Seq({})
    OBVIOUS
  <2> QED
    BY <2>1, <2>2 DEF Container, Cover
<1>5. Table'
  BY <1>1 DEF MInv, Shape, Table
<1> HIDE DEF on, off
<1>6. Container(c) /\ Cover(c, executed')
  BY <1>3, <1>4
<1> HIDE DEF c
<1> QED
  BY <1>1, <1>5, <1>6, OneMoves

(* Nothing is left to do, so what was not recorded is done and recorded.   *)
LEMMA CommitKeeps ==
  ASSUME MInv, NEW i \in Containers, Commit(i)
  PROVE  MInv'
<1> DEFINE c == [Stopped EXCEPT !.st = "serving", !.rel = inst[i].rel]
<1>1. /\ inst' = [inst EXCEPT ![i] = c] /\ order' = order
      /\ inst[i].st = "tx" /\ inst[i].todo = {}
  BY DEF Commit
<1>2. PICK top \in DOMAIN executed \cup {0} :
        NextIds(executed, top) /\ executed' = Recorded(executed, top, inst[i].done)
  BY DEF Commit
<1>3. Container(inst[i]) /\ Cover(inst[i], executed) /\ Table
  BY DEF MInv, Shape, Covered
<1>4. PICK S : inst[i].done \in Seq(S)
  BY <1>3 DEF Container
<1>5. /\ Table' /\ Range(executed) \subseteq Range(executed')
      /\ Range(inst[i].done) \subseteq Range(executed')
  <2> DEFINE rows == executed'
  <2>1. rows = Recorded(executed, top, inst[i].done)
    BY <1>2
  <2> HIDE DEF rows
  <2>2. /\ rows = [id \in DOMAIN rows |-> rows[id]] /\ DOMAIN rows \subseteq Nat
        /\ Range(executed) \subseteq Range(rows) /\ Range(inst[i].done) \subseteq Range(rows)
    BY <1>2, <1>3, <1>4, <2>1, RecordedRows DEF Table
  <2> QED
    BY <2>2 DEF rows, Table
<1>6. /\ DOMAIN c = {"st", "rel", "todo", "done", "tx", "why"}
      /\ c.st = "serving" /\ c.rel = inst[i].rel /\ c.done = <<>>
  BY DEF Stopped
<1>7. <<>> \in Seq({})
  OBVIOUS
<1>8. Container(c)
  BY <1>6, <1>7 DEF Container
<1>9. Cover(c, executed')
  BY <1>1, <1>3, <1>5, <1>6 DEF Cover
<1> HIDE DEF c
<1> QED
  BY <1>1, <1>5, <1>8, <1>9, OneMoves DEF Range

LEMMA StopKeeps ==
  ASSUME MInv, NEW i \in Containers, Stop(i)
  PROVE  MInv'
<1>1. inst' = [inst EXCEPT ![i] = Stopped] /\ order' = order /\ executed' = executed
  BY DEF Stop
<1>2. Table'
  BY <1>1 DEF MInv, Shape, Table
<1> QED
  BY <1>1, <1>2, StoppedIsFine, OneMoves

(* A revert takes rows away while nobody serves or has read the table.     *)
LEMMA RevertKeeps ==
  ASSUME MInv, Revert
  PROVE  MInv'
<1>1. inst' = inst /\ order' = order /\ \A i \in Containers : inst[i].st = "down"
  BY DEF Revert
<1>2. executed' = executed \/ \E m : executed' = Undone(executed, m)
  BY DEF Revert
<1>3. Table'
  BY <1>2 DEF MInv, Shape, Table, Undone, Without
<1>4. Shape'
  BY <1>1, <1>3 DEF MInv, Shape, Container
<1>5. Covered'
  BY <1>1 DEF Covered, Cover
<1> QED
  BY <1>4, <1>5 DEF MInv

LEMMA MNext == MInv /\ [Next]_vars => MInv'
<1> SUFFICES ASSUME MInv, [Next]_vars PROVE MInv'
  OBVIOUS
<1>1. ASSUME NEW i \in Containers, NEW r \in Releases, Load(i, r)
      PROVE  MInv'
  BY <1>1, LoadKeeps
<1>2. ASSUME NEW i \in Containers, NonePending(i)
      PROVE  MInv'
  BY <1>2, NonePendingKeeps
<1>3. ASSUME NEW i \in Containers, Begin(i)
      PROVE  MInv'
  BY <1>3, BeginKeeps
<1>4. ASSUME NEW i \in Containers, Step(i)
      PROVE  MInv'
  BY <1>4, StepKeeps
<1>5. ASSUME NEW i \in Containers, Commit(i)
      PROVE  MInv'
  BY <1>5, CommitKeeps
<1>6. ASSUME NEW i \in Containers, Stop(i)
      PROVE  MInv'
  BY <1>6, StopKeeps
<1>7. ASSUME UNCHANGED <<order, executed, inst>>
      PROVE  MInv'
  BY <1>7 DEF MInv, Shape, Table, Container, Covered, Cover
<1>8. ASSUME NEW i \in Containers, Play(i)
      PROVE  MInv'
  BY <1>7, <1>8 DEF Play
<1>9. CASE UNCHANGED vars
  BY <1>7, <1>9 DEF vars
<1> QED
  BY <1>1, <1>2, <1>3, <1>4, <1>5, <1>6, <1>8, <1>9, RevertKeeps DEF Next

(* A container serves only once every migration of its image is recorded   *)
(* (src/docker-entrypoint.sh:55-67), for any containers, images and chain, *)
(* however they overtake each other, fail, are killed or follow a revert.  *)
THEOREM ServesOnlyMigrated == Spec => []ServesMigrated
<1>1. MInv => ServesMigrated
  BY DEF MInv, Covered, Cover, ServesMigrated
<1> QED
  BY <1>1, MInit, MNext, PTL DEF Spec
============================================================================
