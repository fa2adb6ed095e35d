-------------------------------- MODULE Ddl --------------------------------
(***************************************************************************)
(* The part of PostgreSQL's data definition language that the migrations   *)
(* of src/src/migrations use: a schema, its statements as records, and     *)
(* what executing one does.  External to the repository; modelled from how *)
(* the migrations use it.                                                  *)
(*                                                                         *)
(* A column is its type, whether it is NOT NULL and whether it has a       *)
(* default.  The types told apart are those some migration changes or      *)
(* compares: "ts" and "tz" (timestamp without and with time zone), "int",  *)
(* "bigint", "uuid", an enum's name, and "val" for every other type.       *)
(***************************************************************************)
EXTENDS Naturals, Sequences, FiniteSets, TLC, SequencesExt

Req(ty) == [ty |-> ty, nn |-> TRUE, def |-> FALSE]   \* NOT NULL
Def(ty) == [ty |-> ty, nn |-> TRUE, def |-> TRUE]    \* NOT NULL DEFAULT ..
Opt(ty) == [ty |-> ty, nn |-> FALSE, def |-> FALSE]  \* nullable

\* ok: no statement has failed.  tab: columns by table.  typ: labels by enum
\* type.  rel: indexes and constraints by name.  trig: tables with a trigger.
\* full: the tables that hold rows.
EmptySchema ==
  [ok |-> TRUE, tab |-> <<>>, typ |-> <<>>, rel |-> <<>>, trig |-> {},
   full |-> {}]

Without(f, S) == [x \in DOMAIN f \ S |-> f[x]]

HasTable(s, t) == t \in DOMAIN s.tab
HasColumn(s, t, c) == HasTable(s, t) /\ c \in DOMAIN s.tab[t]
HasColumns(s, t, cs) == HasTable(s, t) /\ cs \subseteq DOMAIN s.tab[t]

Fail(s) == [s EXCEPT !.ok = FALSE]

---------------------------------------------------------------------------
(* Statements.  "if" is "new" for IF NOT EXISTS, "there" for IF EXISTS.    *)

CreateTable(t, cols) == [op |-> "CreateTable", if |-> "no", t |-> t, cols |-> cols]
CreateTableLike(t, u) == [op |-> "CreateTableLike", if |-> "no", t |-> t, u |-> u]
DropTable(t) == [op |-> "DropTable", if |-> "no", t |-> t]
AddColumns(t, cols) == [op |-> "AddColumns", if |-> "no", t |-> t, cols |-> cols]
DropColumns(t, cs) == [op |-> "DropColumns", if |-> "no", t |-> t, cs |-> cs]
RenameColumn(t, c, d) == [op |-> "RenameColumn", if |-> "no", t |-> t, c |-> c, d |-> d]
SetType(t, c, ty) == [op |-> "SetType", if |-> "no", t |-> t, c |-> c, ty |-> ty]
\* ALTER TYPE .. USING of a column whose type is checked first
Retype(t, c, old, ty) == [op |-> "Retype", if |-> "no", t |-> t, c |-> c, old |-> old, ty |-> ty]
RetypeAll(old, ty) == [op |-> "RetypeAll", if |-> "no", old |-> old, ty |-> ty]
SetDefault(t, c, b) == [op |-> "SetDefault", if |-> "no", t |-> t, c |-> c, b |-> b]
SetNotNull(t, c, b) == [op |-> "SetNotNull", if |-> "no", t |-> t, c |-> c, b |-> b]
\* UPDATE, which needs its columns
Update(t, cs) == [op |-> "Update", if |-> "no", t |-> t, cs |-> cs]
\* INSERT INTO t SELECT * FROM u
CopyRows(t, u) == [op |-> "CopyRows", if |-> "no", t |-> t, u |-> u]
CreateType(n, ls) == [op |-> "CreateType", if |-> "no", n |-> n, ls |-> ls]
AddLabel(n, l) == [op |-> "AddLabel", if |-> "no", n |-> n, l |-> l]
RenameType(n, m) == [op |-> "RenameType", if |-> "no", n |-> n, m |-> m]
DropType(n) == [op |-> "DropType", if |-> "no", n |-> n]
CreateRel(kind, n, t, cs, ref) ==
  [op |-> "CreateRel", if |-> "no", n |-> n,
   rel |-> [kind |-> kind, t |-> t, cs |-> cs, ref |-> ref]]
CreateIndex(n, t, cs) == CreateRel("index", n, t, cs, "none")
AddUnique(n, t, cs) == CreateRel("con", n, t, cs, "none")
AddCheck(n, t, cs) == CreateRel("con", n, t, cs, "none")
AddForeignKey(n, t, c, ref) == CreateRel("con", n, t, {c}, ref)
DropIndex(n) == [op |-> "DropRel", if |-> "no", kind |-> "index", n |-> n]
DropConstraint(n) == [op |-> "DropRel", if |-> "no", kind |-> "con", n |-> n]
\* the DO block that renames an index when only its old name exists
RenameIndex(n, m) == [op |-> "RenameIndex", if |-> "no", n |-> n, m |-> m]
CreateTrigger(t) == [op |-> "CreateTrigger", if |-> "no", t |-> t]
DropTrigger(t) == [op |-> "DropTrigger", if |-> "there", t |-> t]

IfNew(st) == [st EXCEPT !.if = "new"]
IfThere(st) == [st EXCEPT !.if = "there"]

---------------------------------------------------------------------------
(* What each statement does.                                               *)

\* A column may be added NOT NULL without a default only to an empty table.
AddCols(s, t, cols) ==
  IF HasTable(s, t) /\ DOMAIN cols \cap DOMAIN s.tab[t] = {}
     /\ (t \in s.full => \A c \in DOMAIN cols : cols[c].nn => cols[c].def)
     /\ \A c \in DOMAIN cols :
          cols[c].ty \in {"ts", "tz", "int", "bigint", "uuid", "val"} \cup DOMAIN s.typ
  THEN [s EXCEPT !.tab[t] = cols @@ s.tab[t]] ELSE Fail(s)

\* Indexes and constraints on a dropped column go with it.
DropCols(s, t, cs) ==
  IF HasColumns(s, t, cs)
  THEN [s EXCEPT !.tab[t] = Without(@, cs),
                 !.rel = Without(@, {n \in DOMAIN s.rel :
                            s.rel[n].t = t /\ s.rel[n].cs \cap cs # {}})]
  ELSE Fail(s)

\* A table some other table's foreign key refers to cannot be dropped.
DropTab(s, t) ==
  IF HasTable(s, t) /\ \A n \in DOMAIN s.rel : s.rel[n].ref = t => s.rel[n].t = t
  THEN [s EXCEPT !.tab = Without(@, {t}), !.trig = @ \ {t}, !.full = @ \ {t},
                 !.rel = Without(@, {n \in DOMAIN s.rel : s.rel[n].t = t})]
  ELSE Fail(s)

Rename(c, d, S) == {IF x = c THEN d ELSE x : x \in S}

RenameCol(s, t, c, d) ==
  IF HasColumn(s, t, c) /\ ~HasColumn(s, t, d)
  THEN [s EXCEPT !.tab[t] = (d :> s.tab[t][c]) @@ Without(s.tab[t], {c}),
                 !.rel = [n \in DOMAIN s.rel |->
                            IF s.rel[n].t = t THEN [s.rel[n] EXCEPT !.cs = Rename(c, d, @)]
                            ELSE s.rel[n]]]
  ELSE Fail(s)

MapTypes(s, old, new) ==
  [s EXCEPT !.tab = [t \in DOMAIN s.tab |->
     [c \in DOMAIN s.tab[t] |-> [s.tab[t][c] EXCEPT !.ty = IF @ = old THEN new ELSE @]]]]

\* A foreign key needs its referenced table, whose id has the column's type.
\* A unique index is built: the rows are assumed to have no two of its keys.
NewRel(s, n, r) ==
  IF n \notin DOMAIN s.rel /\ HasColumns(s, r.t, r.cs)
     /\ (r.ref # "none" =>
           HasTable(s, r.ref) /\ \A c \in r.cs : s.tab[r.t][c].ty = s.tab[r.ref]["id"].ty)
  THEN [s EXCEPT !.rel = (n :> r) @@ @] ELSE Fail(s)

\* Whether the object an IF [NOT] EXISTS clause asks about exists.
There(s, st) ==
  CASE st.op \in {"CreateTable", "CreateTableLike", "DropTable"} -> HasTable(s, st.t)
    [] st.op = "CreateRel" -> st.n \in DOMAIN s.rel
    [] st.op = "DropRel" -> st.n \in DOMAIN s.rel
    [] st.op \in {"CreateType", "DropType"} -> st.n \in DOMAIN s.typ
    [] st.op \in {"CreateTrigger", "DropTrigger"} -> st.t \in s.trig
    [] OTHER -> FALSE

Apply(s, st) ==
  CASE st.op = "CreateTable" ->
         IF HasTable(s, st.t) THEN Fail(s)
         ELSE AddCols([s EXCEPT !.tab = (st.t :> <<>>) @@ @], st.t, st.cols)
    [] st.op = "CreateTableLike" ->
         IF HasTable(s, st.t) \/ ~HasTable(s, st.u) THEN Fail(s)
         ELSE [s EXCEPT !.tab = (st.t :> s.tab[st.u]) @@ @]
    [] st.op = "DropTable" -> DropTab(s, st.t)
    [] st.op = "AddColumns" ->
         AddCols(s, st.t, IF st.if = "new" /\ HasTable(s, st.t)
                          THEN Without(st.cols, DOMAIN s.tab[st.t]) ELSE st.cols)
    [] st.op = "DropColumns" ->
         DropCols(s, st.t, IF st.if = "there" /\ HasTable(s, st.t)
                           THEN st.cs \cap DOMAIN s.tab[st.t] ELSE st.cs)
    [] st.op = "RenameColumn" -> RenameCol(s, st.t, st.c, st.d)
    [] st.op = "SetType" ->
         IF HasColumn(s, st.t, st.c) THEN [s EXCEPT !.tab[st.t][st.c].ty = st.ty] ELSE Fail(s)
    [] st.op = "Retype" ->
         IF HasColumn(s, st.t, st.c) /\ s.tab[st.t][st.c].ty = st.old
         THEN [s EXCEPT !.tab[st.t][st.c].ty = st.ty] ELSE s
    [] st.op = "RetypeAll" -> MapTypes(s, st.old, st.ty)
    [] st.op = "SetDefault" ->
         IF HasColumn(s, st.t, st.c) THEN [s EXCEPT !.tab[st.t][st.c].def = st.b] ELSE Fail(s)
    [] st.op = "SetNotNull" ->
         IF HasColumn(s, st.t, st.c) THEN [s EXCEPT !.tab[st.t][st.c].nn = st.b] ELSE Fail(s)
    [] st.op = "Update" -> IF HasColumns(s, st.t, st.cs) THEN s ELSE Fail(s)
    [] st.op = "CopyRows" ->
         IF HasTable(s, st.t) /\ HasTable(s, st.u) /\ DOMAIN s.tab[st.t] = DOMAIN s.tab[st.u]
         THEN [s EXCEPT !.full = IF st.u \in @ THEN @ \cup {st.t} ELSE @] ELSE Fail(s)
    [] st.op = "CreateType" ->
         IF st.n \in DOMAIN s.typ THEN Fail(s) ELSE [s EXCEPT !.typ = (st.n :> st.ls) @@ @]
    [] st.op = "AddLabel" ->
         IF st.n \in DOMAIN s.typ /\ st.l \notin s.typ[st.n]
         THEN [s EXCEPT !.typ[st.n] = @ \cup {st.l}] ELSE Fail(s)
    [] st.op = "RenameType" ->
         IF st.n \in DOMAIN s.typ /\ st.m \notin DOMAIN s.typ
         THEN MapTypes([s EXCEPT !.typ = (st.m :> s.typ[st.n]) @@ Without(s.typ, {st.n})], st.n, st.m)
         ELSE Fail(s)
    [] st.op = "DropType" ->
         IF st.n \in DOMAIN s.typ /\ \A t \in DOMAIN s.tab : \A c \in DOMAIN s.tab[t] :
                                        s.tab[t][c].ty # st.n
         THEN [s EXCEPT !.typ = Without(@, {st.n})] ELSE Fail(s)
    [] st.op = "CreateRel" -> NewRel(s, st.n, st.rel)
    [] st.op = "DropRel" ->
         IF st.n \in DOMAIN s.rel /\ s.rel[st.n].kind = st.kind
         THEN [s EXCEPT !.rel = Without(@, {st.n})] ELSE Fail(s)
    [] st.op = "RenameIndex" ->
         IF st.n \in DOMAIN s.rel /\ st.m \notin DOMAIN s.rel
         THEN [s EXCEPT !.rel = (st.m :> s.rel[st.n]) @@ Without(s.rel, {st.n})] ELSE s
    [] st.op = "CreateTrigger" ->
         IF HasTable(s, st.t) /\ st.t \notin s.trig THEN [s EXCEPT !.trig = @ \cup {st.t}]
         ELSE Fail(s)
    [] st.op = "DropTrigger" -> [s EXCEPT !.trig = @ \ {st.t}]

\* Nothing more runs after a failure; a guarded statement may be skipped.
Execute(s, st) ==
  IF \/ ~s.ok
     \/ st.if = "new" /\ There(s, st)
     \/ st.if = "there" /\ st.op \notin {"DropColumns"} /\ ~There(s, st)
  THEN s ELSE Apply(s, st)

ExecuteAll(s, sts) == FoldLeft(Execute, s, sts)
============================================================================
