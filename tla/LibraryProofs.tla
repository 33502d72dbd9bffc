--------------------------- MODULE LibraryProofs ---------------------------
(***************************************************************************)
(* Proofs about LibraryAdmin: folders stay trees, links stay in one folder *)
(* of their organization, and the counts are exact, for any number of      *)
(* requests, folders, links, organizations and registrars.                 *)
(***************************************************************************)
EXTENDS LibraryAdmin, FunctionTheorems, FiniteSetTheorems, SequenceTheorems,
        WellFoundedInduction, TLAPS

----------------------------------------------------------------------------
(* The inductive invariant.                                                *)

\* The fields a request has filled in, by its kind.
Fits(q) ==
    /\ q.stage = "idle" <=> q.kind = "none"
    /\ q.kind = "none" => q = NoReq
    /\ q.stage = "lock" => q.todo # <<>>
    /\ q.kind = "create_folder" =>
         q.stage \in {"lock", "save"} /\ q.folder \in Folders /\ q.parent \in Folders
    /\ q.kind \in {"put", "patch"} =>
         /\ q.stage \in {"read", "save"} \/ (q.kind = "put" /\ q.stage = "lock")
         /\ q.folder \in Folders
         /\ q.kind = "put" => q.parent_root \in Folders
         /\ q.kind = "patch" => q.copy.tree_root \in Folders
         /\ q.folder \in Roots => q.kind = "patch" /\ q.parent = q.copy.parent
         /\ q.folder \notin Roots =>
              q.parent \in Folders /\ (q.kind = "patch" => q.copy.parent \in Folders)
         /\ q.stage = "save" => q.folder \notin Roots /\ q.new_root \in Folders
    /\ q.kind = "delete_folder" => q.stage = "save" /\ q.folder \in Folders \ Roots
    /\ q.kind \in {"create_link", "move_link"} =>
         /\ q.stage \in {"open", "lock", "save"}
         /\ q.link \in Links /\ q.parent \in Folders /\ q.parent_root \in Folders
         /\ q.link_org \in Orgs \cup {Personal}
    /\ q.kind \in {"edit_organization", "delete_organization"} =>
         /\ q.stage = "save" \/ (q.kind = "delete_organization" /\ q.stage = "read")
         /\ q.row \in Orgs /\ q.from \in Registrars /\ q.to \in Registrars
         /\ q.parent = NoFolder
         /\ q.folder # NoFolder => q.folder \in Roots /\ q.copy.tree_root \in Folders
    /\ q.kind = "edit_registrar" => q.stage = "save" /\ q.row \in Registrars
    /\ q.kind = "edit_user" => q.stage = "save"
    /\ q.kind = "reconcile" =>
         q.stage \in {"read", "save"} /\ q.row \in Tables /\ q.parent = NoFolder
    /\ q.kind = "fix_path" =>
         /\ q.stage \in {"read", "save"} /\ q.folder \in Folders /\ q.parent = NoFolder
         /\ q.stage = "save" => q.path # <<>> /\ q.new_root \in {NoFolder, q.path[1]}

\* What is true of folders even after a PATCH has made a cycle of some.
Rows ==
    /\ folders \subseteq spent /\ Roots \subseteq spent
    /\ \A f \in folders \cup Roots : tree_root[f] \in Folders
    /\ \A f \in folders \ Roots : parent[f] \in Folders
    /\ \A l \in Links : place[l] \subseteq folders
    /\ \A l \in Links : status[l] = "none" => place[l] = {} /\ organization[l] = Personal

\* The rows that requests are about to insert are theirs alone.
Fresh ==
    \A r \in Requests :
        /\ req[r].kind = "create_folder" =>
             /\ req[r].folder \notin spent
             /\ \A q \in Requests \ {r} : req[q].folder # req[r].folder
        /\ req[r].kind \in {"put", "patch"} => req[r].folder \in spent
        /\ req[r].kind = "create_link" =>
             /\ status[req[r].link] = "none" /\ req[r].link_org = Personal
             /\ \A q \in Requests \ {r} : req[q].link # req[r].link

NoLocks(r) == \A f \in Folders : lock[f] # r

\* Only a folder that is there is locked, and only by a request that locks folders.
Locked ==
    /\ \A f \in Folders : lock[f] # NoRequest => f \in folders
    /\ \A r \in Requests :
         req[r].kind \in {"none", "delete_organization", "fix_path"} => NoLocks(r)

\* Each folder's path is that of its parent and itself.
Forest(par, fs, c) ==
    /\ fs \subseteq Folders
    /\ c \in [Folders -> Seq(Folders)]
    /\ \A f \in fs :
         \/ par[f] = NoFolder /\ c[f] = <<f>>
         \/ par[f] \in fs /\ c[f] = Append(c[par[f]], f)

Trees ==
    /\ Roots \subseteq folders
    /\ Forest(parent, folders, cached_path)
    /\ \A f \in Folders \ spent : ~cached_has_children[f]
    /\ \A f \in folders :
         /\ f \in Roots <=> parent[f] = NoFolder
         /\ tree_root[f] = cached_path[f][1]
         /\ owner[f] = owner[tree_root[f]]
         /\ cached_has_children[f] = (Children(parent, f) # {})

OnPath(c, f, g) == \E i \in 1..Len(c[g]) : c[g][i] = f

\* f and what is below it.
Under(f) == {g \in folders : OnPath(cached_path, f, g)}

\* POST holds its parent's row, by which it reads the tree it locks.
Creating(r) ==
    LET p == req[r].parent IN
    /\ req[r].stage = "lock" =>
         \/ req[r].todo = <<p>> /\ NoLocks(r)
         \/ lock[p] = r /\ req[r].todo = <<tree_root[p]>>
    /\ req[r].stage = "save" => lock[p] = r /\ lock[tree_root[p]] = r

\* What Folder.save has read is still so.
Moving(r) ==
    LET f == req[r].folder
        p == req[r].parent
    IN
    /\ lock[req[r].new_root] = r
    /\ req[r].subtree \cap folders = Under(f) /\ req[r].subtree \subseteq spent
    /\ parent[f] # p /\ p \in spent
    /\ req[r].old_owner = owner[f]
    /\ p \in folders => /\ tree_root[p] = req[r].new_root
                        /\ owner[p] = req[r].new_owner
                        /\ p \notin Under(f)

\* PUT holds the folder's row, so that the tree it then locks stays the folder's.
Putting(r) ==
    LET f == req[r].folder
        root == tree_root[f]
        dest == req[r].parent_root
    IN
    /\ dest \in Roots
    /\ req[r].stage = "lock" =>
         \/ req[r].todo = <<f>> /\ NoLocks(r)
         \/ /\ lock[f] = r
            /\ \/ req[r].todo = <<root>> /\ dest = root
               \/ req[r].todo = <<root, dest>>
               \/ req[r].todo = <<dest>> /\ lock[root] = r
    /\ req[r].stage = "read" => lock[f] = r /\ lock[root] = r /\ lock[dest] = r
    /\ req[r].stage = "save" => lock[f] = r /\ lock[root] = r /\ Moving(r)

Guarded(r) ==
    /\ req[r].kind = "create_folder" => Creating(r)
    /\ req[r].kind = "put" => Putting(r)
    /\ req[r].kind = "patch" => req[r].stage = "read"

\* A link that is moved has been made; a task for users or organizations has found
\* no registrar to write.
Picked ==
    \A r \in Requests :
        /\ req[r].kind = "move_link" => status[req[r].link] # "none"
        /\ req[r].kind = "reconcile" /\ req[r].stage = "save" /\ req[r].row # "registrars" =>
             req[r].rows \cap Registrars = {}

\* The organization, the registrar and the sponsor that count a link.
OrgKey == [l \in Links |-> IF status[l] = "live" THEN OrgRow(organization[l]) ELSE Personal]
RegistrarKey ==
    [l \in Links |-> IF status[l] = "live" THEN RegistrarOf(organization[l]) ELSE Personal]
SponsorKey == [l \in Links |-> IF status[l] = "live" THEN SponsoredBy(l) ELSE Personal]

With(key, k) == {l \in Links : key[l] = k}
Tallies(count, ks, key) == \A k \in ks : count[k] = Cardinality(With(key, k))

Quiet == ~past.unlocked /\ ~past.stale /\ ~past.swept

\* Each row counts the links that it counts.
TalliedUser == "users" \notin past.rows => link_count[Personal] = Cardinality(Live)
TalliedOrgs ==
    Quiet /\ "organizations" \notin past.rows =>
        Tallies(link_count, {o \in Orgs : ~user_deleted[o]}, OrgKey)
TalliedRegistrars ==
    Quiet /\ "registrars" \notin past.rows =>
        /\ Tallies(link_count, Sponsors, SponsorKey)
        /\ Tallies(registrar_count, Registrars, RegistrarKey)
Tallied == TalliedUser /\ TalliedOrgs /\ TalliedRegistrars

Typed == TypeOK /\ (\A r \in Requests : Fits(req[r])) /\ Rows
Serial == Fresh /\ Locked /\ (~past.unlocked => Trees /\ \A r \in Requests : Guarded(r))
Inv == Typed /\ Serial /\ Picked /\ LinksPlaced /\ Tallied

----------------------------------------------------------------------------
(* Recursive functions. The library's theorems on them take operators; here *)
(* the step is a function.                                                  *)

LEMMA Least ==
    ASSUME NEW S \in SUBSET Nat, S # {}
    PROVE  \E n \in S : \A m \in S : n <= m
<1>1. PICK n \in S : \A m \in S : ~(<<m, n>> \in OpToRel(<, Nat))
  BY NatLessThanWellFounded, WFMin
<1>2. \A m \in S : ~(m < n)
  BY <1>1 DEF OpToRel
<1> QED BY <1>2

\* A set of numbers that holds 0 and the successor of each of its members below n
\* holds all numbers up to n.
LEMMA UpTo ==
    ASSUME NEW n \in Nat, NEW S, 0 \in S, \A i \in 0..(n - 1) : i \in S => i + 1 \in S
    PROVE  \A i \in 0..n : i \in S
<1> DEFINE Out == {i \in 0..n : i \notin S}
<1> SUFFICES ASSUME Out # {} PROVE FALSE
  OBVIOUS
<1>1. \E i \in Out : \A j \in Out : i <= j
  <2>1. Out \in SUBSET Nat OBVIOUS
  <2> HIDE DEF Out
  <2>2. QED BY <2>1, Least
<1>2. PICK i \in 0..n : i \notin S /\ \A j \in 0..n : j \notin S => i <= j
  BY <1>1
<1>3. i # 0
  BY <1>2
<1>4. i - 1 \in 0..(n - 1) /\ i - 1 \in S
  BY <1>2, <1>3
<1>5. i \in S
  BY <1>4, <1>2
<1> QED
  BY <1>2, <1>5

\* A function defined by primitive recursion exists.
Iterates(f, n, S, s, step) ==
    f \in [0..n -> S] /\ f[0] = s /\ \A i \in 1..n : f[i] = step[f[i - 1]]

LEMMA IteratesExist ==
    ASSUME NEW n \in Nat, NEW S, NEW s \in S, NEW step \in [S -> S]
    PROVE  \E f : Iterates(f, n, S, s, step)
<1> DEFINE Upto(m, f) == f = [i \in 0..m |-> IF i = 0 THEN s ELSE step[f[i - 1]]]
           Reached == {m \in 0..n : \E f \in [0..m -> S] : Upto(m, f)}
<1>1. 0 \in Reached
  <2> DEFINE g == [i \in 0..0 |-> s]
  <2>1. g \in [0..0 -> S] /\ Upto(0, g)
    OBVIOUS
  <2> HIDE DEF g, Upto
  <2>2. QED BY <2>1
<1>2. ASSUME NEW m \in 0..(n - 1), m \in Reached PROVE m + 1 \in Reached
  <2>1. PICK f \in [0..m -> S] : Upto(m, f)
    BY <1>2
  <2> DEFINE g == [i \in 0..(m + 1) |-> IF i = m + 1 THEN step[f[m]] ELSE f[i]]
  <2>2. g \in [0..(m + 1) -> S]
    OBVIOUS
  <2>3. ASSUME NEW i \in 0..(m + 1) PROVE g[i] = IF i = 0 THEN s ELSE step[g[i - 1]]
    <3>1. CASE i = 0 BY <2>1, <3>1
    <3>2. CASE i = m + 1 BY <3>2
    <3>3. CASE i \in 1..m
      <4>1. f[i] = step[f[i - 1]] BY <2>1, <3>3
      <4>2. QED BY <3>3, <4>1
    <3>4. QED BY <3>1, <3>2, <3>3
  <2>4. Upto(m + 1, g)
    BY <2>2, <2>3
  <2>5. m + 1 \in 0..n
    OBVIOUS
  <2> HIDE DEF g, Upto
  <2>6. QED BY <2>2, <2>4, <2>5
<1>3. n \in Reached
  <2> HIDE DEF Reached
  <2> QED BY <1>1, <1>2, UpTo
<1>4. PICK f \in [0..n -> S] : Upto(n, f)
  BY <1>3
<1>5. Iterates(f, n, S, s, step)
  BY <1>4 DEF Iterates
<1>6. QED BY <1>5

\* What Below and Path compute, step by step, whatever the parents are.
LEMMA BelowSteps ==
    ASSUME NEW f \in Folders, NEW gs \in SUBSET Folders
    PROVE  \E down \in [0..Cardinality(Folders) -> SUBSET Folders] :
             /\ down[0] = {f}
             /\ \A n \in 0..(Cardinality(Folders) - 1) :
                  down[n + 1] = down[n] \cup {g \in gs : parent[g] \in down[n]}
             /\ Below(f, gs) = down[Cardinality(Folders)]
<1> DEFINE N == Cardinality(Folders)
           step == [above \in SUBSET Folders |-> above \cup {g \in gs : parent[g] \in above}]
           Is(h) == h = [n \in 0..N |->
                           IF n = 0 THEN {f}
                           ELSE LET above == h[n - 1]
                                IN above \cup {g \in gs : parent[g] \in above}]
           down == CHOOSE h : Is(h)
<1>1. N \in Nat
  BY LibraryAssumption, FS_CardinalityType
<1>2. \E h : Is(h)
  <2> DEFINE Sets == SUBSET Folders
             top == {f}
  <2>1. step \in [Sets -> Sets] /\ top \in Sets
    OBVIOUS
  <2>2. PICK h : Iterates(h, N, Sets, top, step)
    <3> HIDE DEF N, step, Sets, top
    <3> QED BY <1>1, <2>1, IteratesExist
  <2>3. h \in [0..N -> Sets] /\ h[0] = top /\ \A n \in 1..N : h[n] = step[h[n - 1]]
    BY <2>2 DEF Iterates
  <2>4. \A n \in 1..N : /\ n - 1 \in 0..N
                       /\ h[n] = h[n - 1] \cup {g \in gs : parent[g] \in h[n - 1]}
    <3> HIDE DEF N
    <3>1. \A n \in 1..N : n - 1 \in 0..N BY <1>1
    <3>2. QED BY <2>3, <3>1
  <2>5. Is(h)
    <3> HIDE DEF N
    <3> QED BY <1>1, <2>3, <2>4
  <2>6. QED BY <2>5
<1>3. Is(down)
  <2> HIDE DEF Is
  <2> QED BY <1>2
<1>4. Below(f, gs) = down[N]
  BY DEF Below
<1> HIDE DEF down
<1>5. down[0] = {f}
  <2> HIDE DEF N
  <2> QED BY <1>1, <1>3
<1>6. \A n \in 0..(N - 1) : down[n + 1] = down[n] \cup {g \in gs : parent[g] \in down[n]}
  <2> HIDE DEF N
  <2> QED BY <1>1, <1>3
<1>7. down \in [0..N -> SUBSET Folders]
  <2> DEFINE Good == {n \in 0..N : down[n] \in SUBSET Folders}
  <2> HIDE DEF N
  <2>1. 0 \in Good
    BY <1>1, <1>5
  <2>2. \A n \in 0..(N - 1) : n \in Good => n + 1 \in Good
    BY <1>1, <1>6
  <2>3. \A n \in 0..N : n \in Good
    <3> HIDE DEF Good
    <3> QED BY <1>1, <2>1, <2>2, UpTo
  <2>4. QED BY <1>3, <2>3
<1>8. QED BY <1>4, <1>5, <1>6, <1>7

LEMMA BelowTyped ==
    ASSUME NEW f \in Folders, NEW gs \in SUBSET Folders
    PROVE  Below(f, gs) \in SUBSET Folders
<1>1. Cardinality(Folders) \in 0..Cardinality(Folders)
  BY LibraryAssumption, FS_CardinalityType
<1>2. QED BY <1>1, BelowSteps

LEMMA PathSteps ==
    ASSUME NEW f \in Folders, NEW par \in [Folders -> FolderOrNone]
    PROVE  \E up \in [0..Cardinality(Folders) -> Seq(Folders) \ {<<>>}] :
             /\ up[0] = <<f>>
             /\ \A n \in 0..(Cardinality(Folders) - 1) :
                  up[n + 1] = IF par[up[n][1]] = NoFolder THEN up[n]
                              ELSE <<par[up[n][1]]>> \o up[n]
             /\ Path(par, f) = up[Cardinality(Folders)]
<1> DEFINE N == Cardinality(Folders)
           Paths == Seq(Folders) \ {<<>>}
           Up(path) == IF par[path[1]] = NoFolder THEN path ELSE <<par[path[1]]>> \o path
           step == [path \in Paths |-> Up(path)]
           Is(h) == h = [n \in 0..N |->
                           IF n = 0 THEN <<f>>
                           ELSE LET path == h[n - 1]
                                    above == par[path[1]]
                                IN IF above = NoFolder THEN path ELSE <<above>> \o path]
           up == CHOOSE h : Is(h)
<1>1. N \in Nat
  BY LibraryAssumption, FS_CardinalityType
<1>2. <<f>> \in Paths
  OBVIOUS
<1>3. ASSUME NEW path \in Paths PROVE Up(path) \in Paths
  <2>1. path[1] \in Folders
    OBVIOUS
  <2>2. par[path[1]] \in Folders \/ par[path[1]] = NoFolder
    BY <2>1 DEF FolderOrNone
  <2>3. CASE par[path[1]] = NoFolder BY <2>3
  <2>4. CASE par[path[1]] \in Folders /\ par[path[1]] # NoFolder
    <3>1. <<par[path[1]]>> \o path \in Seq(Folders)
      BY <2>4
    <3>2. Len(<<par[path[1]]>> \o path) = 1 + Len(path)
      BY <2>4
    <3>3. QED BY <2>4, <3>1, <3>2
  <2>5. QED BY <2>2, <2>3, <2>4
<1>4. \E h : Is(h)
  <2> DEFINE bottom == <<f>>
  <2>1. step \in [Paths -> Paths] /\ bottom \in Paths
    <3> HIDE DEF Paths, Up
    <3> QED BY <1>2, <1>3
  <2>2. PICK h : Iterates(h, N, Paths, bottom, step)
    <3> HIDE DEF N, step, Paths, bottom
    <3> QED BY <1>1, <2>1, IteratesExist
  <2>3. h \in [0..N -> Paths] /\ h[0] = bottom /\ \A n \in 1..N : h[n] = step[h[n - 1]]
    BY <2>2 DEF Iterates
  <2>4. \A n \in 1..N : h[n] = Up(h[n - 1])
    <3> HIDE DEF N, Paths, Up
    <3>1. \A n \in 1..N : n - 1 \in 0..N BY <1>1
    <3>2. QED BY <2>3, <3>1
  <2>5. h = [n \in 0..N |-> IF n = 0 THEN <<f>> ELSE Up(h[n - 1])]
    <3> HIDE DEF N, step, Paths, Up
    <3>1. \A n \in 0..N : n # 0 => n \in 1..N BY <1>1
    <3>2. \A n \in 0..N : h[n] = IF n = 0 THEN <<f>> ELSE Up(h[n - 1]) BY <2>3, <2>4, <3>1
    <3>3. QED BY <2>3, <3>2
  <2>6. Is(h)
    BY <2>5
  <2>7. QED BY <2>6
<1>5. Is(up)
  <2> HIDE DEF Is
  <2> QED BY <1>4
<1>6. Path(par, f) = up[N]
  BY DEF Path
<1> HIDE DEF up
<1>7. up[0] = <<f>>
  <2> HIDE DEF N
  <2> QED BY <1>1, <1>5
<1>8. ASSUME NEW n \in 0..(N - 1) PROVE up[n + 1] = Up(up[n])
  <2>1. n + 1 \in 0..N /\ n + 1 # 0 /\ (n + 1) - 1 = n
    <3> HIDE DEF N
    <3> QED BY <1>1
  <2>2. \A m \in 0..N : m # 0 => up[m] = Up(up[m - 1])
    <3> HIDE DEF N
    <3> QED BY <1>5
  <2> HIDE DEF N, Up
  <2>3. QED BY <2>1, <2>2
<1>9. up \in [0..N -> Paths]
  <2> DEFINE Good == {n \in 0..N : up[n] \in Paths}
  <2> HIDE DEF N, Paths, Up
  <2>1. 0 \in Good
    BY <1>1, <1>2, <1>7
  <2>2. \A n \in 0..(N - 1) : n \in Good => n + 1 \in Good
    BY <1>1, <1>3, <1>8
  <2>3. \A n \in 0..N : n \in Good
    <3> HIDE DEF Good
    <3> QED BY <1>1, <2>1, <2>2, UpTo
  <2>4. QED BY <1>5, <2>3
<1>10. QED BY <1>6, <1>7, <1>8, <1>9

LEMMA PathTyped ==
    ASSUME NEW f \in Folders, NEW par \in [Folders -> FolderOrNone]
    PROVE  Path(par, f) \in Seq(Folders) /\ Path(par, f) # <<>>
<1>1. Cardinality(Folders) \in 0..Cardinality(Folders)
  BY LibraryAssumption, FS_CardinalityType
<1>2. QED BY <1>1, PathSteps

----------------------------------------------------------------------------
(* Forests.                                                                *)

LEMMA ForestStep ==
    ASSUME NEW par, NEW fs, NEW c, Forest(par, fs, c), NEW f \in fs
    PROVE  /\ Len(c[f]) \in Nat \ {0} /\ c[f] \in Seq(Folders) /\ f \in Folders
           /\ c[f][Len(c[f])] = f
           /\ par[f] = NoFolder => c[f] = <<f>> /\ Len(c[f]) = 1 /\ c[f][1] = f
           /\ par[f] # NoFolder =>
                /\ par[f] \in fs /\ c[f] = Append(c[par[f]], f)
                /\ Len(c[f]) = Len(c[par[f]]) + 1
                /\ \A i \in 1..Len(c[par[f]]) : c[f][i] = c[par[f]][i]
<1>1. f \in Folders /\ c[f] \in Seq(Folders)
  BY DEF Forest
<1>2. CASE par[f] = NoFolder /\ c[f] = <<f>>
  BY <1>1, <1>2
<1>3. CASE par[f] \in fs /\ c[f] = Append(c[par[f]], f)
  <2>1. c[par[f]] \in Seq(Folders) /\ par[f] # NoFolder
    BY <1>3, LibraryAssumption DEF Forest
  <2>2. QED BY <1>1, <1>3, <2>1
<1>4. QED BY <1>2, <1>3 DEF Forest

\* The beginnings of a path are the paths of the folders on it.
LEMMA PathPrefix ==
    ASSUME NEW par, NEW fs, NEW c, Forest(par, fs, c), NEW f1 \in fs, NEW k \in 1..Len(c[f1])
    PROVE  /\ c[f1][k] \in fs /\ Len(c[c[f1][k]]) = k
           /\ \A j \in 1..k : c[c[f1][k]][j] = c[f1][j]
<1> DEFINE Good(f) == \A i \in 1..Len(c[f]) :
                        /\ c[f][i] \in fs /\ Len(c[c[f][i]]) = i
                        /\ \A j \in 1..i : c[c[f][i]][j] = c[f][j]
           Bad == {n \in Nat : \E f \in fs : Len(c[f]) = n /\ ~Good(f)}
<1> SUFFICES ASSUME ~Good(f1) PROVE FALSE
  OBVIOUS
<1>1. Len(c[f1]) \in Bad
  BY ForestStep
<1>2. PICK n \in Bad : \A m \in Bad : n <= m
  <2> HIDE DEF Bad
  <2>1. Bad \in SUBSET Nat BY DEF Bad
  <2>2. QED BY <1>1, <2>1, Least
<1>3. PICK f \in fs : Len(c[f]) = n /\ ~Good(f)
  OBVIOUS
<1>4. CASE par[f] = NoFolder
  <2>1. c[f] = <<f>> /\ Len(c[f]) = 1 /\ c[f][1] = f
    BY <1>4, ForestStep
  <2>2. ASSUME NEW i \in 1..Len(c[f])
        PROVE  /\ c[f][i] \in fs /\ Len(c[c[f][i]]) = i
               /\ \A j \in 1..i : c[c[f][i]][j] = c[f][j]
    <3>1. i = 1 BY <2>1
    <3>2. QED BY <2>1, <3>1
  <2>3. QED BY <1>3, <2>2
<1>5. CASE par[f] # NoFolder
  <2> DEFINE p == par[f]
  <2>1. /\ p \in fs /\ Len(c[f]) = Len(c[p]) + 1 /\ Len(c[p]) \in Nat
        /\ \A i \in 1..Len(c[p]) : c[f][i] = c[p][i]
        /\ c[f][Len(c[f])] = f
    BY <1>5, ForestStep
  <2>2. Good(p)
    <3>1. ~(n <= Len(c[p])) BY <1>3, <2>1
    <3>2. Len(c[p]) \notin Bad BY <1>2, <3>1
    <3>3. QED BY <2>1, <3>2
  <2>3. ASSUME NEW i \in 1..Len(c[f])
        PROVE  /\ c[f][i] \in fs /\ Len(c[c[f][i]]) = i
               /\ \A j \in 1..i : c[c[f][i]][j] = c[f][j]
    <3>1. CASE i = Len(c[f]) BY <2>1, <3>1
    <3>2. CASE i \in 1..Len(c[p])
      <4>1. c[f][i] = c[p][i] /\ \A j \in 1..i : c[f][j] = c[p][j] BY <2>1, <3>2
      <4>2. QED BY <2>2, <3>2, <4>1
    <3>3. QED BY <2>1, <3>1, <3>2
  <2>4. QED BY <1>3, <2>3
<1> QED BY <1>4, <1>5

LEMMA DistinctBounded ==
    ASSUME NEW n \in Nat, NEW S, IsFiniteSet(S), NEW s \in [1..n -> S],
           \A i, j \in 1..n : s[i] = s[j] => i = j
    PROVE  n <= Cardinality(S)
<1>1. s \in Injection(1..n, S)
  BY Fun_IsInj
<1>2. Cardinality(1..n) = n
  BY FS_Interval
<1>3. QED BY <1>1, <1>2, FS_Injection

\* No folder is twice on a path, so that no path is longer than there are folders.
LEMMA PathsBounded ==
    ASSUME NEW par, NEW fs, NEW c, Forest(par, fs, c), NEW f \in fs
    PROVE  Len(c[f]) <= Cardinality(Folders)
<1>1. PICK s, n : s = c[f] /\ n = Len(c[f])
  OBVIOUS
<1>2. n \in Nat /\ s \in [1..n -> Folders]
  BY <1>1, ForestStep
<1>3. \A i \in 1..n : Len(c[s[i]]) = i
  BY <1>1, PathPrefix
<1>4. \A i, j \in 1..n : s[i] = s[j] => i = j
  BY <1>3
<1>5. n <= Cardinality(Folders)
  BY <1>2, <1>4, LibraryAssumption, DistinctBounded
<1>6. QED BY <1>1, <1>5

\* The folder before another one on a path is its parent.
LEMMA ParentsOnPath ==
    ASSUME NEW par, NEW fs, NEW c, Forest(par, fs, c), NEW f \in fs, NEW i \in 1..Len(c[f])
    PROVE  par[c[f][i]] = IF i = 1 THEN NoFolder ELSE c[f][i - 1]
<1>1. PICK g \in fs : /\ g = c[f][i] /\ Len(c[g]) = i
                      /\ \A j \in 1..i : c[g][j] = c[f][j]
  BY PathPrefix
<1> Len(c[f]) \in Nat
  BY ForestStep
<1>2. CASE par[g] = NoFolder
  <2>1. Len(c[g]) = 1 BY <1>2, ForestStep
  <2>2. QED BY <1>1, <1>2, <2>1
<1>3. CASE par[g] # NoFolder
  <2>1. PICK p \in fs : /\ p = par[g] /\ Len(c[g]) = Len(c[p]) + 1
                        /\ \A j \in 1..Len(c[p]) : c[g][j] = c[p][j]
    BY <1>3, ForestStep
  <2>2. PICK k \in Nat \ {0} : k = Len(c[p]) /\ c[p][k] = p
    BY ForestStep
  <2>3. i = k + 1 BY <1>1, <2>1, <2>2
  <2>4. k \in 1..i /\ k \in 1..k /\ i # 1 /\ i - 1 = k BY <2>3
  <2>5. c[f][k] = p BY <1>1, <2>1, <2>2, <2>4
  <2>6. QED BY <1>1, <1>3, <2>1, <2>4, <2>5
<1>4. QED BY <1>2, <1>3

\* In a forest, Path finds the path.
LEMMA PathMeans ==
    ASSUME NEW par \in [Folders -> FolderOrNone], NEW fs, NEW c, Forest(par, fs, c),
           NEW f \in fs
    PROVE  Path(par, f) = c[f]
<1> DEFINE N == Cardinality(Folders)
<1>1. PICK s, L : s = c[f] /\ L = Len(c[f])
  OBVIOUS
<1>2. /\ L \in Nat \ {0} /\ L <= N /\ N \in Nat /\ s \in Seq(Folders) /\ Len(s) = L
      /\ s[L] = f /\ f \in Folders
  BY <1>1, ForestStep, PathsBounded, LibraryAssumption, FS_CardinalityType
<1>3. \A i \in 1..L : par[s[i]] = IF i = 1 THEN NoFolder ELSE s[i - 1]
  BY <1>1, ParentsOnPath
<1>4. \A i \in 1..L : s[i] \in Folders
  BY <1>2
<1>5. PICK up \in [0..N -> Seq(Folders) \ {<<>>}] :
        /\ up[0] = <<f>>
        /\ \A n \in 0..(N - 1) : up[n + 1] = IF par[up[n][1]] = NoFolder THEN up[n]
                                            ELSE <<par[up[n][1]]>> \o up[n]
        /\ Path(par, f) = up[N]
  BY <1>2, PathSteps
<1> DEFINE Is(t, m) == Len(t) = m /\ \A j \in 1..m : t[j] = s[L - m + j]
           Reach(n) == IF n + 1 <= L THEN n + 1 ELSE L
           Good == {n \in 0..N : Is(up[n], Reach(n))}
<1> HIDE DEF N
<1>6. 0 \in Good
  <2>1. Reach(0) = 1 BY <1>2
  <2>2. Is(<<f>>, 1) BY <1>2
  <2>3. up[0] = <<f>> /\ 0 \in 0..N BY <1>2, <1>5
  <2> HIDE DEF Is, Reach
  <2>4. QED BY <2>1, <2>2, <2>3
<1>7. ASSUME NEW n \in 0..(N - 1), n \in Good PROVE n + 1 \in Good
  <2>1. n + 1 \in 0..N /\ n \in 0..N /\ n \in Nat BY <1>2
  <2>2. PICK t \in Seq(Folders) \ {<<>>} : t = up[n]
    BY <1>5, <2>1
  <2>3. PICK m \in 1..L : m = Reach(n)
    BY <1>2, <2>1
  <2>4. Len(t) = m /\ \A j \in 1..m : t[j] = s[L - m + j]
    BY <1>7, <2>2, <2>3
  <2>5. t[1] = s[L - m + 1] /\ L - m + 1 \in 1..L
    BY <1>2, <2>3, <2>4
  <2>6. CASE m = L
    <3>1. par[t[1]] = NoFolder BY <1>2, <1>3, <2>5, <2>6
    <3>2. up[n + 1] = t BY <1>5, <2>2, <3>1
    <3>3. Reach(n + 1) = m BY <1>2, <2>1, <2>3, <2>6
    <3>4. Is(t, m) BY <2>4
    <3>5. QED BY <2>1, <3>2, <3>3, <3>4
  <2>7. CASE m # L
    <3>1. m + 1 \in 1..L /\ L - m \in 1..L /\ L - m + 1 # 1 /\ (L - m + 1) - 1 = L - m
      BY <1>2, <2>3, <2>7
    <3>2. PICK g \in Folders : g = s[L - m] /\ par[t[1]] = g
      BY <1>3, <1>4, <2>5, <3>1
    <3>3. up[n + 1] = <<g>> \o t
      BY <1>5, <2>2, <3>2, LibraryAssumption
    <3>4. Is(<<g>> \o t, m + 1)
      <4>1. Len(<<g>> \o t) = m + 1 BY <2>3, <2>4, <1>2
      <4>2. ASSUME NEW j \in 1..(m + 1) PROVE (<<g>> \o t)[j] = s[L - (m + 1) + j]
        <5>1. CASE j = 1
          <6>1. L - (m + 1) + 1 = L - m BY <1>2, <2>3
          <6>2. (<<g>> \o t)[1] = g BY <2>4
          <6>3. QED BY <3>2, <5>1, <6>1, <6>2
        <5>2. CASE j # 1
          <6>1. j - 1 \in 1..m /\ L - (m + 1) + j = L - m + (j - 1) BY <1>2, <2>3, <5>2
          <6>2. (<<g>> \o t)[j] = t[j - 1] BY <1>2, <2>3, <2>4, <6>1
          <6>3. t[j - 1] = s[L - m + (j - 1)] BY <2>4, <6>1
          <6>4. QED BY <6>1, <6>2, <6>3
        <5>3. QED BY <5>1, <5>2
      <4>3. QED BY <4>1, <4>2
    <3>5. Reach(n + 1) = m + 1 BY <1>2, <2>1, <2>3, <2>7
    <3>6. QED BY <2>1, <3>3, <3>4, <3>5
  <2>8. QED BY <2>6, <2>7
<1>8. N \in Good
  <2> HIDE DEF Good
  <2>1. N \in 0..N BY <1>2
  <2>2. QED BY <1>2, <1>6, <1>7, <2>1, UpTo
<1>9. Is(up[N], L)
  <2>1. Reach(N) = L BY <1>2
  <2>2. QED BY <1>8, <2>1
<1>10. up[N] \in Seq(Folders)
  <2>1. N \in 0..N BY <1>2
  <2>2. QED BY <1>5, <2>1
<1>11. \A j \in 1..L : up[N][j] = s[j]
  <2>1. \A j \in 1..L : L - L + j = j BY <1>2
  <2>2. QED BY <1>9, <2>1
<1>12. up[N] = s
  BY <1>2, <1>9, <1>10, <1>11
<1>13. QED BY <1>1, <1>5, <1>12

\* Who is below whom, by paths.
LEMMA OnPathMeans ==
    ASSUME NEW par, NEW fs, NEW c, Forest(par, fs, c), NEW f \in fs, NEW g \in fs,
           OnPath(c, f, g)
    PROVE  /\ Len(c[f]) <= Len(c[g])
           /\ \A i \in 1..Len(c[f]) : c[g][i] = c[f][i]
           /\ Len(c[f]) = Len(c[g]) => f = g
<1>1. PICK i \in 1..Len(c[g]) : c[g][i] = f
  BY DEF OnPath
<1>2. Len(c[f]) = i /\ \A j \in 1..i : c[f][j] = c[g][j]
  BY <1>1, PathPrefix
<1>3. c[g][Len(c[g])] = g /\ Len(c[g]) \in Nat
  BY ForestStep
<1>4. QED BY <1>1, <1>2, <1>3

LEMMA OnPathOfParent ==
    ASSUME NEW par, NEW fs, NEW c, Forest(par, fs, c), NEW f \in fs, NEW g \in fs
    PROVE  OnPath(c, f, g) <=> (f = g \/ (par[g] # NoFolder /\ OnPath(c, f, par[g])))
<1>1. Len(c[g]) \in Nat \ {0} /\ c[g][Len(c[g])] = g
  BY ForestStep
<1>2. CASE par[g] = NoFolder
  <2>1. Len(c[g]) = 1 /\ c[g][1] = g BY <1>2, ForestStep
  <2>2. \A i \in 1..Len(c[g]) : i = 1 BY <2>1
  <2>3. 1 \in 1..Len(c[g]) BY <2>1
  <2>4. OnPath(c, f, g) <=> f = g BY <2>1, <2>2, <2>3 DEF OnPath
  <2>5. QED BY <1>2, <2>4
<1>3. CASE par[g] # NoFolder
  <2>1. PICK p \in fs : /\ p = par[g] /\ Len(c[g]) = Len(c[p]) + 1
                        /\ \A j \in 1..Len(c[p]) : c[g][j] = c[p][j]
    BY <1>3, ForestStep
  <2>2. Len(c[p]) \in Nat BY ForestStep
  <2>3. \A i \in 1..Len(c[g]) : i = Len(c[g]) \/ i \in 1..Len(c[p])
    BY <1>1, <2>1, <2>2
  <2>4. \A i \in 1..Len(c[p]) : i \in 1..Len(c[g])
    BY <1>1, <2>1, <2>2
  <2>5. Len(c[g]) \in 1..Len(c[g]) BY <1>1
  <2>6. ASSUME OnPath(c, f, g) PROVE f = g \/ OnPath(c, f, p)
    <3>1. PICK i \in 1..Len(c[g]) : c[g][i] = f BY <2>6 DEF OnPath
    <3>2. CASE i = Len(c[g]) BY <1>1, <3>1, <3>2
    <3>3. CASE i \in 1..Len(c[p]) BY <2>1, <3>1, <3>3 DEF OnPath
    <3>4. QED BY <2>3, <3>2, <3>3
  <2>7. ASSUME f = g \/ OnPath(c, f, p) PROVE OnPath(c, f, g)
    <3>1. CASE f = g BY <1>1, <2>5, <3>1 DEF OnPath
    <3>2. CASE OnPath(c, f, p)
      <4>1. PICK i \in 1..Len(c[p]) : c[p][i] = f BY <3>2 DEF OnPath
      <4>2. QED BY <2>1, <2>4, <4>1 DEF OnPath
    <3>3. QED BY <2>7, <3>1, <3>2
  <2>8. QED BY <1>3, <2>1, <2>6, <2>7
<1>4. QED BY <1>2, <1>3

LEMMA UnderTyped ==
    ASSUME Forest(parent, folders, cached_path), NEW f \in folders
    PROVE  /\ f \in Under(f) /\ Under(f) \subseteq folders /\ f \in Folders
           /\ \A g \in Under(f) : g # f => parent[g] \in Under(f)
           /\ \A g \in folders : parent[g] \in Under(f) => g \in Under(f)
<1>1. f \in Folders /\ folders \subseteq Folders
  BY DEF Forest
<1>2. f \in Under(f)
  BY OnPathOfParent DEF Under
<1>3. ASSUME NEW g \in Under(f), g # f PROVE parent[g] \in Under(f)
  <2>1. g \in folders /\ OnPath(cached_path, f, g) BY DEF Under
  <2>2. parent[g] # NoFolder /\ OnPath(cached_path, f, parent[g]) BY <1>3, <2>1, OnPathOfParent
  <2>3. parent[g] \in folders BY <2>1, <2>2, ForestStep
  <2>4. QED BY <2>2, <2>3 DEF Under
<1>4. ASSUME NEW g \in folders, parent[g] \in Under(f) PROVE g \in Under(f)
  <2>1. parent[g] \in folders /\ OnPath(cached_path, f, parent[g]) BY <1>4 DEF Under
  <2>2. parent[g] # NoFolder BY <1>1, <2>1, LibraryAssumption
  <2>3. OnPath(cached_path, f, g) BY <2>1, <2>2, OnPathOfParent
  <2>4. QED BY <2>3 DEF Under
<1>5. Under(f) \subseteq folders
  BY DEF Under
<1>6. QED BY <1>1, <1>2, <1>3, <1>4, <1>5

\* In a forest, Below finds what is below.
LEMMA BelowMeans ==
    ASSUME Forest(parent, folders, cached_path), NEW f \in folders,
           NEW gs \in SUBSET folders, Under(f) \subseteq gs
    PROVE  Below(f, gs) = Under(f)
<1> DEFINE N == Cardinality(Folders)
           L == Len(cached_path[f])
           D(g) == Len(cached_path[g])
<1>1. gs \in SUBSET Folders /\ f \in Folders /\ N \in Nat /\ L \in Nat
  BY LibraryAssumption, FS_CardinalityType, ForestStep DEF Forest
<1>2. PICK down \in [0..N -> SUBSET Folders] :
        /\ down[0] = {f}
        /\ \A n \in 0..(N - 1) : down[n + 1] = down[n] \cup {g \in gs : parent[g] \in down[n]}
        /\ Below(f, gs) = down[N]
  BY <1>1, BelowSteps
<1>3. \A g \in folders : D(g) \in Nat /\ D(g) <= N
  BY ForestStep, PathsBounded
<1>4. \A g \in Under(f) : g # f => parent[g] \in Under(f) /\ D(g) = D(parent[g]) + 1
  <2>1. \A g \in folders : parent[g] \in folders => parent[g] # NoFolder
    BY LibraryAssumption DEF Forest
  <2>2. QED BY <2>1, UnderTyped, ForestStep
<1>5. \A g \in Under(f) : D(g) <= L => g = f
  <2>1. \A g \in Under(f) : g \in folders /\ OnPath(cached_path, f, g)
    BY DEF Under
  <2>2. \A g \in Under(f) : L <= D(g) /\ (L = D(g) => f = g)
    BY <2>1, OnPathMeans
  <2>3. QED BY <1>1, <1>3, <2>1, <2>2
<1> DEFINE Good == {n \in 0..N : /\ down[n] \subseteq Under(f)
                                 /\ \A g \in Under(f) : D(g) <= L + n => g \in down[n]}
<1> HIDE DEF N, L, D
<1>6. 0 \in Good
  <2>1. f \in Under(f) BY UnderTyped
  <2>2. QED BY <1>1, <1>2, <1>5, <2>1
<1>7. ASSUME NEW n \in 0..(N - 1), n \in Good PROVE n + 1 \in Good
  <2>1. n \in 0..N /\ n + 1 \in 0..N /\ n \in Nat BY <1>1
  <2>2. down[n + 1] = down[n] \cup {g \in gs : parent[g] \in down[n]} BY <1>2
  <2>3. down[n] \subseteq Under(f) /\ \A g \in Under(f) : D(g) <= L + n => g \in down[n]
    BY <1>7
  <2>4. down[n + 1] \subseteq Under(f)
    BY <2>2, <2>3, UnderTyped
  <2>5. ASSUME NEW g \in Under(f), D(g) <= L + (n + 1) PROVE g \in down[n + 1]
    <3>1. CASE g = f
      <4>1. f \in Under(f) /\ D(f) <= L + n BY <1>1, <1>3, <2>1, UnderTyped DEF L, D
      <4>2. QED BY <2>2, <2>3, <3>1, <4>1
    <3>2. CASE g # f
      <4>1. parent[g] \in Under(f) /\ D(g) = D(parent[g]) + 1 BY <1>4, <3>2
      <4>2. D(g) \in Nat /\ D(parent[g]) \in Nat BY <1>3, <4>1, UnderTyped
      <4>3. D(parent[g]) <= L + n BY <1>1, <2>1, <2>5, <4>1, <4>2
      <4>4. parent[g] \in down[n] BY <2>3, <4>1, <4>3
      <4>5. QED BY <2>2, <4>4
    <3>3. QED BY <3>1, <3>2
  <2>6. QED BY <2>1, <2>4, <2>5
<1>8. N \in Good
  <2> HIDE DEF Good
  <2>1. N \in 0..N BY <1>1
  <2>2. QED BY <1>1, <1>6, <1>7, <2>1, UpTo
<1>9. Under(f) \subseteq down[N]
  <2>1. \A g \in Under(f) : D(g) <= L + N BY <1>1, <1>3, UnderTyped
  <2>2. QED BY <1>8, <2>1
<1>10. QED BY <1>2, <1>8, <1>9 DEF N

----------------------------------------------------------------------------
(* The trees of the folders.                                               *)

LEMMA RootMeans ==
    ASSUME Trees, NEW f \in folders
    PROVE  /\ tree_root[f] \in Roots /\ tree_root[f] \in folders /\ f \in Folders
           /\ tree_root[f] = cached_path[f][1] /\ owner[f] = owner[tree_root[f]]
           /\ f \in Roots => tree_root[f] = f
           /\ f \notin Roots => /\ parent[f] \in folders
                                /\ tree_root[parent[f]] = tree_root[f]
                                /\ owner[parent[f]] = owner[f]
<1>1. Forest(parent, folders, cached_path)
  BY DEF Trees
<1>2. tree_root[f] = cached_path[f][1] /\ owner[f] = owner[tree_root[f]] /\ f \in Folders
  BY <1>1 DEF Trees, Forest
<1>3. 1 \in 1..Len(cached_path[f])
  BY <1>1, ForestStep
<1>4. cached_path[f][1] \in folders /\ parent[cached_path[f][1]] = NoFolder
  BY <1>1, <1>3, PathPrefix, ParentsOnPath
<1>5. tree_root[f] \in Roots
  BY <1>2, <1>4 DEF Trees
<1>6. ASSUME f \in Roots PROVE tree_root[f] = f
  <2>1. parent[f] = NoFolder BY <1>6 DEF Trees
  <2>2. cached_path[f][1] = f BY <1>1, <2>1, ForestStep
  <2>3. QED BY <1>2, <2>2
<1>7. ASSUME f \notin Roots
      PROVE  /\ parent[f] \in folders
             /\ tree_root[parent[f]] = tree_root[f] /\ owner[parent[f]] = owner[f]
  <2>1. PICK p : p = parent[f] OBVIOUS
  <2>2. p # NoFolder BY <1>7, <2>1 DEF Trees
  <2>3. p \in folders BY <1>1, <2>1, <2>2, ForestStep
  <2>4. 1 \in 1..Len(cached_path[p]) BY <1>1, <2>3, ForestStep
  <2>5. cached_path[f][1] = cached_path[p][1] BY <1>1, <2>1, <2>2, <2>4, ForestStep
  <2>6. tree_root[p] = cached_path[p][1] /\ owner[p] = owner[tree_root[p]]
    BY <2>3 DEF Trees
  <2>7. QED BY <1>2, <2>1, <2>3, <2>5, <2>6
<1>8. QED BY <1>2, <1>4, <1>5, <1>6, <1>7

LEMMA UnderMeans ==
    ASSUME Trees, NEW f \in folders
    PROVE  /\ \A g \in Under(f) : tree_root[g] = tree_root[f] /\ owner[g] = owner[f]
           /\ Below(f, folders) = Under(f) /\ Subtree(f, tree_root[f]) = Under(f)
           /\ ~cached_has_children[f] => Under(f) = {f}
           /\ f \notin Roots => Under(f) \cap Roots = {}
<1>1. Forest(parent, folders, cached_path)
  BY DEF Trees
<1>2. ASSUME NEW g \in Under(f)
      PROVE  tree_root[g] = tree_root[f] /\ owner[g] = owner[f]
  <2>1. g \in folders /\ OnPath(cached_path, f, g) BY DEF Under
  <2>2. 1 \in 1..Len(cached_path[f]) BY <1>1, ForestStep
  <2>3. cached_path[g][1] = cached_path[f][1] BY <1>1, <2>1, <2>2, OnPathMeans
  <2>4. QED BY <2>1, <2>3 DEF Trees
<1>3. Below(f, folders) = Under(f)
  BY <1>1, BelowMeans DEF Under
<1>4. Subtree(f, tree_root[f]) = Under(f)
  <2> DEFINE gs == {g \in folders : tree_root[g] = tree_root[f]}
  <2>1. gs \in SUBSET folders OBVIOUS
  <2>2. Under(f) \subseteq gs BY <1>2 DEF Under
  <2>3. Below(f, gs) = Under(f)
    <3> HIDE DEF gs
    <3> QED BY <1>1, <2>1, <2>2, BelowMeans
  <2>4. f \in gs OBVIOUS
  <2>5. QED BY <2>3, <2>4 DEF Subtree
<1>5. ASSUME NEW g \in Under(f), g # f PROVE \E h \in Under(f) : h \in Children(parent, f)
  <2>1. g \in folders /\ OnPath(cached_path, f, g) BY DEF Under
  <2>2. PICK i \in 1..Len(cached_path[g]) : cached_path[g][i] = f BY <2>1 DEF OnPath
  <2>3. cached_path[g][Len(cached_path[g])] = g /\ Len(cached_path[g]) \in Nat
    BY <1>1, <2>1, ForestStep
  <2>4. PICK k \in 1..Len(cached_path[g]) : k = i + 1 /\ k # 1 /\ k - 1 = i
    BY <1>5, <2>2, <2>3
  <2>5. PICK h \in folders : h = cached_path[g][k] /\ parent[h] = f
    BY <1>1, <2>1, <2>2, <2>4, PathPrefix, ParentsOnPath
  <2>6. h \in Under(f) BY <1>1, <2>5, UnderTyped
  <2>7. QED BY <2>5, <2>6 DEF Children
<1>6. ASSUME ~cached_has_children[f] PROVE Under(f) = {f}
  <2>1. Children(parent, f) = {} BY <1>6 DEF Trees
  <2>2. QED BY <1>1, <1>5, <2>1, UnderTyped
<1>7. ASSUME f \notin Roots, NEW g \in Under(f), g \in Roots PROVE FALSE
  <2>1. g # f /\ g \in folders BY <1>7 DEF Under
  <2>2. parent[g] \in Under(f) /\ parent[g] = NoFolder BY <1>1, <1>7, <2>1, UnderTyped DEF Trees
  <2>3. QED BY <1>1, <2>2, UnderTyped, LibraryAssumption DEF Forest
<1>8. QED BY <1>2, <1>3, <1>4, <1>6, <1>7

\* The invariant implies what is checked of the trees.
LEMMA TreesImply ==
    ASSUME Inv PROVE LibraryInv
<1>1. TypeOK
  BY DEF Inv, Typed
<1>2. ASSUME ~past.unlocked, NEW f \in folders
      PROVE  /\ Top(f) \in Roots
             /\ tree_root[f] = Top(f)
             /\ owner[f] = owner[Top(f)]
             /\ cached_path[f] = Path(parent, f)
             /\ cached_has_children[f] = (Children(parent, f) # {})
  <2>1. Trees BY <1>2 DEF Inv, Serial
  <2>2. Path(parent, f) = cached_path[f]
    <3>1. parent \in [Folders -> FolderOrNone] BY <1>1 DEF TypeOK
    <3>2. Forest(parent, folders, cached_path) BY <2>1 DEF Trees
    <3>3. QED BY <3>1, <3>2, PathMeans
  <2>3. tree_root[f] \in Roots /\ tree_root[f] = cached_path[f][1] /\ owner[f] = owner[tree_root[f]]
    BY <2>1, RootMeans
  <2>4. cached_has_children[f] = (Children(parent, f) # {})
    BY <2>1 DEF Trees
  <2>5. QED BY <2>2, <2>3, <2>4 DEF Top
<1>3. QED BY <1>1, <1>2 DEF LibraryInv, TreesConsistent

----------------------------------------------------------------------------
(* Initial states.                                                         *)

LEMMA NoReqTyped == NoReq \in Request
<1>1. NoCounts \in [Owners -> Nat] /\ NoRegistrarCounts \in [Registrars -> Nat]
  BY DEF NoCounts, NoRegistrarCounts
<1>2. Personal \in Owners
  BY DEF Owners
<1>3. <<>> \in Seq(Folders)
  OBVIOUS
<1>4. NoRow \in Row
  BY <1>2, <1>3 DEF NoRow, Row, FolderOrNone
<1>5. QED
  BY <1>1, <1>2, <1>3, <1>4 DEF NoReq, Request, Stage, Kind, FolderOrNone

LEMMA InitTyped ==
    ASSUME Init PROVE Typed
<1> USE LibraryAssumption
<1>1. Roots \subseteq Folders /\ Start \subseteq Folders /\ Home \in Folders
  OBVIOUS
<1>2. TypeOK
  <2>1. folders \subseteq Folders /\ spent \subseteq Folders
    BY <1>1 DEF Init
  <2>2. parent \in [Folders -> FolderOrNone]
    BY <1>1 DEF Init, FolderOrNone
  <2>3. tree_root \in [Folders -> FolderOrNone]
    <3>1. tree_root = [f \in Folders |-> CASE f \in Roots -> f
                                         [] f \in Start -> Home
                                         [] OTHER -> NoFolder]
      BY DEF Init
    <3>2. QED BY <1>1, <3>1 DEF FolderOrNone
  <2>4. owner \in [Folders -> Owners]
    BY DEF Init
  <2>5. cached_path \in [Folders -> Seq(Folders)]
    <3>1. \A f \in Folders : /\ <<f>> \in Seq(Folders)
                             /\ <<Home, f>> \in Seq(Folders)
                             /\ <<>> \in Seq(Folders)
      BY <1>1
    <3>2. cached_path = [f \in Folders |-> CASE f \in Roots -> <<f>>
                                           [] f \in Start -> <<Home, f>>
                                           [] OTHER -> <<>>]
      BY DEF Init
    <3>3. QED BY <3>1, <3>2
  <2>6. cached_has_children \in [Folders -> BOOLEAN]
    BY DEF Init
  <2>7. place \in [Links -> SUBSET Folders]
    BY <1>1 DEF Init
  <2>8. organization \in [Links -> Orgs \cup {Personal}]
        /\ status \in [Links -> {"none", "live", "deleted"}]
    BY DEF Init
  <2>9. registrar \in [Orgs -> Registrars] /\ user_deleted \in [Orgs -> BOOLEAN]
    BY DEF Init
  <2>10. link_count \in [Owners -> Nat] /\ registrar_count \in [Registrars -> Nat]
    <3>1. Cardinality({l \in Links : place[l] # {}}) \in Nat
      BY FS_Subset, FS_CardinalityType
    <3>2. QED BY <3>1 DEF Init, NoCounts, NoRegistrarCounts
  <2>11. lock \in [Folders -> Requests \cup {NoRequest}]
    BY DEF Init
  <2>12. req \in [Requests -> Request]
    BY NoReqTyped DEF Init
  <2>13. made \in 0..MaxRequests
    BY DEF Init
  <2>14. past \in [unlocked: BOOLEAN, stale: BOOLEAN, swept: BOOLEAN, rows: SUBSET Tables]
    BY DEF Init
  <2>15. QED
    BY <2>1, <2>2, <2>3, <2>4, <2>5, <2>6, <2>7, <2>8, <2>9, <2>10, <2>11, <2>12, <2>13, <2>14
    DEF TypeOK
<1>3. ASSUME NEW r \in Requests PROVE Fits(req[r])
  <2>1. req[r] = NoReq BY DEF Init
  <2>2. req[r].stage = "idle" /\ req[r].kind = "none" BY <2>1 DEF NoReq
  <2>3. QED BY <2>1, <2>2 DEF Fits
<1>4. Rows
  <2>1. \A f \in folders \cup Roots : tree_root[f] \in Folders
    BY <1>1 DEF Init
  <2>2. \A f \in folders \ Roots : parent[f] \in Folders
    BY <1>1 DEF Init
  <2>3. \A l \in Links : place[l] \subseteq folders
    BY DEF Init
  <2>4. \A l \in Links : status[l] = "none" => place[l] = {} /\ organization[l] = Personal
    BY DEF Init
  <2>5. Roots \subseteq spent
    BY DEF Init
  <2>6. QED BY <2>1, <2>2, <2>3, <2>4, <2>5 DEF Rows, Init
<1>5. QED BY <1>2, <1>3, <1>4 DEF Typed

LEMMA InitSerial ==
    ASSUME Init, Typed PROVE Serial
<1> USE LibraryAssumption
<1>1. \A r \in Requests : req[r].kind = "none"
  BY DEF Init, NoReq
<1>2. Fresh
  BY <1>1 DEF Fresh
<1>3. Locked
  BY <1>1 DEF Locked, Init, NoLocks
<1>4. Trees
  <2>1. folders = Roots \cup Start /\ Roots \subseteq Folders /\ Start \subseteq Folders
    BY DEF Init
  <2>2. ASSUME NEW f \in folders
        PROVE  \/ f \in Roots /\ f \notin Start /\ parent[f] = NoFolder /\ cached_path[f] = <<f>>
                  /\ tree_root[f] = f
               \/ f \in Start /\ f \notin Roots /\ parent[f] = Home /\ cached_path[f] = <<Home, f>>
                  /\ tree_root[f] = Home /\ owner[f] = Personal /\ ~cached_has_children[f]
    <3>1. f \in Folders /\ (f \in Roots \/ f \in Start) /\ ~(f \in Roots /\ f \in Start)
      BY <2>1
    <3>2. CASE f \in Roots BY <3>1, <3>2 DEF Init
    <3>3. CASE f \in Start BY <3>1, <3>3 DEF Init
    <3>4. QED BY <3>1, <3>2, <3>3
  <2>3. Home \in Roots /\ Home \in Folders /\ owner[Home] = Personal
        /\ cached_path[Home] = <<Home>>
    BY DEF Init
  <2>4. Forest(parent, folders, cached_path)
    <3>1. cached_path \in [Folders -> Seq(Folders)] /\ folders \subseteq Folders
      BY DEF Typed, TypeOK
    <3>2. ASSUME NEW f \in Start PROVE <<Home, f>> = Append(<<Home>>, f)
      OBVIOUS
    <3>3. ASSUME NEW f \in folders
          PROVE  \/ parent[f] = NoFolder /\ cached_path[f] = <<f>>
                 \/ parent[f] \in folders /\ cached_path[f] = Append(cached_path[parent[f]], f)
      BY <2>1, <2>2, <2>3, <3>2
    <3>4. QED BY <3>1, <3>3 DEF Forest
  <2>5. ASSUME NEW f \in folders
        PROVE  /\ f \in Roots <=> parent[f] = NoFolder
               /\ tree_root[f] = cached_path[f][1]
               /\ owner[f] = owner[tree_root[f]]
               /\ cached_has_children[f] = (Children(parent, f) # {})
    <3>1. f \in Roots <=> parent[f] = NoFolder
      BY <2>1, <2>2, <2>3
    <3>2. tree_root[f] = cached_path[f][1] /\ owner[f] = owner[tree_root[f]]
      BY <2>2, <2>3
    <3>3. Children(parent, f) = IF f = Home THEN Start ELSE {}
      BY <2>1, <2>2, <2>3 DEF Children
    <3>4. cached_has_children[f] = (f = Home /\ Start # {})
      BY <2>1 DEF Init
    <3>5. QED BY <3>1, <3>2, <3>3, <3>4
  <2>6. \A f \in Folders \ spent : ~cached_has_children[f]
    BY DEF Init
  <2>7. QED BY <2>1, <2>4, <2>5, <2>6 DEF Trees
<1>5. \A r \in Requests : Guarded(r)
  BY <1>1 DEF Guarded
<1>6. QED BY <1>2, <1>3, <1>4, <1>5 DEF Serial

LEMMA InitLinks ==
    ASSUME Init, Typed PROVE LinksPlaced /\ Tallied /\ Picked
<1> USE LibraryAssumption
<1>1. ASSUME NEW l \in Live
      PROVE  \E f \in Start : place[l] = {f} /\ owner[f] = Personal /\ f \in folders
  <2>1. l \in Links /\ place[l] # {} BY DEF Live, Init
  <2>2. PICK f \in Start : place[l] = {f} BY <2>1 DEF Init
  <2>3. f \notin Roots /\ f \in Folders OBVIOUS
  <2>4. QED BY <2>2, <2>3 DEF Init
<1>2. \A l \in Live : organization[l] = Personal
  BY DEF Init, Live
<1>3. OrgOf(Personal) = Personal
  BY DEF OrgOf
<1>4. LinksPlaced
  BY <1>1, <1>2, <1>3 DEF LinksPlaced
<1>5. Live = {l \in Links : place[l] # {}}
  BY DEF Live, Init
<1>6. link_count[Personal] = Cardinality(Live) /\ \A o \in Owners \ {Personal} : link_count[o] = 0
  BY <1>5 DEF Init, NoCounts, Owners
<1>7. \A g \in Registrars : registrar_count[g] = 0
  BY DEF Init, NoRegistrarCounts
<1>8. Cardinality({}) = 0
  BY FS_EmptySet
<1>9. ASSUME NEW l \in Links
      PROVE  OrgKey[l] = Personal /\ RegistrarKey[l] = Personal /\ SponsorKey[l] = Personal
  <2>1. status[l] = "live" => OrgRow(organization[l]) = Personal /\ RegistrarOf(organization[l]) = Personal
    BY <1>2 DEF Live, OrgRow, RegistrarOf
  <2>2. ASSUME status[l] = "live" PROVE SponsoredBy(l) = Personal
    <3>1. PICK f : place[l] = {f} /\ owner[f] = Personal
      BY <1>1, <2>2 DEF Live
    <3>2. {owner[g] : g \in place[l]} \cap Sponsors = {}
      BY <3>1
    <3>3. QED BY <3>2 DEF SponsoredBy
  <2>3. QED BY <2>1, <2>2 DEF OrgKey, RegistrarKey, SponsorKey
<1>10. \A k : k # Personal => /\ With(OrgKey, k) = {} /\ With(RegistrarKey, k) = {}
                              /\ With(SponsorKey, k) = {}
  BY <1>9 DEF With
<1>11. ASSUME NEW k \in Orgs \cup Registrars
       PROVE  /\ k # Personal
              /\ Cardinality(With(OrgKey, k)) = 0 /\ Cardinality(With(RegistrarKey, k)) = 0
              /\ Cardinality(With(SponsorKey, k)) = 0
  BY <1>8, <1>10
<1>12. \A k \in Orgs \cup Sponsors : k \in Owners /\ link_count[k] = 0
  BY <1>6, <1>11 DEF Owners
<1>13. Tallied
  BY <1>6, <1>7, <1>11, <1>12 DEF Tallied, TalliedUser, TalliedOrgs, TalliedRegistrars, Tallies
<1>14. Picked
  BY DEF Picked, Init, NoReq
<1>15. QED BY <1>4, <1>13, <1>14

----------------------------------------------------------------------------
(* Types.                                                                  *)

LEMMA RequestTyped ==
    ASSUME Typed, NEW r \in Requests, NEW q \in Request, Fits(q), req' = [req EXCEPT ![r] = q]
    PROVE  req' \in [Requests -> Request] /\ \A s \in Requests : Fits(req[s])'
<1>1. req \in [Requests -> Request] /\ \A s \in Requests : Fits(req[s])
  BY DEF Typed, TypeOK
<1>2. \A s \in Requests : req'[s] = IF s = r THEN q ELSE req[s]
  BY <1>1
<1>3. \A s \in Requests : Fits(req'[s])
  BY <1>1, <1>2
<1>4. QED BY <1>1, <1>3

LEMMA NoReqFits == Fits(NoReq)
<1>1. NoReq.stage = "idle" /\ NoReq.kind = "none"
  BY DEF NoReq
<1>2. QED BY <1>1 DEF Fits

LEMMA EndTyped ==
    ASSUME Typed, NEW r \in Requests, End(r)
    PROVE  /\ req' \in [Requests -> Request] /\ \A s \in Requests : Fits(req[s])'
           /\ lock' \in [Folders -> Requests \cup {NoRequest}]
<1>1. req' = [req EXCEPT ![r] = NoReq] /\ Release(r)
  BY DEF End
<1>2. lock' \in [Folders -> Requests \cup {NoRequest}]
  BY <1>1 DEF Release, Typed, TypeOK
<1>3. QED BY <1>1, <1>2, NoReqTyped, NoReqFits, RequestTyped

Fields ==
    {"stage", "kind", "folder", "parent", "parent_root", "parent_owner", "link",
     "link_org", "todo", "subtree", "new_root", "new_owner", "old_owner", "row",
     "counts", "registrar_counts", "from", "to", "rows", "path", "copy"}

LEMMA FieldsMeans == DOMAIN NoReq = Fields
  BY DEF NoReq, Fields

\* What makes a record a Request.
LEMMA RequestMeans ==
    ASSUME NEW q, q = [x \in Fields |-> q[x]],
           q.stage \in Stage,
           q.kind \in Kind \cup {"none"},
           q.folder \in FolderOrNone,
           q.parent \in FolderOrNone,
           q.parent_root \in FolderOrNone,
           q.parent_owner \in Owners,
           q.link \in Links \cup {NoLink},
           q.link_org \in Owners,
           q.todo \in Seq(Folders),
           q.subtree \in SUBSET Folders,
           q.new_root \in FolderOrNone,
           q.new_owner \in Owners,
           q.old_owner \in Owners,
           q.row \in Orgs \cup Registrars \cup Tables \cup {Personal},
           q.counts \in [Owners -> Nat],
           q.registrar_counts \in [Registrars -> Nat],
           q.from \in Registrars \cup {Personal},
           q.to \in Registrars \cup {Personal},
           q.rows \in SUBSET (Owners \cup Registrars),
           q.path \in Seq(Folders),
           q.copy \in Row
    PROVE  q \in Request
<1> DEFINE s == [stage |-> q.stage, kind |-> q.kind, folder |-> q.folder,
                  parent |-> q.parent, parent_root |-> q.parent_root,
                  parent_owner |-> q.parent_owner, link |-> q.link,
                  link_org |-> q.link_org, todo |-> q.todo, subtree |-> q.subtree,
                  new_root |-> q.new_root, new_owner |-> q.new_owner,
                  old_owner |-> q.old_owner, row |-> q.row, counts |-> q.counts,
                  registrar_counts |-> q.registrar_counts, from |-> q.from, to |-> q.to,
                  rows |-> q.rows, path |-> q.path, copy |-> q.copy]
<1>1. DOMAIN q = Fields
  OBVIOUS
<1>2. DOMAIN s = Fields
  BY SMT DEF Fields
<1>3. \A x \in Fields : s[x] = q[x]
  BY SMT DEF Fields
<1>4. s = [x \in Fields |-> s[x]]
  BY <1>2
<1> HIDE DEF s
<1>5. [x \in Fields |-> s[x]] = [x \in Fields |-> q[x]]
  BY <1>3
<1>6. q = s
  BY <1>4, <1>5
<1>7. QED
  BY <1>6 DEF s, Request

\* A request is loaded with the fields that are named, over those of NoReq.
Loaded(fields) == [x \in DOMAIN NoReq |-> IF x \in DOMAIN fields THEN fields[x] ELSE NoReq[x]]

LEMMA LoadedMeans ==
    ASSUME NEW fields, NEW x \in Fields
    PROVE  Loaded(fields)[x] = IF x \in DOMAIN fields THEN fields[x] ELSE NoReq[x]
  BY FieldsMeans DEF Loaded

LEMMA LoadedTyped ==
    ASSUME NEW fields,
           "stage" \in DOMAIN fields => fields.stage \in Stage,
           "kind" \in DOMAIN fields => fields.kind \in Kind \cup {"none"},
           "folder" \in DOMAIN fields => fields.folder \in FolderOrNone,
           "parent" \in DOMAIN fields => fields.parent \in FolderOrNone,
           "parent_root" \in DOMAIN fields => fields.parent_root \in FolderOrNone,
           "parent_owner" \in DOMAIN fields => fields.parent_owner \in Owners,
           "link" \in DOMAIN fields => fields.link \in Links \cup {NoLink},
           "link_org" \in DOMAIN fields => fields.link_org \in Owners,
           "todo" \in DOMAIN fields => fields.todo \in Seq(Folders),
           "subtree" \in DOMAIN fields => fields.subtree \in SUBSET Folders,
           "new_root" \in DOMAIN fields => fields.new_root \in FolderOrNone,
           "new_owner" \in DOMAIN fields => fields.new_owner \in Owners,
           "old_owner" \in DOMAIN fields => fields.old_owner \in Owners,
           "row" \in DOMAIN fields => fields.row \in Orgs \cup Registrars \cup Tables \cup {Personal},
           "counts" \in DOMAIN fields => fields.counts \in [Owners -> Nat],
           "registrar_counts" \in DOMAIN fields => fields.registrar_counts \in [Registrars -> Nat],
           "from" \in DOMAIN fields => fields.from \in Registrars \cup {Personal},
           "to" \in DOMAIN fields => fields.to \in Registrars \cup {Personal},
           "rows" \in DOMAIN fields => fields.rows \in SUBSET (Owners \cup Registrars),
           "path" \in DOMAIN fields => fields.path \in Seq(Folders),
           "copy" \in DOMAIN fields => fields.copy \in Row
    PROVE  Loaded(fields) \in Request
<1> DEFINE q == Loaded(fields)
<1> q = [x \in Fields |-> q[x]]
  BY FieldsMeans DEF Loaded
<1>1. q.stage \in Stage
  <2>1. NoReq.stage \in Stage BY NoReqTyped DEF Request
  <2>2. QED BY LoadedMeans, <2>1 DEF Fields
<1>2. q.kind \in Kind \cup {"none"}
  <2>1. NoReq.kind \in Kind \cup {"none"} BY NoReqTyped DEF Request
  <2>2. QED BY LoadedMeans, <2>1 DEF Fields
<1>3. q.folder \in FolderOrNone
  <2>1. NoReq.folder \in FolderOrNone BY NoReqTyped DEF Request
  <2>2. QED BY LoadedMeans, <2>1 DEF Fields
<1>4. q.parent \in FolderOrNone
  <2>1. NoReq.parent \in FolderOrNone BY NoReqTyped DEF Request
  <2>2. QED BY LoadedMeans, <2>1 DEF Fields
<1>5. q.parent_root \in FolderOrNone
  <2>1. NoReq.parent_root \in FolderOrNone BY NoReqTyped DEF Request
  <2>2. QED BY LoadedMeans, <2>1 DEF Fields
<1>6. q.parent_owner \in Owners
  <2>1. NoReq.parent_owner \in Owners BY NoReqTyped DEF Request
  <2>2. QED BY LoadedMeans, <2>1 DEF Fields
<1>7. q.link \in Links \cup {NoLink}
  <2>1. NoReq.link \in Links \cup {NoLink} BY NoReqTyped DEF Request
  <2>2. QED BY LoadedMeans, <2>1 DEF Fields
<1>8. q.link_org \in Owners
  <2>1. NoReq.link_org \in Owners BY NoReqTyped DEF Request
  <2>2. QED BY LoadedMeans, <2>1 DEF Fields
<1>9. q.todo \in Seq(Folders)
  <2>1. NoReq.todo \in Seq(Folders) BY NoReqTyped DEF Request
  <2>2. QED BY LoadedMeans, <2>1 DEF Fields
<1>10. q.subtree \in SUBSET Folders
  <2>1. NoReq.subtree \in SUBSET Folders BY NoReqTyped DEF Request
  <2>2. QED BY LoadedMeans, <2>1 DEF Fields
<1>11. q.new_root \in FolderOrNone
  <2>1. NoReq.new_root \in FolderOrNone BY NoReqTyped DEF Request
  <2>2. QED BY LoadedMeans, <2>1 DEF Fields
<1>12. q.new_owner \in Owners
  <2>1. NoReq.new_owner \in Owners BY NoReqTyped DEF Request
  <2>2. QED BY LoadedMeans, <2>1 DEF Fields
<1>13. q.old_owner \in Owners
  <2>1. NoReq.old_owner \in Owners BY NoReqTyped DEF Request
  <2>2. QED BY LoadedMeans, <2>1 DEF Fields
<1>14. q.row \in Orgs \cup Registrars \cup Tables \cup {Personal}
  <2>1. NoReq.row \in Orgs \cup Registrars \cup Tables \cup {Personal} BY NoReqTyped DEF Request
  <2>2. QED BY LoadedMeans, <2>1 DEF Fields
<1>15. q.counts \in [Owners -> Nat]
  <2>1. NoReq.counts \in [Owners -> Nat] BY NoReqTyped DEF Request
  <2>2. QED BY LoadedMeans, <2>1 DEF Fields
<1>16. q.registrar_counts \in [Registrars -> Nat]
  <2>1. NoReq.registrar_counts \in [Registrars -> Nat] BY NoReqTyped DEF Request
  <2>2. QED BY LoadedMeans, <2>1 DEF Fields
<1>17. q.from \in Registrars \cup {Personal}
  <2>1. NoReq.from \in Registrars \cup {Personal} BY NoReqTyped DEF Request
  <2>2. QED BY LoadedMeans, <2>1 DEF Fields
<1>18. q.to \in Registrars \cup {Personal}
  <2>1. NoReq.to \in Registrars \cup {Personal} BY NoReqTyped DEF Request
  <2>2. QED BY LoadedMeans, <2>1 DEF Fields
<1>19. q.rows \in SUBSET (Owners \cup Registrars)
  <2>1. NoReq.rows \in SUBSET (Owners \cup Registrars) BY NoReqTyped DEF Request
  <2>2. QED BY LoadedMeans, <2>1 DEF Fields
<1>20. q.path \in Seq(Folders)
  <2>1. NoReq.path \in Seq(Folders) BY NoReqTyped DEF Request
  <2>2. QED BY LoadedMeans, <2>1 DEF Fields
<1>21. q.copy \in Row
  <2>1. NoReq.copy \in Row BY NoReqTyped DEF Request
  <2>2. QED BY LoadedMeans, <2>1 DEF Fields
<1> HIDE DEF q
<1>22. q \in Request
  BY <1>1, <1>2, <1>3, <1>4, <1>5, <1>6, <1>7, <1>8, <1>9, <1>10, <1>11, <1>12, <1>13,
     <1>14, <1>15, <1>16, <1>17, <1>18, <1>19, <1>20, <1>21,
     RequestMeans
<1>23. QED BY <1>22 DEF q

LEMMA LoadTyped ==
    ASSUME Typed, NEW r \in Requests, NEW fields, Load(r, fields),
           Loaded(fields) \in Request, Fits(Loaded(fields))
    PROVE  Typed' /\ req'[r] = Loaded(fields) /\ \A s \in Requests \ {r} : req'[s] = req[s]
<1> DEFINE q == Loaded(fields)
<1>1. /\ req' = [req EXCEPT ![r] = q] /\ made' = made + 1 /\ made < MaxRequests
      /\ UNCHANGED <<folderVars, linkVars, countVars, orgVars, lock, past>>
  BY DEF Load, Loaded
<1>2. req' \in [Requests -> Request] /\ \A s \in Requests : Fits(req[s])'
  <2> HIDE DEF q
  <2> QED BY <1>1, RequestTyped DEF q
<1>3. made' \in 0..MaxRequests
  BY <1>1, LibraryAssumption DEF Typed, TypeOK
<1>4. TypeOK'
  BY <1>1, <1>2, <1>3 DEF Typed, TypeOK, folderVars, linkVars, countVars, orgVars
<1>5. Rows'
  BY <1>1 DEF Typed, Rows, folderVars, linkVars
<1>6. req'[r] = Loaded(fields) /\ \A s \in Requests \ {r} : req'[s] = req[s]
  BY <1>1 DEF Typed, TypeOK
<1>7. QED BY <1>2, <1>4, <1>5, <1>6 DEF Typed

LEMMA CountTyped ==
    ASSUME NEW ls \in SUBSET Links
    PROVE  IsFiniteSet(ls) /\ Count(ls) \in Nat
  BY LibraryAssumption, FS_Subset, FS_CardinalityType DEF Count

LEMMA CountedTyped ==
    ASSUME NEW table \in Tables
    PROVE  Counted(table) \in [Owners -> Nat] /\ CountedOfRegistrars(table) \in [Registrars -> Nat]
<1>1. \A o : LinksOf(o) \in SUBSET Links
  BY DEF LinksOf, Live
<1>2. Live \in SUBSET Links
  BY DEF Live
<1>3. \A o : {l \in Live : \E f \in place[l] : owner[f] = o} \in SUBSET Links
  BY DEF Live
<1>4. \A g \in Registrars : CountedOfRegistrar(g) \in Nat
  BY <1>2, CountTyped DEF CountedOfRegistrar
<1>5. \A o : Count(LinksOf(o)) \in Nat
  BY <1>1, CountTyped
<1>6. \A o : Count({l \in Live : \E f \in place[l] : owner[f] = o}) \in Nat
  BY <1>3, CountTyped
<1>7. Count(Live) \in Nat
  BY <1>2, CountTyped
<1>8. Counted(table) \in [Owners -> Nat]
  BY <1>5, <1>6, <1>7 DEF Counted
<1>9. CountedOfRegistrars(table) \in [Registrars -> Nat]
  BY <1>4 DEF CountedOfRegistrars
<1>10. QED BY <1>8, <1>9

LEMMA LoadCreateFolderTyped ==
    ASSUME Typed, NEW r \in Requests, NEW f \in Folders, NEW p \in folders,
           LoadCreateFolder(r, f, p)
    PROVE  /\ Typed' /\ \A s \in Requests \ {r} : req'[s] = req[s]
           /\ req'[r].stage = "lock"
           /\ req'[r].kind = "create_folder"
           /\ req'[r].folder = f
           /\ req'[r].parent = p
           /\ req'[r].todo = <<p>>
           /\ req'[r].link = NoLink
<1> DEFINE fields == [stage |-> "lock", kind |-> "create_folder", folder |-> f,
                       parent |-> p, todo |-> <<p>>]
           q == Loaded(fields)
<1>1. p \in Folders
  BY DEF Typed, TypeOK, Rows
<1>2. DOMAIN fields = {"stage", "kind", "folder", "parent", "todo"}
  OBVIOUS
<1>3. /\ fields.stage = "lock"
      /\ fields.kind = "create_folder"
      /\ fields.folder = f
      /\ fields.parent = p
      /\ fields.todo = <<p>>
  OBVIOUS
<1>4. Load(r, fields)
  BY DEF LoadCreateFolder
<1> HIDE DEF fields
<1>5. q \in Request
  <2>1. /\ fields.stage \in Stage
        /\ fields.kind \in Kind \cup {"none"}
        /\ fields.folder \in FolderOrNone
        /\ fields.parent \in FolderOrNone
        /\ fields.todo \in Seq(Folders)
    BY <1>1, <1>3 DEF Stage, Kind, FolderOrNone, Owners
  <2>2. QED BY <1>2, <2>1, LoadedTyped
<1>6. /\ q.stage = "lock"
      /\ q.kind = "create_folder"
      /\ q.folder = f
      /\ q.parent = p
      /\ q.todo = <<p>>
      /\ q.link = NoLink
  BY <1>2, <1>3, LoadedMeans DEF Fields, NoReq
<1> HIDE DEF q
<1>7. Fits(q)
  BY <1>1, <1>6 DEF Fits
<1>8. Typed' /\ req'[r] = q /\ \A s \in Requests \ {r} : req'[s] = req[s]
  BY <1>4, <1>5, <1>7, LoadTyped DEF q
<1>9. QED BY <1>6, <1>8

LEMMA LoadPutTyped ==
    ASSUME Typed, NEW r \in Requests, NEW f \in Folders, NEW p \in folders,
           LoadPut(r, f, p)
    PROVE  /\ Typed' /\ \A s \in Requests \ {r} : req'[s] = req[s]
           /\ req'[r].stage = "lock"
           /\ req'[r].kind = "put"
           /\ req'[r].folder = f
           /\ req'[r].parent = p
           /\ req'[r].parent_root = tree_root[p]
           /\ req'[r].todo = <<f>>
           /\ req'[r].link = NoLink
<1> DEFINE fields == [stage |-> "lock", kind |-> "put", folder |-> f, parent |-> p,
                       parent_root |-> tree_root[p], todo |-> <<f>>]
           q == Loaded(fields)
<1>1. p \in Folders /\ tree_root[p] \in Folders /\ f \in Folders \ Roots
  BY DEF Typed, TypeOK, Rows, LoadPut
<1>2. DOMAIN fields = {"stage", "kind", "folder", "parent", "parent_root", "todo"}
  OBVIOUS
<1>3. /\ fields.stage = "lock"
      /\ fields.kind = "put"
      /\ fields.folder = f
      /\ fields.parent = p
      /\ fields.parent_root = tree_root[p]
      /\ fields.todo = <<f>>
  OBVIOUS
<1>4. Load(r, fields)
  BY DEF LoadPut
<1> HIDE DEF fields
<1>5. q \in Request
  <2>1. /\ fields.stage \in Stage
        /\ fields.kind \in Kind \cup {"none"}
        /\ fields.folder \in FolderOrNone
        /\ fields.parent \in FolderOrNone
        /\ fields.parent_root \in FolderOrNone
        /\ fields.todo \in Seq(Folders)
    BY <1>1, <1>3 DEF Stage, Kind, FolderOrNone, Owners
  <2>2. QED BY <1>2, <2>1, LoadedTyped
<1>6. /\ q.stage = "lock"
      /\ q.kind = "put"
      /\ q.folder = f
      /\ q.parent = p
      /\ q.parent_root = tree_root[p]
      /\ q.todo = <<f>>
      /\ q.link = NoLink
  BY <1>2, <1>3, LoadedMeans DEF Fields, NoReq
<1> HIDE DEF q
<1>7. Fits(q)
  BY <1>1, <1>6 DEF Fits
<1>8. Typed' /\ req'[r] = q /\ \A s \in Requests \ {r} : req'[s] = req[s]
  BY <1>4, <1>5, <1>7, LoadTyped DEF q
<1>9. QED BY <1>6, <1>8

LEMMA RowTyped ==
    ASSUME Typed, NEW f \in Folders
    PROVE  RowOf(f) \in Row
  BY DEF Typed, TypeOK, RowOf, Row

LEMMA RowMeans ==
    ASSUME NEW f
    PROVE  /\ RowOf(f).parent = parent[f] /\ RowOf(f).tree_root = tree_root[f]
           /\ RowOf(f).owner = owner[f] /\ RowOf(f).cached_path = cached_path[f]
           /\ RowOf(f).cached_has_children = cached_has_children[f]
  BY DEF RowOf

LEMMA LoadPatchTyped ==
    ASSUME Typed, NEW r \in Requests, NEW f \in folders, NEW p \in folders \cup {NoFolder},
           LoadPatch(r, f, p)
    PROVE  /\ Typed' /\ \A s \in Requests \ {r} : req'[s] = req[s]
           /\ req'[r].stage = "read"
           /\ req'[r].kind = "patch"
           /\ req'[r].folder = f
           /\ req'[r].parent = p
           /\ req'[r].copy = RowOf(f)
           /\ req'[r].link = NoLink
<1> DEFINE fields == [stage |-> "read", kind |-> "patch", folder |-> f, parent |-> p,
                      copy |-> RowOf(f)]
           q == Loaded(fields)
<1>1. f \in Folders /\ p \in FolderOrNone /\ RowOf(f) \in Row
  BY RowTyped DEF Typed, TypeOK, FolderOrNone
<1>2. DOMAIN fields = {"stage", "kind", "folder", "parent", "copy"}
  OBVIOUS
<1>3. /\ fields.stage = "read"
      /\ fields.kind = "patch"
      /\ fields.folder = f
      /\ fields.parent = p
      /\ fields.copy = RowOf(f)
  OBVIOUS
<1>4. Load(r, fields)
  BY DEF LoadPatch
<1> HIDE DEF fields
<1>5. q \in Request
  <2>1. /\ fields.stage \in Stage
        /\ fields.kind \in Kind \cup {"none"}
        /\ fields.folder \in FolderOrNone
        /\ fields.parent \in FolderOrNone
        /\ fields.copy \in Row
    BY <1>1, <1>3 DEF Stage, Kind, FolderOrNone, Owners
  <2>2. QED BY <1>2, <2>1, LoadedTyped
<1>6. /\ q.stage = "read"
      /\ q.kind = "patch"
      /\ q.folder = f
      /\ q.parent = p
      /\ q.copy = RowOf(f)
      /\ q.link = NoLink
  BY <1>2, <1>3, LoadedMeans DEF Fields, NoReq
<1> HIDE DEF q
<1>7. Fits(q)
  <2>1. q.copy.tree_root \in Folders /\ q.copy.parent = parent[f]
    BY <1>6, RowMeans DEF Typed, Rows
  <2>2. f \in Roots => p = parent[f]
    BY DEF LoadPatch
  <2>3. f \notin Roots => p \in Folders /\ parent[f] \in Folders
    BY DEF LoadPatch, Typed, TypeOK, Rows
  <2>4. QED BY <1>1, <1>6, <2>1, <2>2, <2>3 DEF Fits
<1>8. Typed' /\ req'[r] = q /\ \A s \in Requests \ {r} : req'[s] = req[s]
  BY <1>4, <1>5, <1>7, LoadTyped DEF q
<1>9. QED BY <1>6, <1>8

LEMMA LoadDeleteFolderTyped ==
    ASSUME Typed, NEW r \in Requests, NEW f \in folders,
           LoadDeleteFolder(r, f)
    PROVE  /\ Typed' /\ \A s \in Requests \ {r} : req'[s] = req[s]
           /\ req'[r].stage = "save"
           /\ req'[r].kind = "delete_folder"
           /\ req'[r].folder = f
           /\ req'[r].link = NoLink
<1> DEFINE fields == [stage |-> "save", kind |-> "delete_folder", folder |-> f]
           q == Loaded(fields)
<1>1. f \in Folders \ Roots
  BY DEF Typed, TypeOK, Rows, LoadDeleteFolder
<1>2. DOMAIN fields = {"stage", "kind", "folder"}
  OBVIOUS
<1>3. /\ fields.stage = "save"
      /\ fields.kind = "delete_folder"
      /\ fields.folder = f
  OBVIOUS
<1>4. Load(r, fields)
  BY DEF LoadDeleteFolder
<1> HIDE DEF fields
<1>5. q \in Request
  <2>1. /\ fields.stage \in Stage
        /\ fields.kind \in Kind \cup {"none"}
        /\ fields.folder \in FolderOrNone
    BY <1>1, <1>3 DEF Stage, Kind, FolderOrNone, Owners
  <2>2. QED BY <1>2, <2>1, LoadedTyped
<1>6. /\ q.stage = "save"
      /\ q.kind = "delete_folder"
      /\ q.folder = f
      /\ q.link = NoLink
  BY <1>2, <1>3, LoadedMeans DEF Fields, NoReq
<1> HIDE DEF q
<1>7. Fits(q)
  BY <1>1, <1>6 DEF Fits
<1>8. Typed' /\ req'[r] = q /\ \A s \in Requests \ {r} : req'[s] = req[s]
  BY <1>4, <1>5, <1>7, LoadTyped DEF q
<1>9. QED BY <1>6, <1>8

LEMMA LoadLinkTyped ==
    ASSUME Typed, NEW r \in Requests, NEW kind \in {"create_link", "move_link"}, NEW l \in Links, NEW p \in folders,
           LoadLink(r, kind, l, p)
    PROVE  /\ Typed' /\ \A s \in Requests \ {r} : req'[s] = req[s]
           /\ req'[r].stage = "open"
           /\ req'[r].kind = kind
           /\ req'[r].link = l
           /\ req'[r].link_org = organization[l]
           /\ req'[r].parent = p
           /\ req'[r].parent_root = tree_root[p]
           /\ req'[r].parent_owner = owner[p]
           /\ req'[r].folder = NoFolder
<1> DEFINE fields == [stage |-> "open", kind |-> kind, link |-> l,
                       link_org |-> organization[l], parent |-> p,
                       parent_root |-> tree_root[p], parent_owner |-> owner[p]]
           q == Loaded(fields)
<1>1. p \in Folders /\ tree_root[p] \in Folders /\ owner[p] \in Owners /\ organization[l] \in Orgs \cup {Personal}
  BY DEF Typed, TypeOK, Rows
<1>2. DOMAIN fields = {"stage", "kind", "link", "link_org", "parent", "parent_root", "parent_owner"}
  OBVIOUS
<1>3. /\ fields.stage = "open"
      /\ fields.kind = kind
      /\ fields.link = l
      /\ fields.link_org = organization[l]
      /\ fields.parent = p
      /\ fields.parent_root = tree_root[p]
      /\ fields.parent_owner = owner[p]
  OBVIOUS
<1>4. Load(r, fields)
  BY DEF LoadLink
<1> HIDE DEF fields
<1>5. q \in Request
  <2>1. /\ fields.stage \in Stage
        /\ fields.kind \in Kind \cup {"none"}
        /\ fields.link \in Links \cup {NoLink}
        /\ fields.link_org \in Owners
        /\ fields.parent \in FolderOrNone
        /\ fields.parent_root \in FolderOrNone
        /\ fields.parent_owner \in Owners
    BY <1>1, <1>3 DEF Stage, Kind, FolderOrNone, Owners
  <2>2. QED BY <1>2, <2>1, LoadedTyped
<1>6. /\ q.stage = "open"
      /\ q.kind = kind
      /\ q.link = l
      /\ q.link_org = organization[l]
      /\ q.parent = p
      /\ q.parent_root = tree_root[p]
      /\ q.parent_owner = owner[p]
      /\ q.folder = NoFolder
  BY <1>2, <1>3, LoadedMeans DEF Fields, NoReq
<1> HIDE DEF q
<1>7. Fits(q)
  BY <1>1, <1>6 DEF Fits
<1>8. Typed' /\ req'[r] = q /\ \A s \in Requests \ {r} : req'[s] = req[s]
  BY <1>4, <1>5, <1>7, LoadTyped DEF q
<1>9. QED BY <1>6, <1>8

LEMMA LoadEditOrganizationTyped ==
    ASSUME Typed, NEW r \in Requests, NEW o \in Orgs, NEW g \in Registrars,
           LoadEditOrganization(r, o, g)
    PROVE  /\ Typed' /\ \A s \in Requests \ {r} : req'[s] = req[s]
           /\ req'[r].stage = "save"
           /\ req'[r].kind = "edit_organization"
           /\ req'[r].row = o
           /\ req'[r].counts = Of({o})
           /\ req'[r].from = registrar[o]
           /\ req'[r].to = g
           /\ req'[r].parent = NoFolder
           /\ req'[r].folder = NoFolder
           /\ req'[r].link = NoLink
<1> DEFINE fields == [stage |-> "save", kind |-> "edit_organization", row |-> o,
                       counts |-> Of({o}), from |-> registrar[o], to |-> g]
           q == Loaded(fields)
<1>1. Of({o}) \in [Owners -> Nat] /\ registrar[o] \in Registrars
  BY DEF Typed, TypeOK, Rows, Of
<1>2. DOMAIN fields = {"stage", "kind", "row", "counts", "from", "to"}
  OBVIOUS
<1>3. /\ fields.stage = "save"
      /\ fields.kind = "edit_organization"
      /\ fields.row = o
      /\ fields.counts = Of({o})
      /\ fields.from = registrar[o]
      /\ fields.to = g
  OBVIOUS
<1>4. Load(r, fields)
  BY DEF LoadEditOrganization
<1> HIDE DEF fields
<1>5. q \in Request
  <2>1. /\ fields.stage \in Stage
        /\ fields.kind \in Kind \cup {"none"}
        /\ fields.row \in Orgs \cup Registrars \cup Tables \cup {Personal}
        /\ fields.counts \in [Owners -> Nat]
        /\ fields.from \in Registrars \cup {Personal}
        /\ fields.to \in Registrars \cup {Personal}
    BY <1>1, <1>3 DEF Stage, Kind, FolderOrNone, Owners
  <2>2. QED BY <1>2, <2>1, LoadedTyped
<1>6. /\ q.stage = "save"
      /\ q.kind = "edit_organization"
      /\ q.row = o
      /\ q.counts = Of({o})
      /\ q.from = registrar[o]
      /\ q.to = g
      /\ q.parent = NoFolder
      /\ q.folder = NoFolder
      /\ q.link = NoLink
  BY <1>2, <1>3, LoadedMeans DEF Fields, NoReq
<1> HIDE DEF q
<1>7. Fits(q)
  BY <1>1, <1>6 DEF Fits
<1>8. Typed' /\ req'[r] = q /\ \A s \in Requests \ {r} : req'[s] = req[s]
  BY <1>4, <1>5, <1>7, LoadTyped DEF q
<1>9. QED BY <1>6, <1>8

LEMMA LoadDeleteOrganizationTyped ==
    ASSUME Typed, NEW r \in Requests, NEW o \in Orgs,
           LoadDeleteOrganization(r, o)
    PROVE  /\ Typed' /\ \A s \in Requests \ {r} : req'[s] = req[s]
           /\ req'[r].stage = "read"
           /\ req'[r].kind = "delete_organization"
           /\ req'[r].row = o
           /\ req'[r].counts = Of({o})
           /\ req'[r].from = registrar[o]
           /\ req'[r].to = registrar[o]
           /\ req'[r].parent = NoFolder
           /\ req'[r].folder = NoFolder
           /\ req'[r].link = NoLink
<1> DEFINE fields == [stage |-> "read", kind |-> "delete_organization", row |-> o,
                       counts |-> Of({o}), from |-> registrar[o], to |-> registrar[o]]
           q == Loaded(fields)
<1>1. Of({o}) \in [Owners -> Nat] /\ registrar[o] \in Registrars
  BY DEF Typed, TypeOK, Rows, Of
<1>2. DOMAIN fields = {"stage", "kind", "row", "counts", "from", "to"}
  OBVIOUS
<1>3. /\ fields.stage = "read"
      /\ fields.kind = "delete_organization"
      /\ fields.row = o
      /\ fields.counts = Of({o})
      /\ fields.from = registrar[o]
      /\ fields.to = registrar[o]
  OBVIOUS
<1>4. Load(r, fields)
  BY DEF LoadDeleteOrganization
<1> HIDE DEF fields
<1>5. q \in Request
  <2>1. /\ fields.stage \in Stage
        /\ fields.kind \in Kind \cup {"none"}
        /\ fields.row \in Orgs \cup Registrars \cup Tables \cup {Personal}
        /\ fields.counts \in [Owners -> Nat]
        /\ fields.from \in Registrars \cup {Personal}
        /\ fields.to \in Registrars \cup {Personal}
    BY <1>1, <1>3 DEF Stage, Kind, FolderOrNone, Owners
  <2>2. QED BY <1>2, <2>1, LoadedTyped
<1>6. /\ q.stage = "read"
      /\ q.kind = "delete_organization"
      /\ q.row = o
      /\ q.counts = Of({o})
      /\ q.from = registrar[o]
      /\ q.to = registrar[o]
      /\ q.parent = NoFolder
      /\ q.folder = NoFolder
      /\ q.link = NoLink
  BY <1>2, <1>3, LoadedMeans DEF Fields, NoReq
<1> HIDE DEF q
<1>7. Fits(q)
  BY <1>1, <1>6 DEF Fits
<1>8. Typed' /\ req'[r] = q /\ \A s \in Requests \ {r} : req'[s] = req[s]
  BY <1>4, <1>5, <1>7, LoadTyped DEF q
<1>9. QED BY <1>6, <1>8

LEMMA LoadEditRegistrarTyped ==
    ASSUME Typed, NEW r \in Requests, NEW g \in Registrars,
           LoadEditRegistrar(r, g)
    PROVE  /\ Typed' /\ \A s \in Requests \ {r} : req'[s] = req[s]
           /\ req'[r].stage = "save"
           /\ req'[r].kind = "edit_registrar"
           /\ req'[r].row = g
           /\ req'[r].counts = Of(SponsorRow(g))
           /\ req'[r].registrar_counts = OfRegistrars({g})
           /\ req'[r].folder = NoFolder
           /\ req'[r].link = NoLink
<1> DEFINE fields == [stage |-> "save", kind |-> "edit_registrar", row |-> g,
                       counts |-> Of(SponsorRow(g)),
                       registrar_counts |-> OfRegistrars({g})]
           q == Loaded(fields)
<1>1. Of(SponsorRow(g)) \in [Owners -> Nat] /\ OfRegistrars({g}) \in [Registrars -> Nat]
  BY DEF Typed, TypeOK, Rows, Of, OfRegistrars
<1>2. DOMAIN fields = {"stage", "kind", "row", "counts", "registrar_counts"}
  OBVIOUS
<1>3. /\ fields.stage = "save"
      /\ fields.kind = "edit_registrar"
      /\ fields.row = g
      /\ fields.counts = Of(SponsorRow(g))
      /\ fields.registrar_counts = OfRegistrars({g})
  OBVIOUS
<1>4. Load(r, fields)
  BY DEF LoadEditRegistrar
<1> HIDE DEF fields
<1>5. q \in Request
  <2>1. /\ fields.stage \in Stage
        /\ fields.kind \in Kind \cup {"none"}
        /\ fields.row \in Orgs \cup Registrars \cup Tables \cup {Personal}
        /\ fields.counts \in [Owners -> Nat]
        /\ fields.registrar_counts \in [Registrars -> Nat]
    BY <1>1, <1>3 DEF Stage, Kind, FolderOrNone, Owners
  <2>2. QED BY <1>2, <2>1, LoadedTyped
<1>6. /\ q.stage = "save"
      /\ q.kind = "edit_registrar"
      /\ q.row = g
      /\ q.counts = Of(SponsorRow(g))
      /\ q.registrar_counts = OfRegistrars({g})
      /\ q.folder = NoFolder
      /\ q.link = NoLink
  BY <1>2, <1>3, LoadedMeans DEF Fields, NoReq
<1> HIDE DEF q
<1>7. Fits(q)
  BY <1>1, <1>6 DEF Fits
<1>8. Typed' /\ req'[r] = q /\ \A s \in Requests \ {r} : req'[s] = req[s]
  BY <1>4, <1>5, <1>7, LoadTyped DEF q
<1>9. QED BY <1>6, <1>8

LEMMA LoadEditUserTyped ==
    ASSUME Typed, NEW r \in Requests, LoadEditUser(r)
    PROVE  /\ Typed' /\ \A s \in Requests \ {r} : req'[s] = req[s]
           /\ req'[r].stage = "save"
           /\ req'[r].kind = "edit_user"
           /\ req'[r].row = Personal
           /\ req'[r].counts = Of({Personal})
           /\ req'[r].folder = NoFolder
           /\ req'[r].link = NoLink
<1> DEFINE fields == [stage |-> "save", kind |-> "edit_user", row |-> Personal,
                       counts |-> Of({Personal})]
           q == Loaded(fields)
<1>1. Of({Personal}) \in [Owners -> Nat]
  BY DEF Typed, TypeOK, Rows, Of
<1>2. DOMAIN fields = {"stage", "kind", "row", "counts"}
  OBVIOUS
<1>3. /\ fields.stage = "save"
      /\ fields.kind = "edit_user"
      /\ fields.row = Personal
      /\ fields.counts = Of({Personal})
  OBVIOUS
<1>4. Load(r, fields)
  BY DEF LoadEditUser
<1> HIDE DEF fields
<1>5. q \in Request
  <2>1. /\ fields.stage \in Stage
        /\ fields.kind \in Kind \cup {"none"}
        /\ fields.row \in Orgs \cup Registrars \cup Tables \cup {Personal}
        /\ fields.counts \in [Owners -> Nat]
    BY <1>1, <1>3 DEF Stage, Kind, FolderOrNone, Owners
  <2>2. QED BY <1>2, <2>1, LoadedTyped
<1>6. /\ q.stage = "save"
      /\ q.kind = "edit_user"
      /\ q.row = Personal
      /\ q.counts = Of({Personal})
      /\ q.folder = NoFolder
      /\ q.link = NoLink
  BY <1>2, <1>3, LoadedMeans DEF Fields, NoReq
<1> HIDE DEF q
<1>7. Fits(q)
  BY <1>1, <1>6 DEF Fits
<1>8. Typed' /\ req'[r] = q /\ \A s \in Requests \ {r} : req'[s] = req[s]
  BY <1>4, <1>5, <1>7, LoadTyped DEF q
<1>9. QED BY <1>6, <1>8

LEMMA LoadReconcileTyped ==
    ASSUME Typed, NEW r \in Requests, NEW table \in Tables,
           LoadReconcile(r, table)
    PROVE  /\ Typed' /\ \A s \in Requests \ {r} : req'[s] = req[s]
           /\ req'[r].stage = "read"
           /\ req'[r].kind = "reconcile"
           /\ req'[r].row = table
           /\ req'[r].counts = Counted(table)
           /\ req'[r].registrar_counts = CountedOfRegistrars(table)
           /\ req'[r].parent = NoFolder
           /\ req'[r].folder = NoFolder
           /\ req'[r].link = NoLink
<1> DEFINE fields == [stage |-> "read", kind |-> "reconcile", row |-> table,
                       counts |-> Counted(table),
                       registrar_counts |-> CountedOfRegistrars(table)]
           q == Loaded(fields)
<1>1. Counted(table) \in [Owners -> Nat] /\ CountedOfRegistrars(table) \in [Registrars -> Nat]
  BY CountedTyped
<1>2. DOMAIN fields = {"stage", "kind", "row", "counts", "registrar_counts"}
  OBVIOUS
<1>3. /\ fields.stage = "read"
      /\ fields.kind = "reconcile"
      /\ fields.row = table
      /\ fields.counts = Counted(table)
      /\ fields.registrar_counts = CountedOfRegistrars(table)
  OBVIOUS
<1>4. Load(r, fields)
  BY DEF LoadReconcile
<1> HIDE DEF fields
<1>5. q \in Request
  <2>1. /\ fields.stage \in Stage
        /\ fields.kind \in Kind \cup {"none"}
        /\ fields.row \in Orgs \cup Registrars \cup Tables \cup {Personal}
        /\ fields.counts \in [Owners -> Nat]
        /\ fields.registrar_counts \in [Registrars -> Nat]
    BY <1>1, <1>3 DEF Stage, Kind, FolderOrNone, Owners
  <2>2. QED BY <1>2, <2>1, LoadedTyped
<1>6. /\ q.stage = "read"
      /\ q.kind = "reconcile"
      /\ q.row = table
      /\ q.counts = Counted(table)
      /\ q.registrar_counts = CountedOfRegistrars(table)
      /\ q.parent = NoFolder
      /\ q.folder = NoFolder
      /\ q.link = NoLink
  BY <1>2, <1>3, LoadedMeans DEF Fields, NoReq
<1> HIDE DEF q
<1>7. Fits(q)
  BY <1>1, <1>6 DEF Fits
<1>8. Typed' /\ req'[r] = q /\ \A s \in Requests \ {r} : req'[s] = req[s]
  BY <1>4, <1>5, <1>7, LoadTyped DEF q
<1>9. QED BY <1>6, <1>8

LEMMA LoadFixPathTyped ==
    ASSUME Typed, NEW r \in Requests, NEW f \in folders,
           LoadFixPath(r, f)
    PROVE  /\ Typed' /\ \A s \in Requests \ {r} : req'[s] = req[s]
           /\ req'[r].stage = "read"
           /\ req'[r].kind = "fix_path"
           /\ req'[r].folder = f
           /\ req'[r].path = cached_path[f]
           /\ req'[r].new_root = tree_root[f]
           /\ req'[r].parent = NoFolder
           /\ req'[r].link = NoLink
<1> DEFINE fields == [stage |-> "read", kind |-> "fix_path", folder |-> f,
                       path |-> cached_path[f], new_root |-> tree_root[f]]
           q == Loaded(fields)
<1>1. f \in Folders /\ cached_path[f] \in Seq(Folders) /\ tree_root[f] \in FolderOrNone
  BY DEF Typed, TypeOK, Rows
<1>2. DOMAIN fields = {"stage", "kind", "folder", "path", "new_root"}
  OBVIOUS
<1>3. /\ fields.stage = "read"
      /\ fields.kind = "fix_path"
      /\ fields.folder = f
      /\ fields.path = cached_path[f]
      /\ fields.new_root = tree_root[f]
  OBVIOUS
<1>4. Load(r, fields)
  BY DEF LoadFixPath
<1> HIDE DEF fields
<1>5. q \in Request
  <2>1. /\ fields.stage \in Stage
        /\ fields.kind \in Kind \cup {"none"}
        /\ fields.folder \in FolderOrNone
        /\ fields.path \in Seq(Folders)
        /\ fields.new_root \in FolderOrNone
    BY <1>1, <1>3 DEF Stage, Kind, FolderOrNone, Owners
  <2>2. QED BY <1>2, <2>1, LoadedTyped
<1>6. /\ q.stage = "read"
      /\ q.kind = "fix_path"
      /\ q.folder = f
      /\ q.path = cached_path[f]
      /\ q.new_root = tree_root[f]
      /\ q.parent = NoFolder
      /\ q.link = NoLink
  BY <1>2, <1>3, LoadedMeans DEF Fields, NoReq
<1> HIDE DEF q
<1>7. Fits(q)
  BY <1>1, <1>6 DEF Fits
<1>8. Typed' /\ req'[r] = q /\ \A s \in Requests \ {r} : req'[s] = req[s]
  BY <1>4, <1>5, <1>7, LoadTyped DEF q
<1>9. QED BY <1>6, <1>8

LEMMA SetToSeqTyped ==
    ASSUME NEW S \in SUBSET Folders
    PROVE  SetToSeq(S) \in Seq(Folders)
<1>1. IsFiniteSet(S)
  BY LibraryAssumption, FS_Subset
<1>2. Cardinality(S) \in Nat /\ ExistsBijection(1..Cardinality(S), S)
  BY <1>1, FS_CardinalityType
<1>3. \E f \in [1..Cardinality(S) -> S] : IsInjective(f)
  BY <1>2 DEF ExistsBijection, Bijection, Injection, IsInjective
<1>4. SetToSeq(S) \in [1..Cardinality(S) -> S]
  BY <1>3 DEF SetToSeq
<1>5. QED
  BY <1>2, <1>4, IsASeq

\* Steps that change no row.
LEMMA StillTyped ==
    ASSUME Typed, UNCHANGED <<folderVars, linkVars, countVars, orgVars, made>>,
           req' \in [Requests -> Request], \A s \in Requests : Fits(req[s])',
           lock' \in [Folders -> Requests \cup {NoRequest}],
           past' \in [unlocked: BOOLEAN, stale: BOOLEAN, swept: BOOLEAN, rows: SUBSET Tables]
    PROVE  Typed'
<1>1. TypeOK'
  BY DEF Typed, TypeOK, folderVars, linkVars, countVars, orgVars
<1>2. Rows'
  BY DEF Typed, Rows, folderVars, linkVars
<1>3. QED
  BY <1>1, <1>2 DEF Typed

LEMMA OpenTyped ==
    ASSUME Typed, NEW r \in Requests, Open(r) PROVE Typed'
<1> DEFINE here == IF req[r].kind = "create_link" THEN {Home} ELSE place[req[r].link]
           todo == SetToSeq({tree_root[f] : f \in here}) \o <<req[r].parent_root>>
           q == [req[r] EXCEPT !.stage = "lock", !.todo = todo]
<1>1. req[r] \in Request /\ Fits(req[r]) /\ req[r].stage = "open"
  BY DEF Typed, TypeOK, Open
<1>2. /\ req[r].kind \in {"create_link", "move_link"} /\ req[r].link \in Links
      /\ req[r].parent_root \in Folders
  BY <1>1 DEF Fits, Request, Kind
<1>3. \A f \in here : tree_root[f] \in Folders
  <2>1. Home \in Roots BY LibraryAssumption
  <2>2. QED BY <1>2, <2>1 DEF Typed, Rows
<1>4. todo \in Seq(Folders) /\ todo # <<>>
  <2> HIDE DEF here
  <2>1. SetToSeq({tree_root[f] : f \in here}) \in Seq(Folders)
    BY <1>3, SetToSeqTyped
  <2>2. PICK s \in Seq(Folders) : s = SetToSeq({tree_root[f] : f \in here})
    BY <2>1
  <2>3. s \o <<req[r].parent_root>> \in Seq(Folders) /\ s \o <<req[r].parent_root>> # <<>>
    BY <1>2
  <2>4. QED BY <2>2, <2>3
<1>5. /\ req' = [req EXCEPT ![r] = q]
      /\ UNCHANGED <<folderVars, linkVars, countVars, orgVars, lock, made, past>>
  BY DEF Open
<1> HIDE DEF todo
<1>6. q \in Request /\ Fits(q)
  <2>1. q \in Request BY <1>1, <1>4 DEF Request, Stage
  <2>2. /\ q.stage = "lock" /\ q.todo = todo /\ q.kind = req[r].kind /\ q.link = req[r].link
        /\ q.parent = req[r].parent /\ q.parent_root = req[r].parent_root
        /\ q.link_org = req[r].link_org
    BY <1>1 DEF Request
  <2> HIDE DEF q
  <2>3. QED BY <1>1, <1>2, <1>4, <2>1, <2>2 DEF Fits
<1>7. QED
  BY <1>5, <1>6, RequestTyped, StillTyped DEF Typed, TypeOK

LEMMA LockTyped ==
    ASSUME Typed, NEW r \in Requests, Lock(r) PROVE Typed'
<1> DEFINE f == Head(req[r].todo)
           rest == NextLocks(r)
           stage == IF rest # <<>> THEN "lock" ELSE IF req[r].kind = "put" THEN "read" ELSE "save"
           q == [req[r] EXCEPT !.todo = rest, !.stage = stage]
<1>1. req[r] \in Request /\ Fits(req[r]) /\ req[r].stage = "lock" /\ req[r].todo \in Seq(Folders)
  BY DEF Typed, TypeOK, Lock, Request
<1>2. f \in folders /\ f \in Folders /\ tree_root[f] \in Folders /\ req[r].todo # <<>>
  <2>1. req[r].todo # <<>> BY <1>1 DEF Fits
  <2>2. f \in folders BY DEF Lock
  <2>3. QED BY <2>1, <2>2 DEF Typed, TypeOK, Rows
<1>3. req[r].kind \in {"create_folder", "put", "create_link", "move_link"}
  BY <1>1 DEF Fits, Request, Kind
<1>4. rest \in Seq(Folders)
  <2>1. Tail(req[r].todo) \in Seq(Folders)
    BY <1>1, <1>2
  <2>2. req[r].kind = "put" => req[r].parent_root \in Folders
    BY <1>1 DEF Fits
  <2>3. CASE req[r].kind = "put" /\ lock[f] # r /\ f = req[r].folder
    BY <1>2, <2>2, <2>3 DEF NextLocks
  <2>4. CASE req[r].kind = "create_folder" /\ f = req[r].parent /\ lock[f] # r
    BY <1>2, <2>4 DEF NextLocks
  <2>5. CASE /\ ~(req[r].kind = "put" /\ lock[f] # r /\ f = req[r].folder)
             /\ ~(req[r].kind = "create_folder" /\ f = req[r].parent /\ lock[f] # r)
    BY <2>1, <2>5 DEF NextLocks
  <2>6. QED BY <2>3, <2>4, <2>5
<1>5. /\ req' = [req EXCEPT ![r] = q] /\ lock' = [lock EXCEPT ![f] = r]
      /\ UNCHANGED <<folderVars, linkVars, countVars, orgVars, made, past>>
  BY DEF Lock
<1> HIDE DEF rest
<1>6. q \in Request /\ Fits(q)
  <2>1. q \in Request
    <3>1. stage \in Stage BY DEF Stage
    <3> HIDE DEF stage
    <3>2. QED BY <1>1, <1>4, <3>1 DEF Request
  <2>2. /\ q.stage = stage /\ q.todo = rest /\ q.kind = req[r].kind /\ q.link = req[r].link
        /\ q.parent = req[r].parent /\ q.parent_root = req[r].parent_root
        /\ q.link_org = req[r].link_org /\ q.folder = req[r].folder
        /\ q.copy = req[r].copy
    BY <1>1 DEF Request
  <2> HIDE DEF q
  <2> HIDE DEF stage
  <2>3. stage \in {"lock", "read", "save"} /\ (stage = "lock" => rest # <<>>)
        /\ (stage = "read" <=> rest = <<>> /\ req[r].kind = "put")
        /\ (stage = "save" => req[r].kind # "put")
    BY DEF stage
  <2>4. QED BY <1>1, <1>3, <2>1, <2>2, <2>3 DEF Fits
<1>7. lock' \in [Folders -> Requests \cup {NoRequest}]
  BY <1>5 DEF Typed, TypeOK
<1>8. QED
  BY <1>5, <1>6, <1>7, RequestTyped, StillTyped DEF Typed, TypeOK

LEMMA EndingTyped ==
    ASSUME Typed, NEW r \in Requests, LockFails(r) \/ Refuse(r) \/ SaveFails(r) \/ Abort(r)
    PROVE  Typed'
<1>1. End(r) /\ UNCHANGED <<folderVars, linkVars, countVars, orgVars, made, past>>
  BY DEF LockFails, Refuse, SaveFails, Abort
<1>2. QED
  BY <1>1, EndTyped, StillTyped DEF Typed, TypeOK

LEMMA SubtreeTyped ==
    ASSUME TypeOK, NEW f \in Folders, NEW root PROVE Subtree(f, root) \in SUBSET Folders
<1> DEFINE gs == {g \in folders : tree_root[g] = root}
<1>1. gs \in SUBSET Folders
  BY DEF TypeOK
<1> HIDE DEF gs
<1>2. Below(f, gs) \in SUBSET Folders
  BY <1>1, BelowTyped
<1>3. QED
  BY <1>2 DEF Subtree, gs

\* The row that PUT or PATCH saves.
LEMMA CopyTyped ==
    ASSUME Typed, NEW r \in Requests, req[r].kind \in {"put", "patch"}
    PROVE  /\ Copy(r) \in Row /\ Copy(r).tree_root \in FolderOrNone
           /\ Copy(r).owner \in Owners
           /\ req[r].folder \in Folders
           /\ req[r].folder \notin Roots => Copy(r).parent \in FolderOrNone
           /\ req[r].folder \in folders \/ req[r].kind = "patch" =>
                /\ Copy(r).tree_root \in Folders
                /\ req[r].folder \notin Roots => Copy(r).parent \in Folders
<1>1. req[r] \in Request /\ Fits(req[r]) /\ TypeOK
  BY DEF Typed, TypeOK
<1>2. req[r].folder \in Folders
  BY <1>1 DEF Fits
<1>3. CASE req[r].kind = "put"
  <2>1. Copy(r) = RowOf(req[r].folder)
    BY <1>3 DEF Copy
  <2>2. RowOf(req[r].folder) \in Row
    BY <1>2, RowTyped
  <2>3. req[r].folder \in folders => tree_root[req[r].folder] \in Folders
    BY DEF Typed, Rows
  <2>4. req[r].folder \in folders \ Roots => parent[req[r].folder] \in Folders
    BY DEF Typed, Rows
  <2>5. QED BY <1>2, <1>3, <2>1, <2>2, <2>3, <2>4, RowMeans DEF Row
<1>4. CASE req[r].kind = "patch"
  <2>1. Copy(r) = req[r].copy
    BY <1>4 DEF Copy
  <2>2. req[r].copy \in Row
    BY <1>1 DEF Request
  <2>3. req[r].copy.tree_root \in Folders
        /\ (req[r].folder \notin Roots => req[r].copy.parent \in Folders)
    BY <1>1, <1>4 DEF Fits
  <2>4. QED BY <1>2, <2>1, <2>2, <2>3 DEF Row
<1>5. QED BY <1>3, <1>4

\* A whole row that is written.
LEMMA SaveRowTyped ==
    ASSUME Typed, NEW f \in Folders, NEW row \in Row, SaveRow(f, row), f \in spent,
           row.tree_root \in Folders, f \notin Roots => row.parent \in Folders
    PROVE  /\ folders' \subseteq Folders /\ spent' \subseteq Folders
           /\ parent' \in [Folders -> FolderOrNone]
           /\ tree_root' \in [Folders -> FolderOrNone]
           /\ owner' \in [Folders -> Owners]
           /\ cached_path' \in [Folders -> Seq(Folders)]
           /\ cached_has_children' \in [Folders -> BOOLEAN]
           /\ folders' \subseteq spent' /\ Roots \subseteq spent' /\ folders \subseteq folders'
           /\ \A g \in folders' \cup Roots : tree_root'[g] \in Folders
           /\ \A g \in folders' \ Roots : parent'[g] \in Folders
<1>1. TypeOK /\ Rows
  BY DEF Typed
<1>2. /\ row.parent \in FolderOrNone /\ row.tree_root \in FolderOrNone /\ row.owner \in Owners
      /\ row.cached_path \in Seq(Folders) /\ row.cached_has_children \in BOOLEAN
  BY DEF Row
<1>3. /\ folders' = folders \cup {f} /\ spent' = spent
      /\ parent' = [parent EXCEPT ![f] = row.parent]
      /\ tree_root' = [tree_root EXCEPT ![f] = row.tree_root]
      /\ owner' = [owner EXCEPT ![f] = row.owner]
      /\ cached_path' = [cached_path EXCEPT ![f] = row.cached_path]
      /\ cached_has_children' = [cached_has_children EXCEPT ![f] = row.cached_has_children]
  BY DEF SaveRow
<1>4. folders' \subseteq Folders /\ spent' \subseteq Folders /\ folders' \subseteq spent'
      /\ Roots \subseteq spent' /\ folders \subseteq folders'
  BY <1>1, <1>3 DEF TypeOK, Rows
<1>5. /\ parent' \in [Folders -> FolderOrNone] /\ tree_root' \in [Folders -> FolderOrNone]
      /\ owner' \in [Folders -> Owners]
  BY <1>1, <1>2, <1>3 DEF TypeOK
<1>6. cached_path' \in [Folders -> Seq(Folders)] /\ cached_has_children' \in [Folders -> BOOLEAN]
  BY <1>1, <1>2, <1>3 DEF TypeOK
<1>7. \A g \in folders' \cup Roots : tree_root'[g] \in Folders
  BY <1>1, <1>3, LibraryAssumption DEF Rows, TypeOK
<1>8. \A g \in folders' \ Roots : parent'[g] \in Folders
  BY <1>1, <1>3 DEF Rows, TypeOK
<1>9. QED
  BY <1>4, <1>5, <1>6, <1>7, <1>8

LEMMA SaveFolderTyped ==
    ASSUME Typed, Fresh, NEW r \in Requests, SaveFolder(r) PROVE Typed'
<1>1. req[r].kind \in {"put", "patch"} /\ TypeOK /\ Rows
  BY DEF SaveFolder, Typed
<1>2. req[r].folder \in spent /\ (req[r].kind = "put" => req[r].folder \in folders)
  BY <1>1 DEF Fresh, SaveFolder, Present
<1>3. /\ Copy(r) \in Row /\ req[r].folder \in Folders /\ Copy(r).tree_root \in Folders
      /\ req[r].folder \notin Roots => Copy(r).parent \in Folders
  BY <1>1, <1>2, CopyTyped
<1>4. /\ req' \in [Requests -> Request] /\ \A s \in Requests : Fits(req[s])'
      /\ lock' \in [Folders -> Requests \cup {NoRequest}]
  BY EndTyped DEF SaveFolder
<1>5. past' \in [unlocked: BOOLEAN, stale: BOOLEAN, swept: BOOLEAN, rows: SUBSET Tables]
  <2>1. Undoes(req[r].folder, Copy(r)) \in BOOLEAN
    BY DEF Undoes
  <2>2. QED BY <1>1, <2>1 DEF SaveFolder, TypeOK
<1>6. SaveRow(req[r].folder, Copy(r)) /\ UNCHANGED <<linkVars, countVars, orgVars, made>>
  BY DEF SaveFolder
<1> PICK f, row : f = req[r].folder /\ row = Copy(r)
  OBVIOUS
<1>7. /\ folders' \subseteq Folders /\ spent' \subseteq Folders
      /\ parent' \in [Folders -> FolderOrNone]
      /\ tree_root' \in [Folders -> FolderOrNone]
      /\ owner' \in [Folders -> Owners]
      /\ cached_path' \in [Folders -> Seq(Folders)]
      /\ cached_has_children' \in [Folders -> BOOLEAN]
      /\ folders' \subseteq spent' /\ Roots \subseteq spent' /\ folders \subseteq folders'
      /\ \A g \in folders' \cup Roots : tree_root'[g] \in Folders
      /\ \A g \in folders' \ Roots : parent'[g] \in Folders
  BY <1>2, <1>3, <1>6, SaveRowTyped
<1>8. TypeOK'
  BY <1>1, <1>4, <1>5, <1>6, <1>7 DEF TypeOK, linkVars, countVars, orgVars
<1>9. Rows'
  BY <1>1, <1>6, <1>7 DEF Rows, linkVars
<1>10. QED
  BY <1>4, <1>8, <1>9 DEF Typed

LEMMA ReadMoveTyped ==
    ASSUME Typed, NEW r \in Requests, ReadMove(r)
    PROVE  Typed' /\ req[r].kind \in {"put", "patch"}
<1> DEFINE f == req[r].folder
           p == req[r].parent
           row == Copy(r)
           sub == IF row.cached_has_children THEN Subtree(f, row.tree_root) ELSE {f}
           q == [req[r] EXCEPT !.stage = "save", !.subtree = sub, !.new_root = tree_root[p],
                               !.new_owner = owner[p], !.old_owner = owner[row.parent]]
<1>1. req[r] \in Request /\ Fits(req[r]) /\ req[r].stage = "read" /\ TypeOK
  BY DEF Typed, TypeOK, ReadMove
<1>2. req[r].kind \in {"put", "patch"}
  BY DEF ReadMove
<1>3. row.parent # p /\ {p, row.parent} \ {NoFolder} \subseteq folders
      /\ (req[r].kind = "put" => f \in folders)
  BY DEF ReadMove, Present
<1>4. f \in Folders /\ row.tree_root \in Folders
      /\ (f \notin Roots => row.parent \in Folders /\ p \in Folders)
  BY <1>1, <1>2, <1>3, CopyTyped DEF Fits
<1>5. f \notin Roots
  <2>1. f \in Roots => req[r].kind = "patch" /\ p = req[r].copy.parent
    BY <1>1, <1>2 DEF Fits
  <2>2. req[r].kind = "patch" => row = req[r].copy
    BY DEF Copy
  <2>3. QED BY <1>3, <2>1, <2>2
<1>6. p \in folders /\ row.parent \in folders /\ p \in Folders /\ row.parent \in Folders
  BY <1>3, <1>4, <1>5, LibraryAssumption
<1>7. sub \in SUBSET Folders
  BY <1>1, <1>4, SubtreeTyped
<1>8. tree_root[p] \in Folders /\ owner[p] \in Owners /\ owner[row.parent] \in Owners
  BY <1>6 DEF Typed, TypeOK, Rows
<1>9. req' = [req EXCEPT ![r] = q]
      /\ UNCHANGED <<folderVars, linkVars, countVars, orgVars, lock, made>>
  BY DEF ReadMove
<1>10. past' \in [unlocked: BOOLEAN, stale: BOOLEAN, swept: BOOLEAN, rows: SUBSET Tables]
  BY DEF ReadMove, Typed, TypeOK
<1> HIDE DEF sub, row
<1>11. q \in Request /\ Fits(q)
  <2>1. tree_root[p] \in FolderOrNone BY <1>8 DEF FolderOrNone
  <2>2. q \in Request BY <1>1, <1>7, <1>8, <2>1 DEF Request, Stage
  <2>3. /\ q.stage = "save" /\ q.kind = req[r].kind /\ q.folder = f /\ q.parent = p
        /\ q.parent_root = req[r].parent_root /\ q.new_root = tree_root[p]
        /\ q.copy = req[r].copy
    BY <1>1 DEF Request
  <2> HIDE DEF q
  <2>4. QED BY <1>1, <1>2, <1>4, <1>5, <1>8, <2>2, <2>3 DEF Fits
<1>12. QED
  BY <1>2, <1>9, <1>10, <1>11, RequestTyped, StillTyped DEF Typed, TypeOK

LEMMA CopyRead ==
    ASSUME NEW old \in Request, NEW f \in FolderOrNone, NEW row \in Row
    PROVE  [old EXCEPT !.folder = f, !.copy = row] \in Request
<1> HIDE DEF FolderOrNone, Row
<1> DEFINE mid == [old EXCEPT !.folder = f]
<1>1. mid \in Request
  BY DEF Request
<1>2. [mid EXCEPT !.copy = row] \in Request
  <2> HIDE DEF mid
  <2>1. QED BY <1>1 DEF Request
<1>3. [old EXCEPT !.folder = f, !.copy = row] = [mid EXCEPT !.copy = row]
  OBVIOUS
<1>4. QED BY <1>2, <1>3

LEMMA ReadSharedTyped ==
    ASSUME Typed, NEW r \in Requests, ReadShared(r)
    PROVE  /\ Typed' /\ UNCHANGED <<folderVars, linkVars, countVars, orgVars, lock, made, past>>
           /\ \A s \in Requests \ {r} : req'[s] = req[s]
           /\ req[r].kind = "edit_organization" /\ req'[r].kind = "edit_organization"
           /\ req'[r].folder \in folders /\ req'[r].link = req[r].link
<1>1. /\ req[r] \in Request /\ Fits(req[r]) /\ req[r].stage = "save"
      /\ req[r].kind = "edit_organization"
  BY DEF Typed, TypeOK, ReadShared
<1>2. PICK f \in Roots \cap folders : req' = [req EXCEPT ![r].folder = f, ![r].copy = RowOf(f)]
  BY DEF ReadShared
<1> DEFINE q == [req[r] EXCEPT !.folder = f, !.copy = RowOf(f)]
<1>3. f \in Folders /\ RowOf(f) \in Row /\ RowOf(f).tree_root \in Folders
  BY RowTyped, RowMeans, LibraryAssumption DEF Typed, Rows
<1>4. req' = [req EXCEPT ![r] = q]
      /\ UNCHANGED <<folderVars, linkVars, countVars, orgVars, lock, made, past>>
  BY <1>2 DEF ReadShared
<1> PICK row \in Row : row = RowOf(f)
  BY <1>3
<1>5. /\ q \in Request /\ q.stage = "save" /\ q.kind = req[r].kind /\ q.folder = f
      /\ q.parent = req[r].parent /\ q.row = req[r].row /\ q.from = req[r].from
      /\ q.to = req[r].to /\ q.copy = RowOf(f) /\ q.link = req[r].link
  <2>1. q = [req[r] EXCEPT !.folder = f, !.copy = row]
    OBVIOUS
  <2>2. PICK old \in Request : old = req[r]
    BY <1>1
  <2>3. q = [old EXCEPT !.folder = f, !.copy = row]
    BY <2>1, <2>2
  <2> HIDE DEF q
  <2>4. f \in FolderOrNone
    BY <1>3 DEF FolderOrNone
  <2>5. q \in Request
    BY <2>3, <2>4, CopyRead
  <2>6. /\ q.stage = old.stage /\ q.kind = old.kind /\ q.folder = f /\ q.copy = row
        /\ q.parent = old.parent /\ q.row = old.row /\ q.from = old.from
        /\ q.to = old.to /\ q.link = old.link
    BY <2>3 DEF Request
  <2>7. QED BY <1>1, <2>2, <2>5, <2>6
<1> HIDE DEF q
<1>6. Fits(q)
  BY <1>1, <1>3, <1>5 DEF Fits
<1>7. Typed'
  BY <1>4, <1>5, <1>6, RequestTyped, StillTyped DEF Typed, TypeOK
<1>8. req'[r] = q /\ \A s \in Requests \ {r} : req'[s] = req[s]
  BY <1>4 DEF Typed, TypeOK
<1>9. QED
  BY <1>1, <1>4, <1>5, <1>7, <1>8

LEMMA CountLinksTyped ==
    ASSUME Typed, NEW r \in Requests, CountLinks(r) PROVE Typed'
<1> DEFINE q == [req[r] EXCEPT !.stage = "save"]
<1>1. /\ req[r] \in Request /\ Fits(req[r]) /\ req[r].stage = "read"
      /\ req[r].kind = "delete_organization"
  BY DEF Typed, TypeOK, CountLinks
<1>2. q \in Request /\ Fits(q)
  <2>1. q \in Request BY <1>1 DEF Request, Stage
  <2>2. /\ q.stage = "save" /\ q.kind = req[r].kind /\ q.row = req[r].row
        /\ q.from = req[r].from /\ q.to = req[r].to /\ q.parent = req[r].parent
        /\ q.folder = req[r].folder /\ q.copy = req[r].copy
    BY <1>1 DEF Request
  <2> HIDE DEF q
  <2>3. QED BY <1>1, <2>1, <2>2 DEF Fits
<1>3. /\ req' = [req EXCEPT ![r] = q] \/ req' = [req EXCEPT ![r] = NoReq]
      /\ UNCHANGED <<folderVars, linkVars, countVars, orgVars, lock, made, past>>
  BY DEF CountLinks
<1>4. req' \in [Requests -> Request] /\ \A s \in Requests : Fits(req[s])'
  <2> HIDE DEF q
  <2> QED BY <1>2, <1>3, NoReqTyped, NoReqFits, RequestTyped
<1>5. QED
  BY <1>3, <1>4, StillTyped DEF Typed, TypeOK

LEMMA CompareTyped ==
    ASSUME Typed, NEW r \in Requests, Compare(r) PROVE Typed'
<1> DEFINE table == req[r].row
           rows == {o \in RowsOf(table) : link_count[o] # req[r].counts[o]}
                     \cup {g \in Registrars :
                             /\ table = "registrars"
                             /\ registrar_count[g] # req[r].registrar_counts[g]}
           q == [req[r] EXCEPT !.stage = "save", !.rows = rows]
<1>1. /\ req[r] \in Request /\ Fits(req[r]) /\ req[r].stage = "read" /\ req[r].kind = "reconcile"
  BY DEF Typed, TypeOK, Compare
<1>2. table \in Tables
  BY <1>1 DEF Fits
<1>3. rows \in SUBSET (Owners \cup Registrars)
  <2>1. RowsOf(table) \in SUBSET Owners
    BY <1>2 DEF RowsOf, Tables, Owners
  <2>2. QED BY <2>1
<1>4. req' = [req EXCEPT ![r] = q]
      /\ UNCHANGED <<folderVars, linkVars, countVars, orgVars, lock, made, past>>
  BY DEF Compare
<1> HIDE DEF rows
<1>5. q \in Request /\ Fits(q)
  <2>1. q \in Request BY <1>1, <1>3 DEF Request, Stage
  <2>2. /\ q.stage = "save" /\ q.kind = req[r].kind /\ q.row = req[r].row
        /\ q.parent = req[r].parent
    BY <1>1 DEF Request
  <2> HIDE DEF q
  <2>3. QED BY <1>1, <2>1, <2>2 DEF Fits
<1>6. QED
  BY <1>4, <1>5, RequestTyped, StillTyped DEF Typed, TypeOK

LEMMA ComputePathTyped ==
    ASSUME Typed, NEW r \in Requests, ComputePath(r) PROVE Typed'
<1> DEFINE path == Path(parent, req[r].folder)
           there == \A i \in DOMAIN path : tree_root[path[i]] = req[r].new_root
           root == IF there THEN NoFolder ELSE path[1]
           q == [req[r] EXCEPT !.stage = "save", !.path = path, !.new_root = root]
<1>1. /\ req[r] \in Request /\ Fits(req[r]) /\ req[r].stage = "read" /\ req[r].kind = "fix_path"
      /\ parent \in [Folders -> FolderOrNone]
  BY DEF Typed, TypeOK, ComputePath
<1>2. req[r].folder \in Folders
  BY <1>1 DEF Fits
<1>3. path \in Seq(Folders) /\ path # <<>>
  BY <1>1, <1>2, PathTyped
<1>4. /\ req' = [req EXCEPT ![r] = q] \/ req' = [req EXCEPT ![r] = NoReq]
      /\ UNCHANGED <<folderVars, linkVars, countVars, orgVars, lock, made, past>>
  BY DEF ComputePath
<1> HIDE DEF path
<1>5. root \in FolderOrNone /\ root \in {NoFolder, path[1]}
  BY <1>3 DEF FolderOrNone
<1> HIDE DEF root
<1>6. q \in Request /\ Fits(q)
  <2>1. q \in Request BY <1>1, <1>3, <1>5 DEF Request, Stage
  <2>2. /\ q.stage = "save" /\ q.kind = req[r].kind /\ q.folder = req[r].folder
        /\ q.parent = req[r].parent /\ q.path = path /\ q.new_root = root
    BY <1>1 DEF Request
  <2> HIDE DEF q
  <2>3. QED BY <1>1, <1>3, <1>5, <2>1, <2>2 DEF Fits
<1>7. req' \in [Requests -> Request] /\ \A s \in Requests : Fits(req[s])'
  <2> HIDE DEF q
  <2> QED BY <1>4, <1>6, NoReqTyped, NoReqFits, RequestTyped
<1>8. QED
  BY <1>4, <1>7, StillTyped DEF Typed, TypeOK

LEMMA TransferTyped ==
    ASSUME NEW D, NEW count \in [D -> Nat], NEW old, NEW new, NEW n \in Nat
    PROVE  Transfer(count, old, new, n) \in [D -> Nat]
<1> DEFINE After(o) == CASE o = Personal -> count[o]
                         [] o = old /\ o # Personal /\ count[o] >= n -> count[o] - n
                         [] o = new /\ o # Personal -> count[o] + n
                         [] OTHER -> count[o]
<1>1. ASSUME NEW o \in D PROVE After(o) \in Nat
  OBVIOUS
<1>2. [o \in D |-> After(o)] \in [D -> Nat]
  <2> HIDE DEF After
  <2> QED BY <1>1
<1>3. QED
  BY <1>2 DEF Transfer

LEMMA AdjustTyped ==
    ASSUME TypeOK, NEW count \in [Owners -> Nat], NEW n \in Nat, NEW old_org, NEW new_org,
           NEW old_sponsor, NEW new_sponsor,
           Adjust(count, n, old_org, new_org, old_sponsor, new_sponsor)
    PROVE  link_count' \in [Owners -> Nat] /\ registrar_count' \in [Registrars -> Nat]
<1>1. Transfer(count, OrgRow(old_org), OrgRow(new_org), n) \in [Owners -> Nat]
  BY TransferTyped
<1>2. link_count' \in [Owners -> Nat]
  BY <1>1, TransferTyped DEF Adjust
<1>3. registrar_count \in [Registrars -> Nat]
  BY DEF TypeOK
<1>4. QED
  BY <1>2, <1>3, TransferTyped DEF Adjust

LEMMA CreateFolderTyped ==
    ASSUME Typed, NEW r \in Requests, CreateFolder(r) PROVE Typed'
<1> DEFINE f == req[r].folder
           p == req[r].parent
           par == [parent EXCEPT ![f] = p]
<1>1. Fits(req[r]) /\ req[r].kind = "create_folder" /\ TypeOK /\ Rows
  BY DEF Typed, CreateFolder
<1>2. f \in Folders /\ p \in folders /\ p \in Folders /\ tree_root[p] \in Folders
  BY <1>1 DEF Fits, CreateFolder, Rows
<1>3. par \in [Folders -> FolderOrNone]
  BY <1>1, <1>2 DEF TypeOK, FolderOrNone
<1>4. Path(par, f) \in Seq(Folders)
  BY <1>2, <1>3, PathTyped
<1>5. /\ req' \in [Requests -> Request] /\ \A s \in Requests : Fits(req[s])'
      /\ lock' \in [Folders -> Requests \cup {NoRequest}]
  BY EndTyped DEF CreateFolder
<1>6. /\ folders' = folders \cup {f} /\ spent' = spent \cup {f} /\ parent' = par
      /\ tree_root' = [tree_root EXCEPT ![f] = tree_root[p]]
      /\ owner' = [owner EXCEPT ![f] = owner[p]]
      /\ cached_path' = [cached_path EXCEPT ![f] = Path(par, f)]
      /\ cached_has_children' = [cached_has_children EXCEPT ![p] = TRUE]
      /\ UNCHANGED <<linkVars, countVars, orgVars, made, past>>
  BY DEF CreateFolder
<1>7. TypeOK'
  <2>1. folders' \subseteq Folders /\ spent' \subseteq Folders /\ parent' \in [Folders -> FolderOrNone]
    BY <1>1, <1>2, <1>3, <1>6 DEF TypeOK
  <2>2. tree_root' \in [Folders -> FolderOrNone] /\ owner' \in [Folders -> Owners]
    BY <1>1, <1>2, <1>6 DEF TypeOK, FolderOrNone
  <2>3. cached_path' \in [Folders -> Seq(Folders)] /\ cached_has_children' \in [Folders -> BOOLEAN]
    <3> HIDE DEF f, p, par
    <3> QED BY <1>1, <1>2, <1>4, <1>6 DEF TypeOK
  <2>4. QED
    BY <1>1, <1>5, <1>6, <2>1, <2>2, <2>3 DEF TypeOK, linkVars, countVars, orgVars
<1>8. Rows'
  <2>1. \A g \in folders' \cup Roots : tree_root'[g] \in Folders
    BY <1>1, <1>2, <1>6 DEF Rows, TypeOK
  <2>2. \A g \in folders' \ Roots : parent'[g] \in Folders
    BY <1>1, <1>2, <1>6 DEF Rows, TypeOK
  <2>3. QED
    BY <1>1, <1>6, <2>1, <2>2 DEF Rows, linkVars
<1>9. QED
  BY <1>5, <1>7, <1>8 DEF Typed

LEMMA LinksInTyped ==
    ASSUME NEW fs PROVE LinksIn(fs) \in SUBSET Links /\ Cardinality(LinksIn(fs)) \in Nat
<1>1. LinksIn(fs) \in SUBSET Links
  BY DEF LinksIn, Live
<1>2. QED
  BY <1>1, CountTyped DEF Count

LEMMA MoveFolderTyped ==
    ASSUME Typed, Fresh, NEW r \in Requests, MoveFolder(r) PROVE Typed'
<1> DEFINE f == req[r].folder
           p == req[r].parent
           row == Copy(r)
           old == row.parent
           sub == req[r].subtree \cap (folders \cup {f})
           par == [parent EXCEPT ![f] = p]
           root == req[r].new_root
           new == req[r].new_owner
           moved == {l \in Links : place[l] \cap sub # {}}
           child == Children(parent, old) \ {f} # {}
<1>1. /\ Fits(req[r]) /\ req[r] \in Request /\ req[r].kind \in {"put", "patch"}
      /\ req[r].stage = "save" /\ TypeOK /\ Rows
  BY DEF Typed, TypeOK, MoveFolder
<1>2. f \in Folders /\ p \in Folders /\ root \in Folders /\ new \in Owners /\ f \notin Roots
  BY <1>1 DEF Fits, Request
<1>3. /\ row \in Row /\ row.tree_root \in Folders /\ row.owner \in Owners
      /\ row.cached_path \in Seq(Folders) /\ row.cached_has_children \in BOOLEAN
  <2>1. req[r].kind = "put" => f \in folders
    BY DEF MoveFolder
  <2>2. row \in Row /\ row.tree_root \in Folders
    BY <1>1, <2>1, CopyTyped
  <2>3. QED BY <2>2 DEF Row
<1>4. f \in spent
  BY <1>1 DEF Fresh
<1>5. par \in [Folders -> FolderOrNone]
  BY <1>1, <1>2 DEF TypeOK, FolderOrNone
<1>6. \A g \in Folders : Path(par, g) \in Seq(Folders)
  BY <1>5, PathTyped
<1>7. /\ req' \in [Requests -> Request] /\ \A s \in Requests : Fits(req[s])'
      /\ lock' \in [Folders -> Requests \cup {NoRequest}]
  BY EndTyped DEF MoveFolder
<1>8. /\ folders' = folders \cup {f} /\ parent' = par
      /\ tree_root' = [g \in Folders |-> IF g \in sub THEN root
                                         ELSE [tree_root EXCEPT ![f] = row.tree_root][g]]
      /\ owner' = [g \in Folders |-> IF g \in sub THEN new
                                     ELSE [owner EXCEPT ![f] = row.owner][g]]
      /\ cached_path' = [g \in Folders |-> IF g \in sub THEN Path(par, g)
                                           ELSE IF g = f THEN row.cached_path ELSE cached_path[g]]
      /\ cached_has_children' = [cached_has_children EXCEPT ![f] = row.cached_has_children,
                                                            ![p] = TRUE, ![old] = child]
      /\ organization' = [l \in Links |-> IF l \in moved \cap Live THEN OrgOf(new)
                                          ELSE organization[l]]
      /\ UNCHANGED <<spent, place, status, orgVars, made, past>>
  BY DEF MoveFolder, Updated
<1>9. link_count' \in [Owners -> Nat] /\ registrar_count' \in [Registrars -> Nat]
  <2>1. Cardinality(LinksIn(sub)) \in Nat BY LinksInTyped
  <2>2. link_count \in [Owners -> Nat] BY <1>1 DEF TypeOK
  <2>3. Adjust(link_count, Cardinality(LinksIn(sub)), OrgOf(req[r].old_owner), OrgOf(new),
               SponsorOf(row.owner), SponsorOf(new))
    BY DEF MoveFolder
  <2>4. QED BY <1>1, <2>1, <2>2, <2>3, AdjustTyped
<1>10. OrgOf(new) \in Orgs \cup {Personal}
  BY DEF OrgOf
<1>11. child \in BOOLEAN
  OBVIOUS
<1> HIDE DEF f, p, row, old, sub, par, root, new, moved, child
<1>12. TypeOK'
  <2>1. parent' \in [Folders -> FolderOrNone] /\ folders' \subseteq Folders
    BY <1>1, <1>2, <1>5, <1>8 DEF TypeOK
  <2>2. tree_root' \in [Folders -> FolderOrNone]
    BY <1>1, <1>2, <1>3, <1>8 DEF TypeOK, FolderOrNone
  <2>3. owner' \in [Folders -> Owners]
    BY <1>1, <1>2, <1>3, <1>8 DEF TypeOK
  <2>4. cached_path' \in [Folders -> Seq(Folders)]
    BY <1>1, <1>3, <1>6, <1>8 DEF TypeOK
  <2>5. cached_has_children' \in [Folders -> BOOLEAN]
    BY <1>1, <1>3, <1>8, <1>11 DEF TypeOK
  <2>6. organization' \in [Links -> Orgs \cup {Personal}]
    BY <1>1, <1>8, <1>10 DEF TypeOK
  <2>7. QED
    BY <1>1, <1>7, <1>8, <1>9, <2>1, <2>2, <2>3, <2>4, <2>5, <2>6 DEF TypeOK, orgVars
<1>13. Rows'
  <2>1. \A g \in folders' \cup Roots : tree_root'[g] \in Folders
    <3>1. folders \cup Roots \subseteq Folders BY <1>1, LibraryAssumption DEF TypeOK
    <3>2. QED BY <1>1, <1>2, <1>3, <1>8, <3>1 DEF Rows, TypeOK
  <2>2. \A g \in folders' \ Roots : parent'[g] \in Folders
    BY <1>1, <1>2, <1>8 DEF Rows, TypeOK, par
  <2>3. \A l \in Links : status[l] = "none" => l \notin moved
    BY <1>1 DEF Rows, moved
  <2>4. \A l \in Links : status'[l] = "none" => place'[l] = {} /\ organization'[l] = Personal
    BY <1>1, <1>8, <2>3 DEF Rows
  <2>5. folders' \subseteq spent' /\ Roots \subseteq spent'
        /\ \A l \in Links : place'[l] \subseteq folders'
    BY <1>1, <1>4, <1>8 DEF Rows
  <2>6. QED
    BY <2>1, <2>2, <2>4, <2>5 DEF Rows
<1>14. QED
  BY <1>7, <1>12, <1>13 DEF Typed

LEMMA DeleteFolderTyped ==
    ASSUME Typed, NEW r \in Requests, DeleteFolder(r) PROVE Typed'
<1> DEFINE f == req[r].folder
           gone == Below(f, folders)
           p == parent[f]
           child == Children(parent, p) \ gone # {}
<1>1. Fits(req[r]) /\ req[r].kind = "delete_folder" /\ TypeOK /\ Rows
  BY DEF Typed, DeleteFolder
<1>2. f \in Folders
  BY <1>1 DEF Fits
<1>3. gone \in SUBSET Folders
  BY <1>1, <1>2, BelowTyped DEF TypeOK
<1>4. /\ req' \in [Requests -> Request] /\ \A s \in Requests : Fits(req[s])'
      /\ lock' \in [Folders -> Requests \cup {NoRequest}]
  BY EndTyped DEF DeleteFolder
<1>5. /\ folders' = folders \ gone
      /\ place' = [l \in Links |-> place[l] \ gone]
      /\ parent' = [g \in Folders |-> IF g \in gone THEN NoFolder ELSE parent[g]]
      /\ cached_has_children' = [cached_has_children EXCEPT ![p] = child]
      /\ UNCHANGED <<spent, tree_root, owner, cached_path, organization, status, countVars,
                     orgVars, made>>
  BY DEF DeleteFolder
<1>6. past' \in [unlocked: BOOLEAN, stale: BOOLEAN, swept: BOOLEAN, rows: SUBSET Tables]
  BY <1>1 DEF DeleteFolder, TypeOK
<1> HIDE DEF f, gone, p, child
<1>7. TypeOK'
  <2>1. folders' \subseteq Folders /\ parent' \in [Folders -> FolderOrNone]
    BY <1>1, <1>5 DEF TypeOK, FolderOrNone
  <2>2. place' \in [Links -> SUBSET Folders]
    BY <1>1, <1>5 DEF TypeOK
  <2>3. cached_has_children' \in [Folders -> BOOLEAN]
    <3>1. child \in BOOLEAN BY DEF child
    <3>2. QED BY <1>1, <1>5, <3>1 DEF TypeOK
  <2>4. QED
    BY <1>1, <1>4, <1>5, <1>6, <2>1, <2>2, <2>3 DEF TypeOK, countVars, orgVars
<1>8. Rows'
  <2>1. \A g \in folders' \ Roots : parent'[g] \in Folders
    BY <1>1, <1>5 DEF Rows, TypeOK
  <2>2. \A l \in Links : place'[l] \subseteq folders'
    BY <1>1, <1>5 DEF Rows, TypeOK
  <2>3. \A l \in Links : status'[l] = "none" => place'[l] = {} /\ organization'[l] = Personal
    BY <1>1, <1>5 DEF Rows
  <2>4. QED
    BY <1>1, <1>5, <2>1, <2>2, <2>3 DEF Rows
<1>9. QED
  BY <1>4, <1>7, <1>8 DEF Typed

LEMMA UserCountTyped ==
    ASSUME TypeOK
    PROVE  OneMoreOfUser \in [Owners -> Nat] /\ OneLessOfUser \in [Owners -> Nat]
<1>1. Personal \in Owners /\ link_count \in [Owners -> Nat]
  BY DEF TypeOK, Owners
<1>2. PICK n \in Nat : n = link_count[Personal]
  BY <1>1
<1>3. OneMoreOfUser \in [Owners -> Nat]
  BY <1>1, <1>2 DEF OneMoreOfUser
<1>4. OneLessOfUser \in [Owners -> Nat]
  <2>1. (IF n >= 1 THEN n - 1 ELSE n) \in Nat BY <1>2
  <2>2. QED BY <1>1, <1>2, <2>1 DEF OneLessOfUser
<1>5. QED
  BY <1>3, <1>4

LEMMA SaveLinkTyped ==
    ASSUME Typed, NEW r \in Requests, SaveLink(r) PROVE Typed'
<1> DEFINE l == req[r].link
           p == req[r].parent
           new == req[r].parent_owner
           count == IF req[r].kind = "create_link" THEN OneMoreOfUser ELSE link_count
<1>1. Fits(req[r]) /\ req[r].kind \in {"create_link", "move_link"} /\ TypeOK /\ Rows
  BY DEF Typed, SaveLink
<1>2. l \in Links /\ p \in folders /\ p \in Folders
  BY <1>1 DEF Fits, SaveLink
<1>3. /\ req' \in [Requests -> Request] /\ \A s \in Requests : Fits(req[s])'
      /\ lock' \in [Folders -> Requests \cup {NoRequest}]
  BY EndTyped DEF SaveLink
<1>4. /\ place' = [place EXCEPT ![l] = {p}]
      /\ organization' = [organization EXCEPT ![l] = OrgOf(new)]
      /\ status' = [status EXCEPT ![l] = IF @ = "none" THEN "live" ELSE @]
      /\ Adjust(count, 1, req[r].link_org, OrgOf(new), SponsoredBy(l), SponsorOf(new))
      /\ UNCHANGED <<folderVars, orgVars, made>>
  BY DEF SaveLink, Refiled
<1>5. past' \in [unlocked: BOOLEAN, stale: BOOLEAN, swept: BOOLEAN, rows: SUBSET Tables]
  BY <1>1 DEF SaveLink, TypeOK
<1>6. count \in [Owners -> Nat]
  BY <1>1, UserCountTyped DEF TypeOK
<1> HIDE DEF count, new, l, p
<1>7. link_count' \in [Owners -> Nat] /\ registrar_count' \in [Registrars -> Nat]
  BY <1>1, <1>4, <1>6, AdjustTyped
<1>8. OrgOf(new) \in Orgs \cup {Personal}
  BY DEF OrgOf
<1>9. TypeOK'
  <2>1. place' \in [Links -> SUBSET Folders] /\ organization' \in [Links -> Orgs \cup {Personal}]
    BY <1>1, <1>2, <1>4, <1>8 DEF TypeOK
  <2>2. status' \in [Links -> {"none", "live", "deleted"}]
    BY <1>1, <1>4 DEF TypeOK
  <2>3. QED
    BY <1>1, <1>3, <1>4, <1>5, <1>7, <2>1, <2>2 DEF TypeOK, folderVars, orgVars
<1>10. Rows'
  <2>1. \A k \in Links : place'[k] \subseteq folders'
    BY <1>1, <1>2, <1>4 DEF Rows, TypeOK, folderVars
  <2>2. \A k \in Links : status'[k] = "none" => place'[k] = {} /\ organization'[k] = Personal
    BY <1>1, <1>2, <1>4 DEF Rows, TypeOK
  <2>3. QED
    BY <1>1, <1>4, <2>1, <2>2 DEF Rows, folderVars
<1>11. QED
  BY <1>3, <1>9, <1>10 DEF Typed

LEMMA DeleteLinkTyped ==
    ASSUME Typed, NEW l \in Links, DeleteLink(l) PROVE Typed'
<1>1. TypeOK /\ Rows
  BY DEF Typed
<1>2. /\ made < MaxRequests /\ made' = made + 1 /\ status' = [status EXCEPT ![l] = "deleted"]
      /\ Adjust(OneLessOfUser, 1, organization[l], Personal, SponsoredBy(l), Personal)
      /\ UNCHANGED <<folderVars, place, organization, orgVars, lock, req, past>>
  BY DEF DeleteLink
<1>3. OneLessOfUser \in [Owners -> Nat]
  BY <1>1, UserCountTyped
<1>4. link_count' \in [Owners -> Nat] /\ registrar_count' \in [Registrars -> Nat]
  BY <1>1, <1>2, <1>3, AdjustTyped
<1>5. status' \in [Links -> {"none", "live", "deleted"}] /\ made' \in 0..MaxRequests
  BY <1>1, <1>2, LibraryAssumption DEF TypeOK
<1>6. TypeOK'
  BY <1>1, <1>2, <1>4, <1>5 DEF TypeOK, folderVars, orgVars
<1>7. Rows'
  BY <1>1, <1>2 DEF Rows, TypeOK, folderVars
<1>8. QED
  BY <1>2, <1>6, <1>7 DEF Typed

LEMMA SaveOrganizationTyped ==
    ASSUME Typed, NEW r \in Requests, SaveOrganization(r) PROVE Typed'
<1> DEFINE o == req[r].row
           deleting == req[r].kind = "delete_organization"
<1>1. /\ Fits(req[r]) /\ req[r] \in Request /\ TypeOK /\ Rows
      /\ req[r].kind \in {"edit_organization", "delete_organization"}
  BY DEF Typed, TypeOK, SaveOrganization
<1>2. o \in Orgs /\ o \in Owners /\ req[r].from \in Registrars /\ req[r].to \in Registrars
  BY <1>1 DEF Fits, Owners
<1>3. req[r].counts \in [Owners -> Nat]
  BY <1>1 DEF Request
<1>4. /\ req' \in [Requests -> Request] /\ \A s \in Requests : Fits(req[s])'
      /\ lock' \in [Folders -> Requests \cup {NoRequest}]
  BY EndTyped DEF SaveOrganization
<1>5. /\ registrar' = [registrar EXCEPT ![o] = req[r].to]
      /\ user_deleted' = [user_deleted EXCEPT ![o] = deleting]
      /\ link_count' = Written(r, {o})
      /\ registrar_count' = Transfer(registrar_count, req[r].from, req[r].to, req[r].counts[o])
      /\ UNCHANGED <<linkVars, made>>
  BY DEF SaveOrganization, RegistrarChanged
<1>6. past' \in [unlocked: BOOLEAN, stale: BOOLEAN, swept: BOOLEAN, rows: SUBSET Tables]
  <2>1. PICK unlocked \in BOOLEAN, rows \in SUBSET Tables :
           past' = [past EXCEPT !.unlocked = @ \/ unlocked, !.rows = @ \cup rows]
    <3> DEFINE undone == req[r].folder # NoFolder /\ Undoes(req[r].folder, req[r].copy)
               overtaken == \/ req[r].counts[o] # link_count[o]
                            \/ req[r].from # registrar[o] \/ user_deleted[o]
               left == \/ deleting /\ LinksOf(o) # {}
                       \/ req[r].from # req[r].to /\ "organizations" \in past.rows
               some == IF overtaken THEN {"organizations", "registrars"} ELSE {}
               more == IF left THEN {"registrars"} ELSE {}
    <3>1. past' = [past EXCEPT !.unlocked = @ \/ undone, !.rows = @ \cup some \cup more]
      BY DEF SaveOrganization
    <3>2. undone \in BOOLEAN
      BY DEF Undoes
    <3>3. some \cup more \in SUBSET Tables
      BY DEF Tables
    <3> HIDE DEF undone, some, more
    <3>4. past.rows \cup some \cup more = past.rows \cup (some \cup more)
      OBVIOUS
    <3>5. past' = [past EXCEPT !.unlocked = @ \/ undone, !.rows = @ \cup (some \cup more)]
      BY <3>1, <3>4
    <3>6. QED BY <3>2, <3>3, <3>5
  <2>2. QED BY <1>1, <2>1 DEF TypeOK
<1>7. link_count' \in [Owners -> Nat]
  BY <1>1, <1>3, <1>5 DEF Written, TypeOK
<1>8. registrar_count' \in [Registrars -> Nat]
  <2>1. req[r].counts[o] \in Nat /\ registrar_count \in [Registrars -> Nat]
    BY <1>1, <1>2, <1>3 DEF TypeOK
  <2>2. QED BY <1>5, <2>1, TransferTyped
<1> HIDE DEF deleting
<1>9. registrar' \in [Orgs -> Registrars] /\ user_deleted' \in [Orgs -> BOOLEAN]
  BY <1>1, <1>2, <1>5 DEF TypeOK, deleting
<1>10. \/ UNCHANGED folderVars
       \/ /\ req[r].folder \in Roots /\ SaveRow(req[r].folder, req[r].copy)
          /\ req[r].copy \in Row /\ req[r].copy.tree_root \in Folders
  <2>1. req[r].folder # NoFolder => req[r].folder \in Roots /\ req[r].copy.tree_root \in Folders
    BY <1>1 DEF Fits
  <2>2. req[r].copy \in Row
    BY <1>1 DEF Request
  <2>3. QED BY <2>1, <2>2 DEF SaveOrganization
<1>11. /\ folders' \subseteq Folders /\ spent' \subseteq Folders
       /\ parent' \in [Folders -> FolderOrNone]
       /\ tree_root' \in [Folders -> FolderOrNone]
       /\ owner' \in [Folders -> Owners]
       /\ cached_path' \in [Folders -> Seq(Folders)]
       /\ cached_has_children' \in [Folders -> BOOLEAN]
       /\ folders' \subseteq spent' /\ Roots \subseteq spent' /\ folders \subseteq folders'
       /\ \A g \in folders' \cup Roots : tree_root'[g] \in Folders
       /\ \A g \in folders' \ Roots : parent'[g] \in Folders
  <2>1. CASE UNCHANGED folderVars
    BY <1>1, <2>1 DEF folderVars, TypeOK, Rows
  <2>2. CASE /\ req[r].folder \in Roots /\ SaveRow(req[r].folder, req[r].copy)
             /\ req[r].copy \in Row /\ req[r].copy.tree_root \in Folders
    <3>1. req[r].folder \in Folders /\ req[r].folder \in spent
      BY <1>1, <2>2, LibraryAssumption DEF Rows
    <3> PICK f \in Folders, row \in Row : f = req[r].folder /\ row = req[r].copy
      BY <2>2, <3>1
    <3>2. SaveRow(f, row) /\ f \in spent /\ row.tree_root \in Folders
          /\ (f \notin Roots => row.parent \in Folders)
      BY <2>2, <3>1
    <3>3. QED BY <3>2, SaveRowTyped
  <2>3. QED BY <1>10, <2>1, <2>2
<1>12. TypeOK'
  BY <1>1, <1>4, <1>5, <1>6, <1>7, <1>8, <1>9, <1>11 DEF TypeOK, linkVars
<1>13. Rows'
  BY <1>1, <1>5, <1>11 DEF Rows, linkVars
<1>14. QED
  BY <1>4, <1>12, <1>13 DEF Typed

LEMMA RowsWrittenTyped ==
    ASSUME Typed, NEW r \in Requests, SaveRegistrar(r) \/ SaveUser(r) \/ Reconcile(r)
    PROVE  Typed'
<1>1. req[r] \in Request /\ TypeOK /\ Rows
  BY DEF Typed, TypeOK
<1>2. req[r].counts \in [Owners -> Nat] /\ req[r].registrar_counts \in [Registrars -> Nat]
  BY <1>1 DEF Request
<1>3. \A owners : Written(r, owners) \in [Owners -> Nat]
  BY <1>1, <1>2 DEF Written, TypeOK
<1>4. \A gs : WrittenOfRegistrars(r, gs) \in [Registrars -> Nat]
  BY <1>1, <1>2 DEF WrittenOfRegistrars, TypeOK
<1>5. /\ End(r) /\ UNCHANGED <<folderVars, linkVars, orgVars, made>>
      /\ link_count' \in [Owners -> Nat] /\ registrar_count' \in [Registrars -> Nat]
      /\ past' \in [unlocked: BOOLEAN, stale: BOOLEAN, swept: BOOLEAN, rows: SUBSET Tables]
  <2>1. CASE SaveRegistrar(r)
    BY <1>1, <1>3, <1>4, <2>1 DEF SaveRegistrar, TypeOK, Tables
  <2>2. CASE SaveUser(r)
    BY <1>1, <1>3, <2>2 DEF SaveUser, TypeOK, Tables
  <2>3. CASE Reconcile(r)
    <3>1. req[r].row \in Tables
      BY <1>1, <2>3 DEF Reconcile, Typed, Fits
    <3>2. past' \in [unlocked: BOOLEAN, stale: BOOLEAN, swept: BOOLEAN, rows: SUBSET Tables]
      <4>1. PICK quiet \in BOOLEAN : past' = [past EXCEPT !.rows = IF quiet THEN @ \ {req[r].row}
                                                                ELSE @ \cup {req[r].row}]
        BY <2>3 DEF Reconcile
      <4>2. QED BY <1>1, <3>1, <4>1 DEF TypeOK
    <3>3. QED BY <1>3, <1>4, <2>3, <3>2 DEF Reconcile
  <2>4. QED BY <2>1, <2>2, <2>3
<1>6. /\ req' \in [Requests -> Request] /\ \A s \in Requests : Fits(req[s])'
      /\ lock' \in [Folders -> Requests \cup {NoRequest}]
  BY <1>5, EndTyped
<1>7. TypeOK'
  BY <1>1, <1>5, <1>6 DEF TypeOK, folderVars, linkVars, orgVars
<1>8. Rows'
  BY <1>1, <1>5 DEF Rows, folderVars, linkVars
<1>9. QED
  BY <1>6, <1>7, <1>8 DEF Typed

LEMMA SavePathTyped ==
    ASSUME Typed, NEW r \in Requests, SavePath(r) PROVE Typed'
<1> DEFINE f == req[r].folder
           root == req[r].new_root
<1>1. Fits(req[r]) /\ req[r] \in Request /\ req[r].kind = "fix_path" /\ TypeOK /\ Rows
      /\ req[r].stage = "save"
  BY DEF Typed, TypeOK, SavePath
<1>2. f \in Folders /\ root \in Folders \cup {NoFolder} /\ req[r].path \in Seq(Folders)
  BY <1>1 DEF Fits, Request, FolderOrNone
<1>3. /\ req' \in [Requests -> Request] /\ \A s \in Requests : Fits(req[s])'
      /\ lock' \in [Folders -> Requests \cup {NoRequest}]
  BY EndTyped DEF SavePath
<1>4. /\ cached_path' = [cached_path EXCEPT ![f] = req[r].path]
      /\ tree_root' = IF root = NoFolder THEN tree_root ELSE [tree_root EXCEPT ![f] = root]
      /\ UNCHANGED <<folders, spent, parent, owner, cached_has_children, linkVars, countVars,
                     orgVars, made>>
  BY DEF SavePath
<1>5. past' \in [unlocked: BOOLEAN, stale: BOOLEAN, swept: BOOLEAN, rows: SUBSET Tables]
  BY <1>1 DEF SavePath, TypeOK
<1> HIDE DEF f, root
<1>6. /\ cached_path' \in [Folders -> Seq(Folders)] /\ tree_root' \in [Folders -> FolderOrNone]
      /\ \A g \in folders \cup Roots : tree_root'[g] \in Folders
  <2>1. folders \cup Roots \subseteq Folders BY <1>1, LibraryAssumption DEF TypeOK
  <2>2. cached_path' \in [Folders -> Seq(Folders)] BY <1>1, <1>2, <1>4 DEF TypeOK
  <2>3. CASE root = NoFolder BY <1>1, <1>4, <2>2, <2>3 DEF TypeOK, Rows
  <2>4. CASE root # NoFolder
    BY <1>1, <1>2, <1>4, <2>1, <2>2, <2>4 DEF TypeOK, Rows, FolderOrNone
  <2>5. QED BY <2>3, <2>4
<1>7. TypeOK'
  BY <1>1, <1>3, <1>4, <1>5, <1>6 DEF TypeOK, linkVars, countVars, orgVars
<1>8. Rows'
  BY <1>1, <1>4, <1>6 DEF Rows, linkVars
<1>9. QED
  BY <1>3, <1>7, <1>8 DEF Typed

LEMMA TypedStep ==
    ASSUME Typed, Fresh, [AdminNext]_vars PROVE Typed'
<1>1. CASE UNCHANGED vars
  <2>1. /\ UNCHANGED <<folderVars, linkVars, countVars, orgVars, made>>
        /\ UNCHANGED <<req, lock, past>>
    BY <1>1 DEF vars
  <2>2. QED BY <2>1, StillTyped DEF Typed, TypeOK
<1>2. ASSUME NEW r \in Requests, Begin(r) PROVE Typed'
  <2>1. CASE \/ \E f \in Folders, p \in folders :
                    LoadCreateFolder(r, f, p) \/ LoadPut(r, f, p)
             \/ \E f \in folders, p \in folders \cup {NoFolder} : LoadPatch(r, f, p)
    BY <2>1, LoadCreateFolderTyped, LoadPutTyped, LoadPatchTyped
  <2>2. CASE \E f \in folders : LoadDeleteFolder(r, f)
    BY <2>2, LoadDeleteFolderTyped
  <2>3. CASE \E l \in Links, p \in folders : LoadCreateLink(r, l, p) \/ LoadMoveLink(r, l, p)
    BY <2>3, LoadLinkTyped DEF LoadCreateLink, LoadMoveLink
  <2>4. QED BY <1>2, <2>1, <2>2, <2>3 DEF Begin
<1>3. ASSUME NEW r \in Requests, Working(r) PROVE Typed'
  BY <1>3, OpenTyped, LockTyped, ReadMoveTyped, SaveFolderTyped, CreateFolderTyped,
     MoveFolderTyped, DeleteFolderTyped, SaveLinkTyped, EndingTyped DEF Working
<1>4. ASSUME NEW r \in Requests, BeginAdmin(r) PROVE Typed'
  BY <1>4, LoadEditOrganizationTyped, LoadDeleteOrganizationTyped, LoadEditRegistrarTyped,
     LoadEditUserTyped, LoadReconcileTyped, LoadFixPathTyped DEF BeginAdmin
<1>5. ASSUME NEW r \in Requests, Administering(r) PROVE Typed'
  BY <1>5, CountLinksTyped, ReadSharedTyped, SaveOrganizationTyped, RowsWrittenTyped, CompareTyped,
     ComputePathTyped, SavePathTyped DEF Administering
<1>6. QED
  BY <1>1, <1>2, <1>3, <1>4, <1>5, DeleteLinkTyped DEF AdminNext, Next

----------------------------------------------------------------------------
(* Rows that are written whole.                                            *)

\* It inserts the row or leaves the folders that exist.
LEMMA RowSaved ==
    ASSUME NEW r \in Requests, SaveFolder(r) \/ SaveOrganization(r)
    PROVE  UNCHANGED spent /\ folders \subseteq folders'
<1>1. CASE SaveFolder(r)
  <2>1. SaveRow(req[r].folder, Copy(r)) BY <1>1 DEF SaveFolder
  <2>2. QED BY <2>1 DEF SaveRow
<1>2. CASE SaveOrganization(r)
  <2>1. SaveRow(req[r].folder, req[r].copy) \/ UNCHANGED folderVars
    BY <1>2 DEF SaveOrganization
  <2>2. QED BY <2>1 DEF SaveRow, folderVars
<1>3. QED BY <1>1, <1>2

\* A row written as it is.
LEMMA SaveRowStill ==
    ASSUME Typed, NEW f \in Folders, NEW row, SaveRow(f, row), ~Undoes(f, row)
    PROVE  UNCHANGED folderVars
<1>1. f \in folders /\ row = RowOf(f) /\ f \in Folders
  BY DEF Undoes
<1>2. /\ row.parent = parent[f] /\ row.tree_root = tree_root[f] /\ row.owner = owner[f]
      /\ row.cached_path = cached_path[f]
      /\ row.cached_has_children = cached_has_children[f]
  BY <1>1, RowMeans
<1>3. folders' = folders /\ parent' = parent /\ tree_root' = tree_root /\ UNCHANGED spent
  BY <1>1, <1>2 DEF SaveRow, Typed, TypeOK
<1>4. owner' = owner /\ cached_path' = cached_path /\ cached_has_children' = cached_has_children
  BY <1>1, <1>2 DEF SaveRow, Typed, TypeOK
<1>5. QED
  BY <1>3, <1>4 DEF folderVars

\* Unless it undoes what others have done, which past.unlocked tells.
LEMMA RowStill ==
    ASSUME Typed, NEW r \in Requests, SaveFolder(r) \/ SaveOrganization(r), ~past'.unlocked
    PROVE  UNCHANGED folderVars
<1>1. past \in [unlocked: BOOLEAN, stale: BOOLEAN, swept: BOOLEAN, rows: SUBSET Tables]
  BY DEF Typed, TypeOK
<1>2. CASE SaveFolder(r)
  <2>1. past' = [past EXCEPT !.unlocked = @ \/ Undoes(req[r].folder, Copy(r))]
        /\ SaveRow(req[r].folder, Copy(r)) /\ req[r].kind \in {"put", "patch"}
    BY <1>2 DEF SaveFolder
  <2>2. ~Undoes(req[r].folder, Copy(r))
    BY <1>1, <2>1
  <2>3. req[r].folder \in Folders
    BY <2>1, CopyTyped
  <2>4. QED BY <2>1, <2>2, <2>3, SaveRowStill
<1>3. CASE SaveOrganization(r)
  <2>1. CASE req[r].folder = NoFolder
    BY <1>3, <2>1 DEF SaveOrganization
  <2>2. CASE req[r].folder # NoFolder
    <3>1. PICK rows : past' = [past EXCEPT !.unlocked = @ \/ Undoes(req[r].folder, req[r].copy),
                                           !.rows = rows]
      BY <1>3, <2>2 DEF SaveOrganization
    <3>2. ~Undoes(req[r].folder, req[r].copy)
      BY <1>1, <3>1
    <3>3. SaveRow(req[r].folder, req[r].copy)
      BY <1>3, <2>2 DEF SaveOrganization
    <3>4. req[r].folder \in Folders
      BY <1>3, <2>2 DEF SaveOrganization, Typed, TypeOK, Request, FolderOrNone
    <3>5. QED BY <3>2, <3>3, <3>4, SaveRowStill
  <2>3. QED BY <2>1, <2>2
<1>4. QED BY <1>2, <1>3

----------------------------------------------------------------------------
(* The rows that are about to be inserted.                                 *)

LEMMA FreshKept ==
    ASSUME Typed, Fresh,
           \A s \in Requests :
              \/ req'[s] = NoReq
              \/ /\ req'[s].kind = req[s].kind /\ req'[s].folder = req[s].folder
                 /\ req'[s].link = req[s].link /\ req'[s].link_org = req[s].link_org,
           \A s \in Requests : req'[s].kind = "create_folder" => req'[s].folder \notin spent',
           \A s \in Requests : req'[s].kind = "create_link" => status'[req'[s].link] = "none",
           spent \subseteq spent'
    PROVE  Fresh'
<1>1. NoReq.kind = "none" /\ NoReq.folder = NoFolder /\ NoReq.link = NoLink
  BY DEF NoReq
<1>2. ASSUME NEW r \in Requests, req'[r].kind = "create_folder", NEW q \in Requests \ {r}
      PROVE  req'[q].folder # req'[r].folder
  <2>1. req[r].kind = "create_folder" /\ req'[r].folder = req[r].folder
    BY <1>1, <1>2
  <2>2. req[r].folder \in Folders
    BY <2>1 DEF Typed, Fits
  <2>3. QED BY <1>1, <2>1, <2>2, LibraryAssumption DEF Fresh
<1>3. ASSUME NEW r \in Requests, req'[r].kind = "create_link", NEW q \in Requests \ {r}
      PROVE  req'[q].link # req'[r].link
  <2>1. req[r].kind = "create_link" /\ req'[r].link = req[r].link
    BY <1>1, <1>3
  <2>2. req[r].link \in Links
    BY <2>1 DEF Typed, Fits
  <2>3. QED BY <1>1, <2>1, <2>2, LibraryAssumption DEF Fresh
<1>4. ASSUME NEW r \in Requests, req'[r].kind = "create_link" PROVE req'[r].link_org = Personal
  BY <1>1, <1>4 DEF Fresh
<1>5. ASSUME NEW r \in Requests, req'[r].kind \in {"put", "patch"}
      PROVE  req'[r].folder \in spent'
  BY <1>1, <1>5 DEF Fresh
<1>6. QED
  BY <1>2, <1>3, <1>4, <1>5 DEF Fresh

\* Requests that lose their rows, or go on with them, while no row is inserted.
LEMMA FreshWhileWorking ==
    ASSUME Typed, Fresh, UNCHANGED <<spent, status>>,
           \A s \in Requests :
              \/ req'[s] = NoReq
              \/ /\ req'[s].kind = req[s].kind /\ req'[s].folder = req[s].folder
                 /\ req'[s].link = req[s].link /\ req'[s].link_org = req[s].link_org
    PROVE  Fresh'
<1>1. NoReq.kind = "none"
  BY DEF NoReq
<1>2. \A s \in Requests : req'[s].kind = "create_folder" => req'[s].folder \notin spent'
  BY <1>1 DEF Fresh
<1>3. \A s \in Requests : req'[s].kind = "create_link" => status'[req'[s].link] = "none"
  BY <1>1 DEF Fresh
<1>4. QED
  BY <1>2, <1>3, FreshKept

LEMMA FreshLoaded ==
    ASSUME Typed, Fresh, NEW r \in Requests, UNCHANGED <<spent, status>>,
           \A s \in Requests \ {r} : req'[s] = req[s],
           \/ req'[r].folder \in spent \cup {NoFolder}
           \/ \A s \in Requests \ {r} : req[s].folder # req'[r].folder,
           \/ req'[r].link = NoLink
           \/ status[req'[r].link] # "none"
           \/ \A s \in Requests \ {r} : req[s].link # req'[r].link,
           req'[r].kind = "create_folder" =>
             /\ req'[r].folder \notin spent
             /\ \A s \in Requests \ {r} : req[s].folder # req'[r].folder,
           req'[r].kind = "create_link" =>
             /\ status[req'[r].link] = "none" /\ req'[r].link_org = Personal
             /\ \A s \in Requests \ {r} : req[s].link # req'[r].link,
           req'[r].kind \in {"put", "patch"} => req'[r].folder \in spent
    PROVE  Fresh'
<1>1. ASSUME NEW s \in Requests \ {r}, req[s].kind = "create_folder"
      PROVE  req[s].folder # req'[r].folder
  <2>1. req[s].folder \in Folders BY <1>1 DEF Typed, Fits
  <2>2. req[s].folder \notin spent BY <1>1 DEF Fresh
  <2>3. QED BY <2>1, <2>2, LibraryAssumption
<1>2. ASSUME NEW s \in Requests \ {r}, req[s].kind = "create_link"
      PROVE  req[s].link # req'[r].link
  <2>1. req[s].link \in Links BY <1>2 DEF Typed, Fits
  <2>2. status[req[s].link] = "none" BY <1>2 DEF Fresh
  <2>3. QED BY <2>1, <2>2, LibraryAssumption
<1>3. ASSUME NEW s \in Requests, req'[s].kind = "create_folder"
      PROVE  /\ req'[s].folder \notin spent'
             /\ \A q \in Requests \ {s} : req'[q].folder # req'[s].folder
  BY <1>1, <1>3 DEF Fresh
<1>4. ASSUME NEW s \in Requests, req'[s].kind = "create_link"
      PROVE  /\ status'[req'[s].link] = "none" /\ req'[s].link_org = Personal
             /\ \A q \in Requests \ {s} : req'[q].link # req'[s].link
  BY <1>2, <1>4 DEF Fresh
<1>5. ASSUME NEW s \in Requests, req'[s].kind \in {"put", "patch"}
      PROVE  req'[s].folder \in spent'
  BY <1>5 DEF Fresh
<1>6. QED
  BY <1>3, <1>4, <1>5 DEF Fresh

LEMMA EndMeans ==
    ASSUME Typed, NEW r \in Requests, End(r)
    PROVE  /\ req'[r] = NoReq /\ \A s \in Requests \ {r} : req'[s] = req[s]
           /\ \A f \in Folders : lock'[f] = IF lock[f] = r THEN NoRequest ELSE lock[f]
  BY DEF End, Release, Typed, TypeOK

LEMMA FreshBegin ==
    ASSUME Typed, Fresh, NEW r \in Requests, Begin(r) \/ BeginAdmin(r)
    PROVE  Fresh'
<1>1. UNCHANGED <<spent, status>>
  BY DEF Begin, BeginAdmin, LoadCreateFolder, LoadPut, LoadPatch, LoadDeleteFolder,
     LoadCreateLink, LoadMoveLink, LoadLink, LoadEditOrganization, LoadDeleteOrganization,
     LoadEditRegistrar, LoadEditUser, LoadReconcile, LoadFixPath, Load, folderVars, linkVars
<1>2. folders \subseteq spent /\ folders \subseteq Folders /\ \A l \in Links :
        status[l] = "none" => organization[l] = Personal
  BY DEF Typed, TypeOK, Rows
<1>3. ASSUME NEW f \in Folders, NEW p \in folders, LoadCreateFolder(r, f, p) PROVE Fresh'
  BY <1>1, <1>3, LoadCreateFolderTyped, FreshLoaded DEF LoadCreateFolder
<1>4. ASSUME NEW f \in Folders, NEW p \in folders, LoadPut(r, f, p) PROVE Fresh'
  <2>1. f \in spent BY <1>2, <1>4 DEF LoadPut
  <2>2. QED BY <1>1, <1>4, <2>1, LoadPutTyped, FreshLoaded
<1>5. ASSUME NEW f \in folders, NEW p \in folders \cup {NoFolder}, LoadPatch(r, f, p)
      PROVE  Fresh'
  <2>1. f \in spent BY <1>2, <1>5
  <2>2. QED BY <1>1, <1>5, <2>1, LoadPatchTyped, FreshLoaded
<1>6. ASSUME NEW f \in folders, LoadDeleteFolder(r, f) PROVE Fresh'
  <2>1. f \in spent BY <1>2
  <2>2. QED BY <1>1, <1>6, <2>1, LoadDeleteFolderTyped, FreshLoaded
<1>7. ASSUME NEW l \in Links, NEW p \in folders, LoadCreateLink(r, l, p) PROVE Fresh'
  <2>1. /\ status[l] = "none" /\ organization[l] = Personal
        /\ \A q \in Requests : req[q].link # l /\ LoadLink(r, "create_link", l, p)
    BY <1>2, <1>7 DEF LoadCreateLink
  <2>2. /\ req'[r].kind = "create_link" /\ req'[r].link = l /\ req'[r].folder = NoFolder
        /\ req'[r].link_org = Personal /\ \A s \in Requests \ {r} : req'[s] = req[s]
    BY <2>1, LoadLinkTyped
  <2>3. QED BY <1>1, <2>1, <2>2, FreshLoaded
<1>8. ASSUME NEW l \in Links, NEW p \in folders, LoadMoveLink(r, l, p) PROVE Fresh'
  <2>1. status[l] = "live" /\ LoadLink(r, "move_link", l, p)
    BY <1>8 DEF LoadMoveLink
  <2>2. /\ req'[r].kind = "move_link" /\ req'[r].link = l /\ req'[r].folder = NoFolder
        /\ \A s \in Requests \ {r} : req'[s] = req[s]
    BY <2>1, LoadLinkTyped
  <2>3. QED BY <1>1, <2>1, <2>2, FreshLoaded
<1>9. ASSUME BeginAdmin(r) PROVE Fresh'
  <2>1. /\ req'[r].kind \notin {"create_folder", "create_link", "put", "patch"}
        /\ req'[r].link = NoLink
        /\ req'[r].folder \in folders \cup {NoFolder}
        /\ \A s \in Requests \ {r} : req'[s] = req[s]
    <3>1. CASE \E o \in Orgs : LoadDeleteOrganization(r, o)
      BY <3>1, LoadDeleteOrganizationTyped
    <3>2. CASE \E o \in Orgs, g \in Registrars : LoadEditOrganization(r, o, g)
      BY <3>2, LoadEditOrganizationTyped
    <3>3. CASE \E g \in Registrars : LoadEditRegistrar(r, g)
      BY <3>3, LoadEditRegistrarTyped
    <3>4. CASE LoadEditUser(r)
      BY <3>4, LoadEditUserTyped
    <3>5. CASE \E table \in Tables : LoadReconcile(r, table)
      BY <3>5, LoadReconcileTyped
    <3>6. CASE \E f \in folders : LoadFixPath(r, f)
      BY <3>6, LoadFixPathTyped
    <3>7. QED BY <1>9, <3>1, <3>2, <3>3, <3>4, <3>5, <3>6 DEF BeginAdmin
  <2>2. QED BY <1>1, <1>2, <2>1, FreshLoaded
<1>10. QED
  BY <1>3, <1>4, <1>5, <1>6, <1>7, <1>8, <1>9 DEF Begin

\* A request reads, or locks, and goes on.
LEMMA StepsOnMean ==
    ASSUME Typed, NEW r \in Requests,
           \/ Open(r) \/ Lock(r) \/ ReadMove(r) \/ CountLinks(r) \/ Compare(r) \/ ComputePath(r)
    PROVE  /\ UNCHANGED <<folderVars, linkVars, countVars, orgVars, made>>
           /\ \A s \in Requests \ {r} : req'[s] = req[s]
           /\ \/ req'[r] = NoReq /\ req[r].kind \in {"delete_organization", "fix_path"}
              \/ /\ req'[r].kind = req[r].kind /\ req'[r].folder = req[r].folder
                 /\ req'[r].link = req[r].link /\ req'[r].link_org = req[r].link_org
                 /\ req'[r].parent = req[r].parent /\ req'[r].parent_root = req[r].parent_root
                 /\ req'[r].parent_owner = req[r].parent_owner
           /\ ~Lock(r) => UNCHANGED lock
           /\ ~ReadMove(r) => UNCHANGED past
<1>1. req \in [Requests -> Request]
  BY DEF Typed, TypeOK
<1>2. PICK q \in Request : q = req[r]
  BY <1>1
<1> USE <1>1, <1>2
<1>3. CASE Open(r)
  <2>1. PICK todo : req' = [req EXCEPT ![r].stage = "lock", ![r].todo = todo]
    BY <1>3 DEF Open
  <2>2. req'[r] = [q EXCEPT !.stage = "lock", !.todo = todo]
    BY <2>1
  <2>3. \A s \in Requests \ {r} : req'[s] = req[s]
    BY <2>1
  <2>4. UNCHANGED <<folderVars, linkVars, countVars, orgVars, lock, made, past>>
    BY <1>3 DEF Open
  <2>5. QED BY <2>2, <2>3, <2>4 DEF Request
<1>4. CASE Lock(r)
  <2>1. PICK todo, stage : req' = [req EXCEPT ![r].todo = todo, ![r].stage = stage]
    BY <1>4 DEF Lock
  <2>2. req'[r] = [q EXCEPT !.todo = todo, !.stage = stage]
    BY <2>1
  <2>3. \A s \in Requests \ {r} : req'[s] = req[s]
    BY <2>1
  <2>4. UNCHANGED <<folderVars, linkVars, countVars, orgVars, made, past>>
    BY <1>4 DEF Lock
  <2>5. QED BY <1>4, <2>2, <2>3, <2>4 DEF Request
<1>5. CASE ReadMove(r)
  <2> DEFINE f == req[r].folder
             p == req[r].parent
             row == Copy(r)
             sub == IF row.cached_has_children THEN Subtree(f, row.tree_root) ELSE {f}
             root == tree_root[p]
             new == owner[p]
             old == owner[row.parent]
  <2>1. req' = [req EXCEPT ![r].stage = "save", ![r].subtree = sub, ![r].new_root = root,
                           ![r].new_owner = new, ![r].old_owner = old]
    BY <1>5 DEF ReadMove
  <2> HIDE DEF f, p, row, sub, root, new, old
  <2>2. req'[r] = [q EXCEPT !.stage = "save", !.subtree = sub, !.new_root = root,
                            !.new_owner = new, !.old_owner = old]
    BY <2>1
  <2>3. \A s \in Requests \ {r} : req'[s] = req[s]
    BY <2>1
  <2>4. UNCHANGED <<folderVars, linkVars, countVars, orgVars, lock, made>>
    BY <1>5 DEF ReadMove
  <2>5. QED BY <1>5, <2>2, <2>3, <2>4 DEF Request
<1>6. CASE CountLinks(r)
  <2>1. /\ UNCHANGED <<folderVars, linkVars, countVars, orgVars, lock, made, past>>
        /\ req[r].kind = "delete_organization"
        /\ \/ req' = [req EXCEPT ![r].stage = "save"]
           \/ req' = [req EXCEPT ![r] = NoReq]
    BY <1>6 DEF CountLinks
  <2>2. req'[r] = [q EXCEPT !.stage = "save"] \/ req'[r] = NoReq
    BY <2>1
  <2>3. \A s \in Requests \ {r} : req'[s] = req[s]
    BY <2>1
  <2>4. QED BY <2>1, <2>2, <2>3 DEF Request
<1>7. CASE Compare(r)
  <2>1. PICK rows : req' = [req EXCEPT ![r].stage = "save", ![r].rows = rows]
    BY <1>7 DEF Compare
  <2>2. req'[r] = [q EXCEPT !.stage = "save", !.rows = rows]
    BY <2>1
  <2>3. \A s \in Requests \ {r} : req'[s] = req[s]
    BY <2>1
  <2>4. UNCHANGED <<folderVars, linkVars, countVars, orgVars, lock, made, past>>
    BY <1>7 DEF Compare
  <2>5. QED BY <2>2, <2>3, <2>4 DEF Request
<1>8. CASE ComputePath(r)
  <2>1. PICK path, root :
          \/ req' = [req EXCEPT ![r] = [q EXCEPT !.stage = "save", !.path = path, !.new_root = root]]
          \/ req' = [req EXCEPT ![r] = NoReq]
    BY <1>8 DEF ComputePath
  <2>2. /\ UNCHANGED <<folderVars, linkVars, countVars, orgVars, lock, made, past>>
        /\ req[r].kind = "fix_path"
    BY <1>8 DEF ComputePath
  <2>3. \/ req'[r] = [q EXCEPT !.stage = "save", !.path = path, !.new_root = root]
        \/ req'[r] = NoReq
    BY <2>1
  <2>4. \A s \in Requests \ {r} : req'[s] = req[s]
    BY <2>1
  <2>5. QED BY <2>2, <2>3, <2>4, ZenonT(60) DEF Request
<1>9. QED
  BY <1>3, <1>4, <1>5, <1>6, <1>7, <1>8

LEMMA FreshStep ==
    ASSUME Typed, Fresh, [AdminNext]_vars PROVE Fresh'
<1>1. CASE UNCHANGED vars
  BY <1>1 DEF vars, folderVars, linkVars, Fresh
<1>2. ASSUME NEW r \in Requests,
             \/ Open(r) \/ Lock(r) \/ ReadMove(r) \/ CountLinks(r) \/ Compare(r) \/ ComputePath(r)
      PROVE  Fresh'
  <2>1. UNCHANGED <<spent, status>>
    BY <1>2, StepsOnMean DEF folderVars, linkVars
  <2>2. QED BY <1>2, <2>1, StepsOnMean, FreshWhileWorking
<1>3. ASSUME NEW r \in Requests,
             \/ LockFails(r) \/ Refuse(r) \/ SaveFails(r) \/ Abort(r) \/ MoveFolder(r)
             \/ DeleteFolder(r) \/ SaveOrganization(r) \/ SaveRegistrar(r) \/ SaveUser(r)
             \/ Reconcile(r) \/ SavePath(r) \/ SaveFolder(r)
      PROVE  Fresh'
  <2>1. End(r) /\ UNCHANGED status
    BY <1>3 DEF LockFails, Refuse, SaveFails, Abort, MoveFolder, DeleteFolder, SaveOrganization,
       SaveRegistrar, SaveUser, Reconcile, SavePath, SaveFolder, linkVars
  <2>2. UNCHANGED spent
    <3>1. CASE SaveFolder(r) \/ SaveOrganization(r) BY <3>1, RowSaved
    <3>2. CASE ~SaveFolder(r) /\ ~SaveOrganization(r)
      BY <1>3, <3>2 DEF LockFails, Refuse, SaveFails, Abort, MoveFolder, DeleteFolder,
         SaveRegistrar, SaveUser, Reconcile, SavePath, folderVars
    <3>3. QED BY <3>1, <3>2
  <2>3. QED BY <2>1, <2>2, EndMeans, FreshWhileWorking
<1>4. ASSUME NEW r \in Requests, CreateFolder(r) PROVE Fresh'
  <2>1. /\ End(r) /\ spent' = spent \cup {req[r].folder} /\ UNCHANGED status
        /\ req[r].kind = "create_folder"
    BY <1>4 DEF CreateFolder, linkVars
  <2>2. req'[r] = NoReq /\ \A s \in Requests \ {r} : req'[s] = req[s]
    BY <2>1, EndMeans
  <2>3. NoReq.kind = "none"
    BY DEF NoReq
  <2>4. \A s \in Requests : req'[s].kind = "create_folder" => req'[s].folder \notin spent'
    BY <2>1, <2>2, <2>3 DEF Fresh
  <2>5. \A s \in Requests : req'[s].kind = "create_link" => status'[req'[s].link] = "none"
    BY <2>1, <2>2, <2>3 DEF Fresh
  <2>6. spent \subseteq spent'
    BY <2>1
  <2>7. \A s \in Requests :
           \/ req'[s] = NoReq
           \/ /\ req'[s].kind = req[s].kind /\ req'[s].folder = req[s].folder
              /\ req'[s].link = req[s].link /\ req'[s].link_org = req[s].link_org
    BY <2>2
  <2>8. QED BY <2>4, <2>5, <2>6, <2>7, FreshKept
<1>5. ASSUME NEW r \in Requests, SaveLink(r) PROVE Fresh'
  <2>1. /\ End(r) /\ UNCHANGED spent
        /\ status' = [status EXCEPT ![req[r].link] = IF @ = "none" THEN "live" ELSE @]
    BY <1>5 DEF SaveLink, folderVars
  <2>2. req'[r] = NoReq /\ \A s \in Requests \ {r} : req'[s] = req[s]
    BY <2>1, EndMeans
  <2>3. NoReq.kind = "none"
    BY DEF NoReq
  <2>4. \A s \in Requests : req'[s].kind = "create_folder" => req'[s].folder \notin spent'
    BY <2>1, <2>2, <2>3 DEF Fresh
  <2>5. ASSUME NEW s \in Requests, req'[s].kind = "create_link"
        PROVE  status'[req'[s].link] = "none"
    <3>1. s # r /\ req'[s] = req[s] /\ req[s].kind = "create_link"
      BY <2>2, <2>3, <2>5
    <3>2. req[r].link # req[s].link /\ status[req[s].link] = "none"
      BY <3>1 DEF Fresh
    <3>3. QED BY <2>1, <3>1, <3>2 DEF Typed, TypeOK
  <2>6. spent \subseteq spent'
    BY <2>1
  <2>7. \A s \in Requests :
           \/ req'[s] = NoReq
           \/ /\ req'[s].kind = req[s].kind /\ req'[s].folder = req[s].folder
              /\ req'[s].link = req[s].link /\ req'[s].link_org = req[s].link_org
    BY <2>2
  <2>8. QED BY <2>4, <2>5, <2>6, <2>7, FreshKept
<1>6. ASSUME NEW l \in Links, DeleteLink(l) PROVE Fresh'
  <2>1. /\ UNCHANGED <<spent, req>> /\ status[l] = "live"
        /\ status' = [status EXCEPT ![l] = "deleted"]
    BY <1>6 DEF DeleteLink, folderVars
  <2>2. \A s \in Requests : req'[s].kind = "create_folder" => req'[s].folder \notin spent'
    BY <2>1 DEF Fresh
  <2>3. \A s \in Requests : req'[s].kind = "create_link" => status'[req'[s].link] = "none"
    BY <2>1 DEF Fresh, Typed, TypeOK
  <2>4. QED BY <2>1, <2>2, <2>3, FreshKept
<1>7. ASSUME NEW r \in Requests, ReadShared(r) PROVE Fresh'
  <2>1. /\ UNCHANGED <<spent, status>> /\ \A s \in Requests \ {r} : req'[s] = req[s]
        /\ req'[r].kind = "edit_organization" /\ req'[r].folder \in spent
        /\ req'[r].link = req[r].link
    BY <1>7, ReadSharedTyped DEF folderVars, linkVars, Typed, Rows
  <2>2. ASSUME NEW s \in Requests \ {r}, req[s].kind = "create_folder"
        PROVE  req[s].folder # req'[r].folder
    BY <2>1, <2>2 DEF Fresh
  <2>3. QED BY <2>1, <2>2 DEF Fresh
<1>8. QED
  BY <1>1, <1>2, <1>3, <1>4, <1>5, <1>6, <1>7, FreshBegin
  DEF AdminNext, Next, Working, Administering

----------------------------------------------------------------------------
(* Locks.                                                                  *)

LEMMA BeginMeans ==
    ASSUME Typed, NEW r \in Requests, Begin(r) \/ BeginAdmin(r)
    PROVE  /\ UNCHANGED <<folderVars, linkVars, countVars, orgVars, lock, past>>
           /\ req[r].kind = "none" /\ \A s \in Requests \ {r} : req'[s] = req[s]
<1>1. \E fields : Load(r, fields)
  BY DEF Begin, BeginAdmin, LoadCreateFolder, LoadPut, LoadPatch, LoadDeleteFolder,
     LoadCreateLink, LoadMoveLink, LoadLink, LoadEditOrganization, LoadDeleteOrganization,
     LoadEditRegistrar, LoadEditUser, LoadReconcile, LoadFixPath
<1>2. /\ UNCHANGED <<folderVars, linkVars, countVars, orgVars, lock, past>>
      /\ req[r].stage = "idle" /\ \A s \in Requests \ {r} : req'[s] = req[s]
  BY <1>1 DEF Load, Typed, TypeOK
<1>3. req[r].kind = "none"
  BY <1>2 DEF Typed, Fits
<1>4. QED
  BY <1>2, <1>3

\* Every other step of a request ends it.
LEMMA EndsMean ==
    ASSUME Typed, NEW r \in Requests,
           \/ LockFails(r) \/ Refuse(r) \/ SaveFails(r) \/ Abort(r) \/ MoveFolder(r)
           \/ DeleteFolder(r) \/ SaveOrganization(r) \/ SaveRegistrar(r) \/ SaveUser(r)
           \/ Reconcile(r) \/ SavePath(r) \/ CreateFolder(r) \/ SaveLink(r) \/ SaveFolder(r)
    PROVE  /\ req'[r] = NoReq /\ req'[r].kind = "none"
           /\ \A s \in Requests \ {r} : req'[s] = req[s]
           /\ \A f \in Folders : lock'[f] = IF lock[f] = r THEN NoRequest ELSE lock[f]
           /\ ~DeleteFolder(r) => folders \subseteq folders'
           /\ DeleteFolder(r) => /\ folders' = folders \ Below(req[r].folder, folders)
                                 /\ Free(r, Below(req[r].folder, folders))
<1>1. End(r)
  BY DEF LockFails, Refuse, SaveFails, Abort, MoveFolder, DeleteFolder, SaveOrganization,
     SaveRegistrar, SaveUser, Reconcile, SavePath, CreateFolder, SaveLink, SaveFolder
<1>2. ~DeleteFolder(r) => folders \subseteq folders'
  <2>1. CASE SaveFolder(r) \/ SaveOrganization(r) BY <2>1, RowSaved
  <2>2. CASE ~SaveFolder(r) /\ ~SaveOrganization(r)
    BY <2>2 DEF LockFails, Refuse, SaveFails, Abort, MoveFolder, SaveRegistrar,
       SaveUser, Reconcile, SavePath, CreateFolder, SaveLink, folderVars
  <2>3. QED BY <2>1, <2>2
<1>3. ASSUME DeleteFolder(r)
      PROVE  /\ folders' = folders \ Below(req[r].folder, folders)
             /\ Free(r, Below(req[r].folder, folders))
  BY <1>3 DEF DeleteFolder, Free
<1>4. NoReq.kind = "none"
  BY DEF NoReq
<1>5. QED
  BY <1>1, <1>2, <1>3, <1>4, EndMeans

LEMMA LockMeans ==
    ASSUME Typed, NEW r \in Requests, Lock(r)
    PROVE  /\ Head(req[r].todo) \in folders /\ Head(req[r].todo) \in Folders
           /\ lock[Head(req[r].todo)] \in {NoRequest, r}
           /\ lock' = [lock EXCEPT ![Head(req[r].todo)] = r]
           /\ \A g \in Folders : lock'[g] = IF g = Head(req[r].todo) THEN r ELSE lock[g]
           /\ req[r].kind \in {"create_folder", "put", "create_link", "move_link"}
<1>1. /\ Head(req[r].todo) \in folders /\ lock[Head(req[r].todo)] \in {NoRequest, r}
      /\ lock' = [lock EXCEPT ![Head(req[r].todo)] = r]
      /\ req[r].stage = "lock"
  BY DEF Lock
<1>2. Head(req[r].todo) \in Folders /\ req[r] \in Request /\ Fits(req[r])
  BY <1>1 DEF Typed, TypeOK
<1>3. req[r].kind \in {"create_folder", "put", "create_link", "move_link"}
  BY <1>1, <1>2 DEF Fits, Request, Kind
<1>4. \A g \in Folders : lock'[g] = IF g = Head(req[r].todo) THEN r ELSE lock[g]
  BY <1>1, <1>2 DEF Typed, TypeOK
<1>5. QED
  BY <1>1, <1>2, <1>3, <1>4

\* No step takes or gives up a lock of another request.
LEMMA LocksOfOthers ==
    ASSUME Typed, NEW r \in Requests,
           Begin(r) \/ BeginAdmin(r) \/ Working(r) \/ Administering(r)
    PROVE  \A s \in Requests \ {r} : \A g \in Folders : lock'[g] = s <=> lock[g] = s
<1>1. CASE Begin(r) \/ BeginAdmin(r)
  BY <1>1, BeginMeans
<1>2. CASE \/ Open(r) \/ ReadMove(r) \/ CountLinks(r) \/ Compare(r) \/ ComputePath(r)
           \/ ReadShared(r)
  <2>1. UNCHANGED lock
    BY <1>2 DEF Open, ReadMove, CountLinks, Compare, ComputePath, ReadShared
  <2>2. QED BY <2>1
<1>3. CASE Lock(r)
  BY <1>3, LockMeans, LibraryAssumption
<1>4. CASE \/ LockFails(r) \/ Refuse(r) \/ SaveFails(r) \/ Abort(r) \/ MoveFolder(r)
           \/ DeleteFolder(r) \/ SaveOrganization(r) \/ SaveRegistrar(r) \/ SaveUser(r)
           \/ Reconcile(r) \/ SavePath(r) \/ CreateFolder(r) \/ SaveLink(r) \/ SaveFolder(r)
  BY <1>4, EndsMean, LibraryAssumption
<1>5. QED
  BY <1>1, <1>2, <1>3, <1>4 DEF Working, Administering

LEMMA LockedStep ==
    ASSUME Typed, Locked, [AdminNext]_vars PROVE Locked'
<1> DEFINE Lockless == {"none", "delete_organization", "fix_path"}
<1>1. \A f \in Folders : lock[f] # NoRequest => f \in folders
  BY DEF Locked
<1>2. \A s \in Requests : req[s].kind \in Lockless => \A f \in Folders : lock[f] # s
  BY DEF Locked, NoLocks
<1>3. CASE UNCHANGED vars
  BY <1>3 DEF vars, folderVars, Locked, NoLocks
<1>4. ASSUME NEW r \in Requests, Begin(r) \/ BeginAdmin(r) PROVE Locked'
  <2>1. /\ UNCHANGED <<folders, lock>> /\ req[r].kind = "none"
        /\ \A s \in Requests \ {r} : req'[s] = req[s]
    BY <1>4, BeginMeans DEF folderVars
  <2>2. \A s \in Requests : req'[s].kind \in Lockless => \A f \in Folders : lock'[f] # s
    BY <1>2, <2>1
  <2>3. QED BY <1>1, <2>1, <2>2 DEF Locked, NoLocks
<1>5. ASSUME NEW r \in Requests, Lock(r) PROVE Locked'
  <2>1. UNCHANGED folders /\ \A s \in Requests \ {r} : req'[s] = req[s]
    BY <1>5, StepsOnMean DEF folderVars
  <2>2. req[r].kind \notin Lockless /\ req'[r].kind = req[r].kind
    BY <1>5, LockMeans, StepsOnMean
  <2>3. \A f \in Folders : lock'[f] # NoRequest => f \in folders'
    BY <1>1, <1>5, <2>1, LockMeans
  <2>4. \A s \in Requests : req'[s].kind \in Lockless => \A f \in Folders : lock'[f] # s
    BY <1>2, <1>5, <2>1, <2>2, LockMeans
  <2>5. QED BY <2>3, <2>4 DEF Locked, NoLocks
<1>6. ASSUME NEW r \in Requests,
             Open(r) \/ ReadMove(r) \/ CountLinks(r) \/ Compare(r) \/ ComputePath(r)
      PROVE  Locked'
  <2>1. UNCHANGED <<folders, lock>>
    BY <1>6 DEF Open, ReadMove, CountLinks, Compare, ComputePath, folderVars
  <2>2. /\ \A s \in Requests \ {r} : req'[s] = req[s]
        /\ req'[r].kind = req[r].kind \/ req[r].kind \in Lockless
    BY <1>6, StepsOnMean
  <2>3. \A s \in Requests : req'[s].kind \in Lockless => \A f \in Folders : lock'[f] # s
    BY <1>2, <2>1, <2>2
  <2>4. QED BY <1>1, <2>1, <2>3 DEF Locked, NoLocks
<1>7. ASSUME NEW r \in Requests,
             \/ LockFails(r) \/ Refuse(r) \/ SaveFails(r) \/ Abort(r) \/ MoveFolder(r)
             \/ DeleteFolder(r) \/ SaveOrganization(r) \/ SaveRegistrar(r) \/ SaveUser(r)
             \/ Reconcile(r) \/ SavePath(r) \/ CreateFolder(r) \/ SaveLink(r) \/ SaveFolder(r)
      PROVE  Locked'
  <2>1. /\ req'[r].kind = "none" /\ \A s \in Requests \ {r} : req'[s] = req[s]
        /\ \A f \in Folders : lock'[f] = IF lock[f] = r THEN NoRequest ELSE lock[f]
    BY <1>7, EndsMean
  <2>2. \A s \in Requests : req'[s].kind \in Lockless => \A f \in Folders : lock'[f] # s
    BY <1>2, <2>1, LibraryAssumption
  <2>3. ASSUME NEW f \in Folders, lock'[f] # NoRequest PROVE f \in folders'
    <3>1. lock[f] # r /\ lock[f] # NoRequest /\ f \in folders
      BY <1>1, <2>1, <2>3
    <3>2. CASE DeleteFolder(r)
      BY <1>7, <3>1, <3>2, EndsMean DEF Free
    <3>3. CASE ~DeleteFolder(r)
      BY <1>7, <3>1, <3>3, EndsMean
    <3>4. QED BY <3>2, <3>3
  <2>4. QED BY <2>2, <2>3 DEF Locked, NoLocks
<1>8. ASSUME NEW l \in Links, DeleteLink(l) PROVE Locked'
  BY <1>8 DEF DeleteLink, folderVars, Locked, NoLocks
<1>9. ASSUME NEW r \in Requests, ReadShared(r) PROVE Locked'
  <2>1. /\ UNCHANGED <<folders, lock>> /\ \A s \in Requests \ {r} : req'[s] = req[s]
        /\ req'[r].kind \notin Lockless
    BY <1>9, ReadSharedTyped DEF folderVars
  <2>2. \A s \in Requests : req'[s].kind \in Lockless => \A f \in Folders : lock'[f] # s
    BY <1>2, <2>1
  <2>3. QED BY <1>1, <2>1, <2>2 DEF Locked, NoLocks
<1>10. QED
  BY <1>3, <1>4, <1>5, <1>6, <1>7, <1>8, <1>9 DEF AdminNext, Next, Working, Administering

----------------------------------------------------------------------------
(* What a request has locked, or read under its locks, stays.              *)

\* The roots of the trees of the rows it has locked stay.
LEMMA GuardedKept ==
    ASSUME Typed, Locked, NEW s \in Requests, Guarded(s), req'[s] = req[s],
           \A g \in Folders : lock'[g] = s <=> lock[g] = s,
           \A g \in folders : lock[g] = s => tree_root'[g] = tree_root[g],
           req[s].kind = "put" /\ req[s].stage = "save" => Moving(s)'
    PROVE  Guarded(s)'
<1> DEFINE f == req[s].folder
           p == req[s].parent
<1>1. Fits(req[s])
  BY DEF Typed
<1>2. \A g \in Folders : lock[g] = s => /\ g \in folders /\ tree_root'[g] = tree_root[g]
                                        /\ tree_root[g] \in Folders
  BY LibraryAssumption DEF Locked, Typed, Rows
<1>3. NoLocks(s) => NoLocks(s)'
  BY DEF NoLocks
<1>4. ASSUME req[s].kind = "create_folder" PROVE Creating(s)'
  <2>1. Creating(s) /\ p \in Folders /\ req[s].stage \in {"lock", "save"}
    BY <1>1, <1>4 DEF Guarded, Fits
  <2>2. CASE req[s].stage = "lock" /\ req[s].todo = <<p>> /\ NoLocks(s)
    BY <1>3, <2>2 DEF Creating
  <2>3. CASE req[s].stage = "lock" /\ lock[p] = s /\ req[s].todo = <<tree_root[p]>>
    BY <1>2, <2>1, <2>3 DEF Creating
  <2>4. CASE req[s].stage = "save" /\ lock[p] = s /\ lock[tree_root[p]] = s
    BY <1>2, <2>1, <2>4 DEF Creating
  <2>5. QED BY <2>1, <2>2, <2>3, <2>4 DEF Creating
<1>5. ASSUME req[s].kind = "put" PROVE Putting(s)'
  <2>1. Putting(s) /\ f \in Folders /\ req[s].parent_root \in Folders
    BY <1>1, <1>5 DEF Guarded, Fits
  <2>2. CASE req[s].stage = "lock" /\ req[s].todo = <<f>> /\ NoLocks(s)
    BY <1>3, <2>1, <2>2 DEF Putting
  <2>3. CASE lock[f] = s
    <3>1. lock'[f] = s /\ tree_root'[f] = tree_root[f] /\ tree_root[f] \in Folders
      BY <1>2, <2>1, <2>3
    <3>2. lock[tree_root[f]] = s => lock'[tree_root[f]] = s
      BY <3>1
    <3>3. lock[req[s].parent_root] = s => lock'[req[s].parent_root] = s
      BY <2>1
    <3>4. req[s].stage = "save" => Moving(s)'
      BY <1>5
    <3>5. tree_root'[req'[s].folder] = tree_root[f] /\ lock'[req'[s].folder] = s
      BY <3>1
    <3>6. CASE req[s].stage = "lock" /\ req[s].todo = <<f>> /\ NoLocks(s)
      BY <2>2, <3>6
    <3>7. CASE req[s].stage = "lock" /\ ~(req[s].todo = <<f>> /\ NoLocks(s))
      BY <2>1, <3>2, <3>5, <3>7 DEF Putting
    <3>8. CASE req[s].stage = "read"
      BY <2>1, <3>2, <3>3, <3>5, <3>8 DEF Putting
    <3>9. CASE req[s].stage = "save"
      BY <2>1, <3>2, <3>4, <3>5, <3>9 DEF Putting
    <3>10. CASE req[s].stage \notin {"lock", "read", "save"}
      BY <1>1, <1>5, <3>10 DEF Fits
    <3>11. QED BY <3>6, <3>7, <3>8, <3>9, <3>10
  <2>4. CASE req[s].stage \notin {"lock", "read", "save"}
    BY <1>1, <1>5, <2>4 DEF Fits
  <2>5. QED BY <2>1, <2>2, <2>3, <2>4 DEF Putting
<1>6. QED
  BY <1>4, <1>5 DEF Guarded

\* So does what PUT has read, when the folders and rows it read of have not changed.
LEMMA MovingKept ==
    ASSUME Typed, NEW s \in Requests, Guarded(s), req[s].kind = "put", req[s].stage = "save",
           req'[s] = req[s], \A g \in Folders : lock'[g] = s <=> lock[g] = s,
           UNCHANGED folderVars
    PROVE  Moving(s)'
<1>1. Moving(s)
  BY DEF Guarded, Putting
<1>2. req[s].new_root \in Folders
  BY DEF Typed, Fits
<1>3. UNCHANGED <<folders, spent, parent, tree_root, owner, cached_path>>
  BY DEF folderVars
<1>4. \A f : Under(f)' = Under(f)
  BY <1>3 DEF Under, OnPath
<1>5. lock'[req[s].new_root] = s
  BY <1>1, <1>2 DEF Moving
<1>6. QED
  BY <1>1, <1>3, <1>4, <1>5 DEF Moving

LEMMA GuardedWhileStill ==
    ASSUME Typed, Locked, NEW s \in Requests, Guarded(s), req'[s] = req[s],
           \A g \in Folders : lock'[g] = s <=> lock[g] = s, UNCHANGED folderVars
    PROVE  Guarded(s)'
<1>1. req[s].kind = "put" /\ req[s].stage = "save" => Moving(s)'
  BY MovingKept
<1>2. UNCHANGED tree_root
  BY DEF folderVars
<1>3. QED
  BY <1>1, <1>2, GuardedKept

LEMMA TreesKept ==
    ASSUME Trees, UNCHANGED folderVars PROVE Trees'
<1>1. /\ UNCHANGED <<folders, spent, parent, tree_root, owner, cached_path>>
      /\ UNCHANGED cached_has_children
  BY DEF folderVars
<1>2. Forest(parent, folders, cached_path)'
  BY <1>1 DEF Trees, Forest
<1>3. \A f : Children(parent, f)' = Children(parent, f)
  BY <1>1 DEF Children
<1>4. QED
  BY <1>1, <1>2, <1>3 DEF Trees

LEMMA GuardedBegin ==
    ASSUME Typed, Locked, Trees, NEW r \in Requests, Begin(r) \/ BeginAdmin(r)
    PROVE  Guarded(r)'
<1>1. NoLocks(r) /\ UNCHANGED <<folderVars, lock>> /\ NoLocks(r)'
  BY BeginMeans DEF Locked, NoLocks
<1>2. ASSUME NEW f \in Folders, NEW p \in folders, LoadCreateFolder(r, f, p) PROVE Guarded(r)'
  BY <1>1, <1>2, LoadCreateFolderTyped DEF Guarded, Creating
<1>3. ASSUME NEW f \in Folders, NEW p \in folders, LoadPut(r, f, p) PROVE Guarded(r)'
  <2>1. tree_root[p] \in Roots
    BY RootMeans
  <2>2. QED BY <1>1, <1>3, <2>1, LoadPutTyped DEF Guarded, Putting
<1>4. ASSUME NEW f \in folders, NEW p \in folders \cup {NoFolder}, LoadPatch(r, f, p)
      PROVE  Guarded(r)'
  BY <1>4, LoadPatchTyped DEF Guarded
<1>5. ASSUME NEW f \in folders, LoadDeleteFolder(r, f) PROVE Guarded(r)'
  BY <1>5, LoadDeleteFolderTyped DEF Guarded
<1>6. ASSUME NEW l \in Links, NEW p \in folders, LoadCreateLink(r, l, p) \/ LoadMoveLink(r, l, p)
      PROVE  Guarded(r)'
  <2>1. req'[r].kind \in {"create_link", "move_link"}
    BY <1>6, LoadLinkTyped DEF LoadCreateLink, LoadMoveLink
  <2>2. QED BY <2>1 DEF Guarded
<1>7. ASSUME BeginAdmin(r) PROVE Guarded(r)'
  <2>1. req'[r].kind \notin {"create_folder", "put", "patch"}
    <3>1. CASE \E o \in Orgs : LoadDeleteOrganization(r, o)
      BY <3>1, LoadDeleteOrganizationTyped
    <3>2. CASE \E o \in Orgs, g \in Registrars : LoadEditOrganization(r, o, g)
      BY <3>2, LoadEditOrganizationTyped
    <3>3. CASE \E g \in Registrars : LoadEditRegistrar(r, g)
      BY <3>3, LoadEditRegistrarTyped
    <3>4. CASE LoadEditUser(r)
      BY <3>4, LoadEditUserTyped
    <3>5. CASE \E table \in Tables : LoadReconcile(r, table)
      BY <3>5, LoadReconcileTyped
    <3>6. CASE \E f \in folders : LoadFixPath(r, f)
      BY <3>6, LoadFixPathTyped
    <3>7. QED BY <1>7, <3>1, <3>2, <3>3, <3>4, <3>5, <3>6 DEF BeginAdmin
  <2>2. QED BY <2>1 DEF Guarded
<1>8. QED
  BY <1>2, <1>3, <1>4, <1>5, <1>6, <1>7 DEF Begin

LEMMA GuardedLock ==
    ASSUME Typed, Locked, Trees, NEW r \in Requests, Guarded(r), Lock(r)
    PROVE  Guarded(r)'
<1> DEFINE f == req[r].folder
           p == req[r].parent
           h == Head(req[r].todo)
           rest == NextLocks(r)
<1>1. PICK q \in Request : q = req[r] /\ Fits(q) /\ q.stage = "lock"
  BY DEF Typed, TypeOK, Lock
<1>2. /\ req' = [req EXCEPT ![r].todo = rest,
                            ![r].stage = IF rest # <<>> THEN "lock"
                                         ELSE IF req[r].kind = "put" THEN "read" ELSE "save"]
      /\ req \in [Requests -> Request]
  BY DEF Lock, Typed, TypeOK
<1>3. /\ req'[r].kind = q.kind /\ req'[r].folder = f /\ req'[r].parent = p
      /\ req'[r].parent_root = q.parent_root
  BY <1>1, StepsOnMean, LockMeans
<1>4. /\ req'[r].todo = rest
      /\ req'[r].stage = IF rest # <<>> THEN "lock"
                         ELSE IF q.kind = "put" THEN "read" ELSE "save"
  <2> HIDE DEF rest
  <2>1. req'[r] = [q EXCEPT !.todo = rest, !.stage = IF rest # <<>> THEN "lock"
                              ELSE IF q.kind = "put" THEN "read" ELSE "save"]
    BY <1>1, <1>2
  <2>2. QED BY <2>1 DEF Request
<1>5. /\ h \in folders /\ h \in Folders /\ UNCHANGED tree_root
      /\ \A g \in Folders : lock'[g] = IF g = h THEN r ELSE lock[g]
  BY LockMeans, StepsOnMean DEF folderVars
<1>6. ASSUME q.kind = "create_folder" PROVE Creating(r)'
  <2>1. Creating(r) /\ p \in Folders
    BY <1>1, <1>6 DEF Guarded, Fits
  <2>2. CASE q.todo = <<p>> /\ NoLocks(r)
    <3>1. h = p /\ lock[p] # r BY <1>1, <2>1, <2>2 DEF NoLocks
    <3>2. rest = <<tree_root[p]>> BY <1>1, <1>6, <3>1 DEF NextLocks
    <3>3. req'[r].stage = "lock" /\ req'[r].todo = <<tree_root'[p]>> BY <1>4, <1>5, <3>2
    <3>4. lock'[p] = r BY <1>5, <2>1, <3>1
    <3>5. QED BY <1>3, <3>3, <3>4 DEF Creating
  <2>3. CASE lock[p] = r /\ q.todo = <<tree_root[p]>>
    <3>1. h = tree_root[p] BY <1>1, <2>3
    <3>2. rest = <<>> BY <1>1, <1>6, <2>3, <3>1 DEF NextLocks
    <3>3. req'[r].stage = "save" BY <1>4, <1>6, <3>2
    <3>4. lock'[p] = r /\ lock'[tree_root'[p]] = r BY <1>5, <2>1, <2>3, <3>1
    <3>5. QED BY <1>3, <3>3, <3>4 DEF Creating
  <2>4. QED BY <1>1, <2>1, <2>2, <2>3 DEF Creating
<1>7. ASSUME q.kind = "put" PROVE Putting(r)'
  <2> DEFINE root == tree_root[f]
             dest == q.parent_root
  <2>1. Putting(r) /\ f \in Folders /\ f \notin Roots /\ dest \in Roots /\ dest \in Folders
    BY <1>1, <1>7, LibraryAssumption DEF Guarded, Fits, Putting
  <2>2. CASE q.todo = <<f>> /\ NoLocks(r)
    <3>1. h = f /\ lock[f] # r BY <1>1, <2>1, <2>2 DEF NoLocks
    <3>2. rest = IF root = dest THEN <<root>> ELSE <<root, dest>>
      BY <1>1, <1>7, <3>1 DEF NextLocks
    <3>3. req'[r].stage = "lock" /\ lock'[f] = r /\ tree_root'[f] = root
      BY <1>4, <1>5, <2>1, <3>1, <3>2
    <3>4. QED BY <1>3, <1>4, <2>1, <3>2, <3>3 DEF Putting
  <2>3. CASE lock[f] = r
    <3>1. root \in Roots /\ root \in Folders
      <4>1. f \in folders BY <2>1, <2>3, LibraryAssumption DEF Locked
      <4>2. QED BY <4>1, RootMeans, LibraryAssumption
    <3>2. lock'[f] = r /\ tree_root'[f] = root
      BY <1>5, <2>1, <2>3
    <3>3. ~(lock[h] # r /\ h = f)
      BY <2>3
    <3>4. rest = Tail(q.todo)
      BY <1>1, <1>7, <3>3 DEF NextLocks
    <3>5. CASE q.todo = <<root>> /\ dest = root
      <4>1. h = root /\ rest = <<>> BY <1>1, <3>4, <3>5
      <4>2. req'[r].stage = "read" /\ lock'[root] = r BY <1>4, <1>5, <1>7, <3>1, <4>1
      <4>3. QED BY <1>3, <2>1, <3>2, <3>5, <4>2 DEF Putting
    <3>6. CASE q.todo = <<root, dest>>
      <4>1. h = root /\ rest = <<dest>> BY <1>1, <3>4, <3>6
      <4>2. req'[r].stage = "lock" /\ lock'[root] = r BY <1>4, <1>5, <3>1, <4>1
      <4>3. QED BY <1>3, <1>4, <2>1, <3>2, <4>1, <4>2 DEF Putting
    <3>7. CASE q.todo = <<dest>> /\ lock[root] = r
      <4>1. h = dest /\ rest = <<>> BY <1>1, <3>4, <3>7
      <4>2. req'[r].stage = "read" /\ lock'[root] = r /\ lock'[dest] = r
        BY <1>4, <1>5, <1>7, <2>1, <3>1, <3>7, <4>1
      <4>3. QED BY <1>3, <2>1, <3>2, <4>2 DEF Putting
    <3>8. QED BY <1>1, <2>1, <2>3, <3>5, <3>6, <3>7, <2>2 DEF Putting
  <2>4. QED BY <1>1, <2>1, <2>2, <2>3 DEF Putting
<1>8. q.kind # "patch"
  BY <1>1 DEF Fits
<1>9. QED
  BY <1>3, <1>6, <1>7, <1>8 DEF Guarded

LEMMA GuardedRead ==
    ASSUME Typed, Trees, NEW r \in Requests, Guarded(r), ReadMove(r), ~past'.unlocked
    PROVE  Guarded(r)'
<1> DEFINE f == req[r].folder
           p == req[r].parent
           row == Copy(r)
           sub == IF row.cached_has_children THEN Subtree(f, row.tree_root) ELSE {f}
<1>1. PICK q \in Request : q = req[r] /\ Fits(q) /\ q.stage = "read"
  BY DEF Typed, TypeOK, ReadMove
<1>2. req' = [req EXCEPT ![r].stage = "save", ![r].subtree = sub, ![r].new_root = tree_root[p],
                         ![r].new_owner = owner[p], ![r].old_owner = owner[row.parent]]
  BY DEF ReadMove
<1>3. /\ req'[r].kind = q.kind /\ req'[r].folder = f /\ req'[r].parent = p
      /\ req'[r].parent_root = q.parent_root
  BY <1>1, StepsOnMean, ReadMoveTyped
<1>4. /\ req'[r].stage = "save" /\ req'[r].subtree = sub /\ req'[r].new_root = tree_root[p]
      /\ req'[r].new_owner = owner[p] /\ req'[r].old_owner = owner[row.parent]
  <2> HIDE DEF f, p, row, sub
  <2>1. req'[r] = [q EXCEPT !.stage = "save", !.subtree = sub, !.new_root = tree_root[p],
                            !.new_owner = owner[p], !.old_owner = owner[row.parent]]
    BY <1>1, <1>2 DEF Typed, TypeOK
  <2>2. QED BY <2>1 DEF Request
<1>5. q.kind = "put" /\ q.parent_root = tree_root[p]
  <2>1. q.kind \in {"put", "patch"} BY <1>1, ReadMoveTyped
  <2>2. past' = [past EXCEPT !.unlocked = @ \/ req[r].kind = "patch"
                                             \/ req[r].parent_root # tree_root[p]]
    BY DEF ReadMove
  <2>3. QED BY <1>1, <2>1, <2>2 DEF Typed, TypeOK
<1>6. /\ f \in folders /\ p \in folders /\ p \notin Subtree(f, tree_root[f]) /\ f # p
      /\ parent[f] # p /\ UNCHANGED <<folderVars, lock>>
      /\ sub = IF cached_has_children[f] THEN Subtree(f, tree_root[f]) ELSE {f}
      /\ row.parent = parent[f]
  <2>1. row = RowOf(f)
    BY <1>1, <1>5 DEF Copy
  <2>2. /\ row.parent = parent[f] /\ row.tree_root = tree_root[f]
        /\ row.cached_has_children = cached_has_children[f]
    BY <2>1, RowMeans
  <2>3. Present(r) /\ ValidParent(f, p, row.tree_root) /\ row.parent # p
        /\ UNCHANGED <<folderVars, lock>>
    BY DEF ReadMove
  <2>4. f \in folders /\ p \in folders
    BY <1>1, <1>5, <2>3, LibraryAssumption DEF Present, Fits
  <2> HIDE DEF f, p, row
  <2>5. QED BY <2>2, <2>3, <2>4 DEF ValidParent
<1>7. /\ Putting(r) /\ lock[f] = r /\ lock[tree_root[f]] = r /\ lock[tree_root[p]] = r
      /\ f \notin Roots
  BY <1>1, <1>5 DEF Guarded, Putting, Fits
<1>8. sub = Under(f) /\ p \notin Under(f)
  BY <1>6, UnderMeans
<1>9. owner[row.parent] = owner[f]
  BY <1>6, <1>7, RootMeans
<1>10. Under(f) \subseteq folders /\ folders \subseteq spent
  BY DEF Under, Typed, Rows
<1>11. Moving(r)'
  <2>1. UNCHANGED <<folders, spent, parent, tree_root, owner, cached_path>>
    BY <1>6 DEF folderVars
  <2>2. Under(f)' = Under(f)
    BY <1>3, <2>1 DEF Under, OnPath
  <2>3. req'[r].subtree \cap folders' = Under(f)
    BY <1>4, <1>8, <1>10, <2>1
  <2>4. lock'[req'[r].new_root] = r
    BY <1>4, <1>6, <1>7
  <2>5. QED
    BY <1>3, <1>4, <1>6, <1>8, <1>9, <1>10, <2>1, <2>2, <2>3, <2>4 DEF Moving
<1>12. Putting(r)'
  <2>1. UNCHANGED <<tree_root, lock>>
    BY <1>6 DEF folderVars
  <2>2. QED BY <1>1, <1>3, <1>4, <1>7, <1>11, <2>1 DEF Putting
<1>13. QED
  BY <1>3, <1>5, <1>12 DEF Guarded

----------------------------------------------------------------------------
(* The steps that change trees.                                            *)

LEMMA SameTop ==
    ASSUME NEW par, NEW fs, NEW c, Forest(par, fs, c), NEW f \in fs, NEW g \in fs,
           OnPath(c, f, g)
    PROVE  c[g][1] = c[f][1]
<1>1. 1 \in 1..Len(c[f])
  BY ForestStep
<1>2. QED
  BY <1>1, OnPathMeans

\* What has to be shown of a PUT that is about to save.
LEMMA MovingNext ==
    ASSUME NEW s \in Requests, req'[s] = req[s], NEW h, h = req[s].folder,
           NEW d, d = req[s].parent, NEW sub, sub = {g \in folders' : OnPath(cached_path', h, g)},
           lock'[req[s].new_root] = s, req[s].subtree \cap folders' = sub,
           req[s].subtree \subseteq spent', parent'[h] # d, d \in spent',
           req[s].old_owner = owner'[h],
           d \in folders' => /\ tree_root'[d] = req[s].new_root
                             /\ owner'[d] = req[s].new_owner /\ d \notin sub
    PROVE  Moving(s)'
<1>1. Under(req[s].folder)' = sub
  BY DEF Under
<1>2. QED
  BY <1>1 DEF Moving

LEMMA CreateFolderTrees ==
    ASSUME Typed, Fresh, Trees, NEW r \in Requests, CreateFolder(r)
    PROVE  /\ Trees'
           /\ \A g \in folders : tree_root'[g] = tree_root[g] /\ owner'[g] = owner[g]
                                 /\ parent'[g] = parent[g] /\ cached_path'[g] = cached_path[g]
           /\ OnPath(cached_path', req[r].folder, req[r].folder)
           /\ tree_root'[req[r].folder] = tree_root[req[r].parent]
<1> DEFINE f == req[r].folder
           p == req[r].parent
           par == [parent EXCEPT ![f] = p]
           c == [cached_path EXCEPT ![f] = Append(cached_path[p], f)]
           fs == folders \cup {f}
<1>1. /\ f \in Folders /\ f \notin spent /\ f \notin folders /\ p \in folders /\ p \in Folders
      /\ p # f /\ f \notin Roots /\ p # NoFolder
  BY LibraryAssumption DEF CreateFolder, Typed, TypeOK, Fits, Rows, Fresh, Trees
<1>2. /\ folders' = fs /\ spent' = spent \cup {f} /\ parent' = par
      /\ tree_root' = [tree_root EXCEPT ![f] = tree_root[p]]
      /\ owner' = [owner EXCEPT ![f] = owner[p]]
      /\ cached_path' = [cached_path EXCEPT ![f] = Path(par, f)]
      /\ cached_has_children' = [cached_has_children EXCEPT ![p] = TRUE]
  BY DEF CreateFolder
<1>3. /\ folders \subseteq Folders /\ parent \in [Folders -> FolderOrNone]
      /\ tree_root \in [Folders -> FolderOrNone] /\ owner \in [Folders -> Owners]
      /\ cached_path \in [Folders -> Seq(Folders)]
      /\ cached_has_children \in [Folders -> BOOLEAN]
  BY DEF Typed, TypeOK
<1>4. Forest(parent, folders, cached_path)
  BY DEF Trees
<1>5. PICK s \in Seq(Folders) : s = cached_path[p] /\ Len(s) # 0 /\ s[1] = tree_root[p]
  BY <1>1, <1>4, ForestStep DEF Trees
<1>6. /\ Append(s, f) \in Seq(Folders) /\ Append(s, f)[1] = s[1]
      /\ Len(Append(s, f)) = Len(s) + 1 /\ Append(s, f)[Len(s) + 1] = f
  BY <1>1, <1>5
<1>7. /\ c \in [Folders -> Seq(Folders)] /\ c[f] = Append(s, f)
      /\ \A g \in folders : c[g] = cached_path[g]
  BY <1>1, <1>3, <1>5, <1>6
<1>8. par \in [Folders -> FolderOrNone] /\ par[f] = p /\ \A g \in folders : par[g] = parent[g]
  BY <1>1, <1>3 DEF FolderOrNone
<1> HIDE DEF f, p, par, c
<1>9. Forest(par, fs, c)
  <2>1. ASSUME NEW g \in folders
        PROVE  \/ par[g] = NoFolder /\ c[g] = <<g>>
               \/ par[g] \in fs /\ c[g] = Append(c[par[g]], g)
    BY <1>4, <1>7, <1>8 DEF Forest
  <2>2. par[f] \in fs /\ c[f] = Append(c[par[f]], f)
    BY <1>1, <1>5, <1>7, <1>8
  <2>3. QED BY <1>1, <1>3, <1>7, <2>1, <2>2 DEF Forest
<1>10. Path(par, f) = c[f]
  BY <1>8, <1>9, PathMeans
<1>11. cached_path' = c
  BY <1>2, <1>5, <1>7, <1>10 DEF c
<1>12. /\ tree_root'[f] = tree_root[p] /\ owner'[f] = owner[p]
       /\ \A g \in folders : tree_root'[g] = tree_root[g] /\ owner'[g] = owner[g]
  BY <1>1, <1>2, <1>3
<1>13. {g \in folders' : parent'[g] = f} = {} /\ f \in Folders /\ ~cached_has_children[f]
  <2>1. \A g \in folders : parent[g] # f
    BY <1>1, <1>4, LibraryAssumption DEF Forest
  <2>2. \A g \in folders' : parent'[g] # f
    BY <1>1, <1>2, <1>8, <2>1
  <2>3. ~cached_has_children[f]
    BY <1>1 DEF Trees
  <2>4. QED BY <1>1, <2>2, <2>3 DEF Children
<1>14. \A g \in folders : Children(parent, g)' = IF g = p THEN Children(parent, g) \cup {f}
                                                 ELSE Children(parent, g)
  BY <1>1, <1>2, <1>8 DEF Children
<1>15. ASSUME NEW g \in fs
       PROVE  /\ g \in Roots <=> parent'[g] = NoFolder
              /\ tree_root'[g] = cached_path'[g][1]
              /\ owner'[g] = owner'[tree_root'[g]]
              /\ cached_has_children'[g] = (Children(parent, g)' # {})
  <2>1. CASE g = f
    <3>1. tree_root[p] \in folders /\ owner[p] = owner[tree_root[p]]
      BY <1>1, RootMeans
    <3>2. cached_has_children'[f] = cached_has_children[f]
      BY <1>1, <1>2, <1>3
    <3>3. f \notin Roots /\ parent'[f] # NoFolder
      BY <1>1, <1>2, <1>8
    <3>4. tree_root'[f] = cached_path'[f][1]
      BY <1>5, <1>6, <1>7, <1>11, <1>12
    <3>5. owner'[f] = owner'[tree_root'[f]]
      BY <1>12, <3>1
    <3>6. cached_has_children'[f] = (Children(parent, g)' # {})
      <4>1. Children(parent, g)' = {} BY <1>13, <2>1 DEF Children
      <4>2. cached_has_children'[f] = FALSE BY <1>3, <1>13, <3>2
      <4>3. QED BY <4>1, <4>2
    <3>7. QED BY <2>1, <3>3, <3>4, <3>5, <3>6
  <2>2. CASE g \in folders
    <3>1. /\ g \in Roots <=> parent[g] = NoFolder
          /\ tree_root[g] = cached_path[g][1] /\ owner[g] = owner[tree_root[g]]
          /\ cached_has_children[g] = (Children(parent, g) # {}) /\ tree_root[g] \in folders
      BY <2>2, RootMeans DEF Trees
    <3>2. cached_has_children'[g] = IF g = p THEN TRUE ELSE cached_has_children[g]
      BY <1>2, <1>3, <2>2
    <3>3. QED BY <1>2, <1>7, <1>8, <1>11, <1>12, <1>14, <2>2, <3>1, <3>2, ZenonT(60)
  <2>3. QED BY <2>1, <2>2
<1>16. \A g \in Folders \ spent' : ~cached_has_children'[g]
  <2>1. p \in spent BY <1>1 DEF Typed, Rows
  <2>2. QED BY <1>2, <1>3, <2>1 DEF Trees
<1>17. Trees'
  BY <1>2, <1>9, <1>11, <1>15, <1>16 DEF Trees
<1>18. OnPath(cached_path', f, f)
  <2>1. Len(s) + 1 \in 1..Len(c[f]) BY <1>5, <1>6, <1>7
  <2>2. QED BY <1>6, <1>7, <1>11, <2>1 DEF OnPath
<1>19. QED
  BY <1>2, <1>7, <1>8, <1>11, <1>12, <1>17, <1>18 DEF f, p

LEMMA CreateFolderGuarded ==
    ASSUME Typed, Fresh, Locked, Trees, NEW r \in Requests, CreateFolder(r), Guarded(r),
           NEW s \in Requests \ {r}, Guarded(s)
    PROVE  Guarded(s)'
<1> DEFINE f == req[r].folder
           p == req[r].parent
<1>1. /\ Creating(r) /\ p \in folders /\ f \notin spent /\ folders \subseteq spent
      /\ folders' = folders \cup {f} /\ spent' = spent \cup {f} /\ req[r].stage = "save"
      /\ folders \subseteq Folders /\ f \notin folders
  BY DEF CreateFolder, Guarded, Fresh, Typed, TypeOK, Rows
<1>2. /\ \A g \in folders : tree_root'[g] = tree_root[g] /\ owner'[g] = owner[g]
                            /\ parent'[g] = parent[g] /\ cached_path'[g] = cached_path[g]
      /\ tree_root'[f] = tree_root[p] /\ Trees'
  BY CreateFolderTrees
<1>3. req'[s] = req[s] /\ \A g \in Folders : lock'[g] = s <=> lock[g] = s
  BY EndsMean, LocksOfOthers DEF Working
<1>4. ASSUME req[s].kind = "put", req[s].stage = "save" PROVE Moving(s)'
  <2>1. PICK h, d : h = req[s].folder /\ d = req[s].parent
    OBVIOUS
  <2>2. Putting(s) /\ Moving(s) /\ lock[h] = s /\ lock[tree_root[h]] = s
    BY <1>4, <2>1 DEF Guarded, Putting
  <2>3. h \in Folders /\ req[s].new_root \in Folders
    BY <1>4, <2>1 DEF Typed, Fits
  <2>4. h \in folders /\ h \in folders' /\ tree_root[h] \in Folders
    BY <1>1, <2>2, <2>3, LibraryAssumption DEF Locked, Typed, Rows
  <2>5. tree_root[p] # tree_root[h]
    BY <1>1, <2>2 DEF Creating
  <2>6. ASSUME NEW g \in folders' PROVE OnPath(cached_path', h, g) <=> g \in Under(h)
    <3>1. CASE g \in folders
      BY <1>2, <3>1 DEF OnPath, Under
    <3>2. CASE g = f
      <4>1. g \notin Under(h) BY <1>1, <3>2 DEF Under
      <4>2. OnPath(cached_path', h, f) => tree_root'[f] = tree_root'[h]
        BY <1>1, <1>2, <2>4, SameTop DEF Trees
      <4>3. QED BY <1>2, <2>4, <2>5, <3>2, <4>1, <4>2
    <3>3. QED BY <1>1, <3>1, <3>2
  <2>7. {g \in folders' : OnPath(cached_path', h, g)} = Under(h)
    <3>1. Under(h) \subseteq folders' BY <1>1 DEF Under
    <3>2. QED BY <2>6, <3>1
  <2>8. req[s].subtree \cap folders' = Under(h) /\ req[s].subtree \subseteq spent'
    BY <1>1, <2>1, <2>2 DEF Moving
  <2>9. d \in folders' => d \in folders
    BY <1>1, <2>1, <2>2 DEF Moving
  <2>10. /\ lock'[req[s].new_root] = s /\ parent'[h] # d /\ d \in spent'
         /\ req[s].old_owner = owner'[h]
    BY <1>1, <1>2, <1>3, <2>1, <2>2, <2>3, <2>4 DEF Moving
  <2>11. d \in folders' => /\ tree_root'[d] = req[s].new_root
                           /\ owner'[d] = req[s].new_owner /\ d \notin Under(h)
    BY <1>2, <2>1, <2>2, <2>9 DEF Moving
  <2>12. QED
    BY <1>3, <2>1, <2>7, <2>8, <2>10, <2>11, MovingNext
<1>5. QED
  BY <1>2, <1>3, <1>4, GuardedKept

LEMMA DeleteFolderTrees ==
    ASSUME Typed, Trees, NEW r \in Requests, DeleteFolder(r)
    PROVE  /\ Trees' /\ folders' = folders \ Under(req[r].folder)
           /\ UNCHANGED <<tree_root, owner, cached_path, spent>>
           /\ \A g \in folders' : parent'[g] = parent[g]
<1> PICK f, p, gone : f = req[r].folder /\ p = parent[f] /\ gone = Under(f)
  OBVIOUS
<1> DEFINE child == Children(parent, p) \ gone # {}
<1>1. f \in folders /\ f \in Folders /\ f \notin Roots
  BY DEF DeleteFolder, Typed, Fits
<1>2. Below(f, folders) = gone
  BY <1>1, UnderMeans
<1>3. /\ folders' = folders \ gone
      /\ parent' = [g \in Folders |-> IF g \in gone THEN NoFolder ELSE parent[g]]
      /\ cached_has_children' = [cached_has_children EXCEPT ![p] = child]
      /\ UNCHANGED <<spent, tree_root, owner, cached_path>>
  BY <1>2 DEF DeleteFolder
<1>4. /\ folders \subseteq Folders /\ parent \in [Folders -> FolderOrNone]
      /\ cached_has_children \in [Folders -> BOOLEAN] /\ folders \subseteq spent
  BY DEF Typed, TypeOK, Rows
<1>5. Forest(parent, folders, cached_path)
  BY DEF Trees
<1>6. /\ f \in gone /\ gone \cap Roots = {}
      /\ \A g \in gone : g # f => parent[g] \in gone
      /\ \A g \in folders : parent[g] \in gone => g \in gone
  BY <1>1, <1>5, UnderTyped, UnderMeans
<1>7. p \in folders /\ p \in Folders
  BY <1>1, <1>4, RootMeans
<1> HIDE DEF child
<1>8. \A g \in folders' : parent'[g] = parent[g] /\ g \in folders
  BY <1>3, <1>4
<1>9. Roots \subseteq folders'
  BY <1>3, <1>6 DEF Trees
<1>10. Forest(parent', folders', cached_path')
  <2>1. ASSUME NEW g \in folders'
        PROVE  \/ parent'[g] = NoFolder /\ cached_path'[g] = <<g>>
               \/ parent'[g] \in folders' /\ cached_path'[g] = Append(cached_path'[parent'[g]], g)
    <3>1. parent[g] \notin gone BY <1>3, <1>6, <2>1
    <3>2. QED BY <1>3, <1>5, <1>8, <3>1 DEF Forest
  <2>2. QED BY <1>3, <1>5, <2>1 DEF Forest
<1>11. \A g \in folders' : g # p => Children(parent, g)' = Children(parent, g)
  <2>1. ASSUME NEW g \in folders', g # p, NEW x \in folders, parent[x] = g PROVE x \notin gone
    BY <1>3, <1>6, <2>1
  <2>2. QED BY <1>3, <1>8, <2>1 DEF Children
<1>12. p \in folders' => Children(parent, p)' = Children(parent, p) \ gone
  BY <1>3, <1>8 DEF Children
<1>13. ASSUME NEW g \in folders'
       PROVE  /\ g \in Roots <=> parent'[g] = NoFolder
              /\ tree_root'[g] = cached_path'[g][1]
              /\ owner'[g] = owner'[tree_root'[g]]
              /\ cached_has_children'[g] = (Children(parent, g)' # {})
  <2>1. /\ g \in Roots <=> parent[g] = NoFolder
        /\ tree_root[g] = cached_path[g][1] /\ owner[g] = owner[tree_root[g]]
        /\ cached_has_children[g] = (Children(parent, g) # {})
    BY <1>8 DEF Trees
  <2>2. cached_has_children'[g] = (Children(parent, g)' # {})
    <3>1. CASE g = p
      <4>1. cached_has_children'[g] = child BY <1>3, <1>4, <1>7, <3>1
      <4>2. QED BY <1>12, <3>1, <4>1 DEF child
    <3>2. CASE g # p
      <4>1. cached_has_children'[g] = cached_has_children[g] BY <1>3, <1>4, <3>2
      <4>2. QED BY <1>11, <2>1, <3>2, <4>1
    <3>3. QED BY <3>1, <3>2
  <2>3. QED BY <1>3, <1>8, <2>1, <2>2
<1>14. \A g \in Folders \ spent' : ~cached_has_children'[g]
  BY <1>3, <1>4, <1>7 DEF Trees
<1>15. Trees'
  BY <1>9, <1>10, <1>13, <1>14 DEF Trees
<1>16. QED
  BY <1>3, <1>8, <1>15

LEMMA DeleteFolderGuarded ==
    ASSUME Typed, Locked, Trees, NEW r \in Requests, DeleteFolder(r),
           NEW s \in Requests \ {r}, Guarded(s)
    PROVE  Guarded(s)'
<1>1. PICK gone : gone = Under(req[r].folder)
  OBVIOUS
<1>2. /\ folders' = folders \ gone /\ UNCHANGED <<tree_root, owner, cached_path, spent>>
      /\ \A g \in folders' : parent'[g] = parent[g]
  BY <1>1, DeleteFolderTrees
<1>3. Free(r, gone)
  <2>1. req[r].folder \in folders BY DEF DeleteFolder
  <2>2. QED BY <1>1, <2>1, UnderMeans DEF DeleteFolder, Free
<1>4. req'[s] = req[s] /\ \A g \in Folders : lock'[g] = s <=> lock[g] = s
  BY EndsMean, LocksOfOthers DEF Working
<1>5. ASSUME req[s].kind = "put", req[s].stage = "save" PROVE Moving(s)'
  <2>1. PICK h, d : h = req[s].folder /\ d = req[s].parent
    OBVIOUS
  <2>2. Putting(s) /\ Moving(s) /\ lock[h] = s
    BY <1>5, <2>1 DEF Guarded, Putting
  <2>3. h \in Folders /\ req[s].new_root \in Folders
    BY <1>5, <2>1 DEF Typed, Fits
  <2>4. h \in folders'
    BY <1>2, <1>3, <2>2, <2>3, LibraryAssumption DEF Locked, Free
  <2>5. {g \in folders' : OnPath(cached_path', h, g)} = Under(h) \ gone
    BY <1>2 DEF Under
  <2>6. req[s].subtree \cap folders' = Under(h) \ gone /\ req[s].subtree \subseteq spent'
    BY <1>2, <2>1, <2>2 DEF Moving
  <2>7. /\ lock'[req[s].new_root] = s /\ parent'[h] # d /\ d \in spent'
        /\ req[s].old_owner = owner'[h]
    BY <1>2, <1>4, <2>1, <2>2, <2>3, <2>4 DEF Moving
  <2>8. d \in folders' => /\ tree_root'[d] = req[s].new_root
                          /\ owner'[d] = req[s].new_owner /\ d \notin Under(h) \ gone
    BY <1>2, <2>1, <2>2 DEF Moving
  <2>9. QED
    BY <1>4, <2>1, <2>5, <2>6, <2>7, <2>8, MovingNext, ZenonT(60)
<1>6. QED
  BY <1>2, <1>4, <1>5, GuardedKept

\* The task writes what is there.
LEMMA SavePathTrees ==
    ASSUME Typed, Trees, NEW r \in Requests, SavePath(r), ~past'.unlocked
    PROVE  UNCHANGED folderVars
<1> DEFINE f == req[r].folder
           root == req[r].new_root
<1>1. /\ f \in folders /\ f \in Folders /\ parent \in [Folders -> FolderOrNone]
      /\ root \in {NoFolder, req[r].path[1]} /\ cached_path \in [Folders -> Seq(Folders)]
      /\ tree_root \in [Folders -> FolderOrNone]
  BY DEF SavePath, Typed, TypeOK, Fits
<1>2. req[r].path = Path(parent, f)
  BY DEF SavePath, Typed, TypeOK
<1>3. Path(parent, f) = cached_path[f] /\ tree_root[f] = cached_path[f][1]
  BY <1>1, PathMeans DEF Trees
<1>4. /\ cached_path' = [cached_path EXCEPT ![f] = req[r].path]
      /\ tree_root' = IF root = NoFolder THEN tree_root ELSE [tree_root EXCEPT ![f] = root]
      /\ UNCHANGED <<folders, spent, parent, owner, cached_has_children>>
  BY DEF SavePath
<1> HIDE DEF f, root
<1>5. cached_path' = cached_path
  BY <1>1, <1>2, <1>3, <1>4
<1>6. tree_root' = tree_root
  BY <1>1, <1>2, <1>3, <1>4
<1>7. QED
  BY <1>4, <1>5, <1>6 DEF folderVars

\* A folder and what is below it go, with their paths, below another.
LEMMA MoveForest ==
    ASSUME NEW par \in [Folders -> FolderOrNone], NEW fs, NEW c, Forest(par, fs, c),
           NEW f \in fs, NEW p \in fs, NEW sub, p \notin sub,
           \A g : g \in sub <=> (g \in fs /\ OnPath(c, f, g)),
           NEW par2, par2[f] = p, \A g \in fs : g # f => par2[g] = par[g]
    PROVE  \E c2 \in [Folders -> Seq(Folders)] :
             /\ Forest(par2, fs, c2)
             /\ \A g \in Folders : g \notin sub => c2[g] = c[g]
             /\ \A g \in sub : c2[g][1] = c[p][1]
<1> DEFINE c2 == [g \in Folders |-> IF g \in sub
                                    THEN c[p] \o SubSeq(c[g], Len(c[f]), Len(c[g]))
                                    ELSE c[g]]
           n == Len(c[f])
           Rest(g) == SubSeq(c[g], n, Len(c[g]))
<1>1. fs \subseteq Folders /\ c \in [Folders -> Seq(Folders)] /\ f \in Folders /\ p \in Folders
  BY DEF Forest
<1>2. /\ n \in Nat \ {0} /\ c[f] \in Seq(Folders) /\ c[f][n] = f
      /\ Len(c[p]) \in Nat \ {0} /\ c[p] \in Seq(Folders)
  BY ForestStep
<1>3. ASSUME NEW g \in sub
      PROVE  /\ g \in fs /\ g \in Folders /\ c[g] \in Seq(Folders) /\ Len(c[g]) \in Nat
             /\ n <= Len(c[g]) /\ Rest(g) \in Seq(Folders)
             /\ c2[g] = c[p] \o Rest(g) /\ c2[g] \in Seq(Folders) /\ c2[g][1] = c[p][1]
  <2>1. /\ g \in fs /\ g \in Folders /\ c[g] \in Seq(Folders) /\ Len(c[g]) \in Nat
        /\ n <= Len(c[g])
    BY <1>1, <1>3, OnPathMeans, ForestStep
  <2>2. \A i \in n..Len(c[g]) : c[g][i] \in Folders
    BY <1>2, <2>1
  <2>3. Rest(g) \in Seq(Folders)
    BY <1>2, <2>1, <2>2, SubSeqProperties
  <2>4. c2[g] = c[p] \o Rest(g)
    BY <1>3, <2>1
  <2> HIDE DEF Rest
  <2>5. /\ c[p] \o Rest(g) \in Seq(Folders)
        /\ Len(c[p] \o Rest(g)) = Len(c[p]) + Len(Rest(g))
        /\ \A i \in 1..Len(c[p]) + Len(Rest(g)) :
             (c[p] \o Rest(g))[i] = IF i <= Len(c[p]) THEN c[p][i] ELSE Rest(g)[i - Len(c[p])]
    BY <1>2, <2>3, ConcatProperties
  <2>6. 1 \in 1..Len(c[p]) + Len(Rest(g)) /\ 1 <= Len(c[p])
    <3>1. Len(Rest(g)) \in Nat BY <2>3
    <3>2. QED BY <1>2, <3>1
  <2>7. QED BY <2>1, <2>3, <2>4, <2>5, <2>6
<1>4. ASSUME NEW g \in Folders, g \notin sub PROVE c2[g] = c[g]
  BY <1>4
<1>5. c2 \in [Folders -> Seq(Folders)]
  <2>1. \A g \in Folders : c2[g] \in Seq(Folders)
    BY <1>1, <1>3, <1>4
  <2>2. QED BY <2>1
<1>6. f \in sub /\ f # p
  BY OnPathOfParent
<1>7. par2[f] = p /\ \A g \in fs : g # f => par2[g] = par[g]
  OBVIOUS
<1> HIDE DEF Rest, n, c2
<1>8. ASSUME NEW g \in fs
      PROVE  \/ par2[g] = NoFolder /\ c2[g] = <<g>>
             \/ par2[g] \in fs /\ c2[g] = Append(c2[par2[g]], g)
  <2>1. CASE g = f
    <3>1. Rest(f) = <<f>>
      <4>1. \A i \in n..n : c[f][i] \in Folders
        BY <1>1, <1>2
      <4>2. Rest(f) \in Seq(Folders) /\ Len(Rest(f)) = 1 /\ Rest(f)[1] = f
        BY <1>2, <1>3, <1>6, <4>1, SubSeqProperties DEF Rest, n
      <4>3. QED BY <4>2
    <3>2. c2[f] = c[p] \o <<f>>
      BY <1>3, <1>6, <3>1
    <3>3. Append(c[p], f) = c[p] \o <<f>>
      BY <1>1, <1>2, AppendIsConcat
    <3>4. QED BY <1>1, <1>4, <1>7, <2>1, <3>2, <3>3
  <2>2. CASE g # f /\ g \in sub
    <3>1. PICK q \in sub : q = par[g] /\ c[g] = Append(c[q], g) /\ Len(c[g]) = Len(c[q]) + 1
      <4>1. par[g] # NoFolder /\ OnPath(c, f, par[g])
        BY <2>2, OnPathOfParent
      <4>2. QED BY <4>1, ForestStep
    <3>2. /\ c[q] \in Seq(Folders) /\ Len(c[q]) \in Nat /\ n <= Len(c[q]) /\ q \in Folders
          /\ c2[q] = c[p] \o Rest(q) /\ Rest(q) \in Seq(Folders)
      BY <1>3
    <3>3. g \in Folders /\ c[g] \in Seq(Folders) /\ c2[g] = c[p] \o Rest(g)
      BY <1>3, <2>2
    <3>4. Rest(g) = Rest(q) \o <<g>>
      <4>1. n \in 1..Len(c[g]) /\ Len(c[g]) \in n..Len(c[g])
        BY <1>2, <3>1, <3>2
      <4>2. Rest(g) = SubSeq(c[g], n, Len(c[g]) - 1) \o <<c[g][Len(c[g])]>>
        BY <3>3, <4>1, SubSeqRecursiveSecond DEF Rest
      <4>3. c[g][Len(c[g])] = g /\ Len(c[g]) - 1 = Len(c[q])
        BY <3>1, <3>2, ForestStep
      <4>4. SubSeq(c[g], n, Len(c[q])) = Rest(q)
        <5>1. PICK x \in Seq(Folders), y \in Seq(Folders), m \in Nat :
                x = c[g] /\ y = c[q] /\ m = Len(c[q]) /\ n <= m
          BY <3>2, <3>3
        <5>2. \A i \in n..m : x[i] = y[i] /\ x[i] \in Folders /\ y[i] \in Folders
          <6>1. \A i \in 1..m : x[i] = y[i]
            BY <3>1, <3>3, <5>1, AppendProperties
          <6>2. n..m \subseteq 1..m
            BY <1>2, <5>1
          <6>3. QED BY <5>1, <6>1, <6>2
        <5>3. /\ SubSeq(x, n, m) \in Seq(Folders) /\ Len(SubSeq(x, n, m)) = m - n + 1
              /\ \A i \in 1..m - n + 1 : SubSeq(x, n, m)[i] = x[n + i - 1]
          BY <1>2, <5>1, <5>2, SubSeqProperties
        <5>4. /\ SubSeq(y, n, m) \in Seq(Folders) /\ Len(SubSeq(y, n, m)) = m - n + 1
              /\ \A i \in 1..m - n + 1 : SubSeq(y, n, m)[i] = y[n + i - 1]
          BY <1>2, <5>1, <5>2, SubSeqProperties
        <5>5. \A i \in 1..m - n + 1 : n + i - 1 \in n..m
          BY <1>2, <5>1
        <5>6. \A i \in 1..Len(SubSeq(x, n, m)) : SubSeq(x, n, m)[i] = SubSeq(y, n, m)[i]
          BY <5>2, <5>3, <5>4, <5>5
        <5>7. SubSeq(x, n, m) = SubSeq(y, n, m)
          BY <5>3, <5>4, <5>6, SeqEqual, SMTT(30)
        <5>8. QED BY <5>1, <5>7 DEF Rest
      <4>5. QED BY <4>2, <4>3, <4>4
    <3>5. PICK x \in Seq(Folders), y \in Seq(Folders), z \in Seq(Folders) :
            x = c[p] /\ y = Rest(q) /\ z = <<g>> /\ x \o y \in Seq(Folders)
      <4>1. <<g>> \in Seq(Folders) BY <3>3
      <4>2. c[p] \o Rest(q) \in Seq(Folders) BY <1>2, <3>2
      <4>3. QED BY <1>2, <3>2, <4>1, <4>2
    <3>6. (x \o y) \o z = x \o (y \o z)
      BY ConcatAssociative
    <3>7. c2[g] = Append(c2[q], g)
      <4>1. Append(x \o y, g) = (x \o y) \o <<g>>
        BY <3>3, <3>5, AppendIsConcat
      <4>2. QED BY <3>2, <3>3, <3>4, <3>5, <3>6, <4>1
    <3>8. q \in fs
      BY <1>3
    <3>9. QED BY <1>7, <2>2, <3>1, <3>7, <3>8
  <2>3. CASE g \notin sub
    <3>1. c2[g] = c[g] /\ g # f /\ par2[g] = par[g]
      <4>1. g # f BY <1>6, <2>3
      <4>2. par2[g] = par[g] BY <1>7, <4>1
      <4>3. g \in Folders BY <1>1
      <4>4. c2[g] = c[g] BY <1>4, <2>3, <4>3
      <4>5. QED BY <4>1, <4>2, <4>4
    <3>2. CASE par[g] = NoFolder
      <4>1. c[g] = <<g>> BY <3>2, ForestStep
      <4>2. QED BY <3>1, <3>2, <4>1
    <3>3. CASE par[g] # NoFolder
      <4>1. par[g] \in fs /\ c[g] = Append(c[par[g]], g)
        BY <3>3, ForestStep
      <4>2. par[g] \notin sub
        BY <2>3, <3>3, OnPathOfParent
      <4>3. QED BY <1>1, <1>4, <3>1, <4>1, <4>2
    <3>4. QED BY <3>2, <3>3
  <2>4. QED BY <2>1, <2>2, <2>3
<1>9. Forest(par2, fs, c2)
  BY <1>1, <1>5, <1>8 DEF Forest
<1>10. QED
  BY <1>3, <1>4, <1>5, <1>9

LEMMA MoveFolderTrees ==
    ASSUME Typed, Trees, NEW r \in Requests, Guarded(r), MoveFolder(r)
    PROVE  /\ Trees' /\ req[r].kind = "put" /\ req[r].folder \in folders
           /\ req[r].parent \in folders /\ UNCHANGED <<folders, spent>>
           /\ LET sub == Under(req[r].folder)
              IN /\ req[r].subtree \cap folders = sub
                 /\ \A g \in Folders : /\ g \notin sub => /\ tree_root'[g] = tree_root[g]
                                                          /\ owner'[g] = owner[g]
                                                          /\ cached_path'[g] = cached_path[g]
                                       /\ g \in sub => /\ tree_root'[g] = req[r].new_root
                                                       /\ owner'[g] = req[r].new_owner
                                       /\ g # req[r].folder => parent'[g] = parent[g]
<1> PICK f, p, sub, root, new, old : /\ f = req[r].folder /\ p = req[r].parent /\ sub = Under(f)
                                     /\ root = req[r].new_root /\ new = req[r].new_owner
                                     /\ old = parent[f]
  OBVIOUS
<1> DEFINE par == [parent EXCEPT ![f] = p]
           child == Children(parent, old) \ {f} # {}
<1>1. /\ req[r].kind = "put" /\ req[r].stage = "save" /\ Moving(r)
      /\ f \in folders /\ p \in folders /\ f \notin Roots
  BY DEF MoveFolder, Guarded, Putting, Typed, Fits
<1>2. /\ folders \subseteq Folders /\ folders \subseteq spent /\ p \in Folders /\ f \in Folders
      /\ parent \in [Folders -> FolderOrNone] /\ cached_path \in [Folders -> Seq(Folders)]
      /\ tree_root \in [Folders -> FolderOrNone] /\ owner \in [Folders -> Owners]
      /\ cached_has_children \in [Folders -> BOOLEAN]
  BY <1>1 DEF Typed, TypeOK, Rows
<1>3. /\ req[r].subtree \cap folders = sub /\ tree_root[p] = root /\ owner[p] = new
      /\ p \notin sub /\ parent[f] # p
  BY <1>1 DEF Moving
<1>4. /\ parent' = par
      /\ tree_root' = [g \in Folders |-> IF g \in sub THEN root ELSE tree_root[g]]
      /\ owner' = [g \in Folders |-> IF g \in sub THEN new ELSE owner[g]]
      /\ cached_path' = [g \in Folders |-> IF g \in sub THEN Path(par, g) ELSE cached_path[g]]
      /\ cached_has_children' = [cached_has_children EXCEPT ![p] = TRUE, ![old] = child]
      /\ UNCHANGED <<folders, spent>>
  <2>1. PICK row : row = Copy(r)
    OBVIOUS
  <2>2. /\ row.parent = old /\ row.tree_root = tree_root[f] /\ row.owner = owner[f]
        /\ row.cached_path = cached_path[f] /\ row.cached_has_children = cached_has_children[f]
    BY <1>1, <2>1, RowMeans DEF Copy
  <2>3. req[r].subtree \cap (folders \cup {f}) = sub /\ folders \cup {f} = folders
    BY <1>1, <1>3
  <2>4. /\ parent' = par /\ folders' = folders \cup {f} /\ UNCHANGED spent
        /\ tree_root' = Updated([tree_root EXCEPT ![f] = row.tree_root], sub, root)
        /\ owner' = Updated([owner EXCEPT ![f] = row.owner], sub, new)
        /\ cached_path' = [g \in Folders |-> IF g \in sub THEN Path(par, g)
                                              ELSE IF g = f THEN row.cached_path
                                              ELSE cached_path[g]]
        /\ cached_has_children' =
              [cached_has_children EXCEPT ![f] = row.cached_has_children, ![p] = TRUE,
                                          ![old] = child]
    BY <2>1, <2>2, <2>3 DEF MoveFolder
  <2>5. /\ [tree_root EXCEPT ![f] = row.tree_root] = tree_root
        /\ [owner EXCEPT ![f] = row.owner] = owner
        /\ [cached_has_children EXCEPT ![f] = row.cached_has_children] = cached_has_children
    BY <1>2, <2>2
  <2> HIDE DEF par, child
  <2>6. /\ tree_root' = [g \in Folders |-> IF g \in sub THEN root ELSE tree_root[g]]
        /\ owner' = [g \in Folders |-> IF g \in sub THEN new ELSE owner[g]]
    BY <2>4, <2>5 DEF Updated
  <2>7. cached_path' = [g \in Folders |-> IF g \in sub THEN Path(par, g) ELSE cached_path[g]]
    BY <2>2, <2>4
  <2>8. cached_has_children' = [cached_has_children EXCEPT ![p] = TRUE, ![old] = child]
    BY <2>4, <2>5
  <2>9. QED BY <2>3, <2>4, <2>6, <2>7, <2>8
<1>5. Forest(parent, folders, cached_path) /\ sub = {g \in folders : OnPath(cached_path, f, g)}
  BY DEF Trees, Under
<1>6. par \in [Folders -> FolderOrNone] /\ sub \subseteq folders
  BY <1>2, <1>5 DEF FolderOrNone
<1>7. par[f] = p /\ \A g \in Folders : g # f => par[g] = parent[g]
  BY <1>2
<1> HIDE DEF par, child
<1>8. \A g \in folders : g # f => par[g] = parent[g]
  BY <1>2, <1>7
<1>9. PICK c \in [Folders -> Seq(Folders)] :
         /\ Forest(par, folders, c)
         /\ \A g \in Folders : g \notin sub => c[g] = cached_path[g]
         /\ \A g \in sub : c[g][1] = cached_path[p][1]
  <2>1. \A g : g \in sub <=> (g \in folders /\ OnPath(cached_path, f, g))
    BY <1>5
  <2>2. /\ parent \in [Folders -> FolderOrNone] /\ f \in folders /\ p \in folders
        /\ p \notin sub /\ Forest(parent, folders, cached_path)
    BY <1>1, <1>2, <1>3, <1>5
  <2>3. par[f] = p
    BY <1>7
  <2>4. QED BY <1>8, <2>1, <2>2, <2>3, MoveForest
<1>10. c = [g \in Folders |-> c[g]]
  OBVIOUS
<1>11. cached_path' = c
  <2>1. \A g \in folders : Path(par, g) = c[g]
    BY <1>6, <1>9, PathMeans
  <2>2. \A g \in Folders : cached_path'[g] = c[g]
    BY <1>4, <1>6, <1>9, <2>1
  <2>3. QED BY <1>4, <1>10, <2>2
<1>12. /\ sub \cap Roots = {} /\ tree_root[p] \in Roots /\ tree_root[p] \in folders
       /\ owner[p] = owner[tree_root[p]] /\ old \in folders /\ old # NoFolder
  <2>1. old \in folders BY <1>1, RootMeans
  <2>2. Under(f) \cap Roots = {} BY <1>1, UnderMeans
  <2>3. /\ tree_root[p] \in Roots /\ tree_root[p] \in folders
        /\ owner[p] = owner[tree_root[p]]
    BY <1>1, RootMeans
  <2>4. folders \subseteq Folders BY <1>2
  <2>5. QED BY <2>1, <2>2, <2>3, <2>4, LibraryAssumption
<1>13. \A g \in folders : g \notin {p, old} =>
          {x \in folders : par[x] = g} = {x \in folders : parent[x] = g}
  BY <1>1, <1>2, <1>7
<1>14. f \in {x \in folders : par[x] = p}
  BY <1>1, <1>7
<1>15. {x \in folders : par[x] = old} = {x \in folders : parent[x] = old} \ {f}
  BY <1>1, <1>2, <1>3, <1>7
<1>16. ASSUME NEW g \in folders
       PROVE  /\ g \in Roots <=> parent'[g] = NoFolder
              /\ tree_root'[g] = cached_path'[g][1]
              /\ owner'[g] = owner'[tree_root'[g]]
              /\ cached_has_children'[g] = (Children(parent, g)' # {})
  <2>1. /\ g \in Roots <=> parent[g] = NoFolder
        /\ tree_root[g] = cached_path[g][1] /\ owner[g] = owner[tree_root[g]]
        /\ cached_has_children[g] = ({x \in folders : parent[x] = g} # {})
        /\ tree_root[g] \in Roots
    BY RootMeans DEF Trees, Children
  <2>2. g \in Roots <=> parent'[g] = NoFolder
    BY <1>1, <1>2, <1>4, <1>7, <2>1, LibraryAssumption
  <2>3. tree_root'[g] = cached_path'[g][1]
    <3>1. cached_path[p][1] = root /\ g \in Folders
      BY <1>1, <1>2, <1>3 DEF Trees
    <3>2. CASE g \in sub BY <1>4, <1>9, <1>11, <3>1, <3>2
    <3>3. CASE g \notin sub BY <1>4, <1>9, <1>11, <2>1, <3>1, <3>3
    <3>4. QED BY <3>2, <3>3
  <2>4. owner'[g] = owner'[tree_root'[g]]
    <3>1. /\ tree_root[g] \in Folders \ sub /\ root \in Folders \ sub
          /\ new = owner[root]
      BY <1>3, <1>12, <2>1, LibraryAssumption
    <3>2. CASE g \in sub BY <1>2, <1>4, <3>1, <3>2
    <3>3. CASE g \notin sub BY <1>2, <1>4, <2>1, <3>1, <3>3
    <3>4. QED BY <3>2, <3>3
  <2>5. cached_has_children'[g] = (Children(parent, g)' # {})
    <3> PICK S : S = {x \in folders : par[x] = g}
      OBVIOUS
    <3>0. Children(parent, g)' = S
      BY <1>4 DEF Children
    <3>1. cached_has_children'[g] = IF g = old THEN child ELSE IF g = p THEN TRUE
                                    ELSE cached_has_children[g]
      BY <1>2, <1>4
    <3>2. child = ({x \in folders : parent[x] = old} \ {f} # {})
      BY DEF child, Children
    <3>3. CASE g = p BY <1>3, <1>14, <3>0, <3>1, <3>3
    <3>4. CASE g = old BY <1>15, <3>0, <3>1, <3>2, <3>4
    <3>5. CASE g \notin {p, old} BY <1>13, <2>1, <3>0, <3>1, <3>5
    <3>6. QED BY <3>3, <3>4, <3>5
  <2>6. QED BY <2>2, <2>3, <2>4, <2>5
<1>17. \A g \in Folders \ spent' : ~cached_has_children'[g]
  <2>1. ASSUME NEW g \in Folders, g \notin spent PROVE ~cached_has_children'[g]
    <3>1. g \notin {p, old} BY <1>1, <1>2, <1>12, <2>1
    <3>2. cached_has_children'[g] = cached_has_children[g] BY <1>2, <1>4, <3>1
    <3>3. QED BY <2>1, <3>2 DEF Trees
  <2>2. QED BY <1>4, <2>1
<1>18. Trees'
  <2>1. ASSUME NEW g \in folders'
        PROVE  /\ g \in Roots <=> parent'[g] = NoFolder
               /\ tree_root'[g] = cached_path'[g][1]
               /\ owner'[g] = owner'[tree_root'[g]]
               /\ cached_has_children'[g] = (Children(parent, g)' # {})
    BY <1>4, <1>16, <2>1
  <2>2. Forest(parent, folders, cached_path)'
    BY <1>4, <1>9, <1>11
  <2>3. Roots \subseteq folders'
    BY <1>4 DEF Trees
  <2>4. QED BY <1>17, <2>1, <2>2, <2>3 DEF Trees
<1>19. \A g \in Folders : /\ g \notin sub => /\ tree_root'[g] = tree_root[g]
                                             /\ owner'[g] = owner[g]
                                             /\ cached_path'[g] = cached_path[g]
                          /\ g \in sub => tree_root'[g] = root /\ owner'[g] = new
                          /\ g # f => parent'[g] = parent[g]
  BY <1>4, <1>7
<1>20. QED
  BY <1>1, <1>3, <1>4, <1>18, <1>19

LEMMA MoveFolderGuarded ==
    ASSUME Typed, Locked, Trees, NEW r \in Requests, MoveFolder(r), Guarded(r),
           NEW s \in Requests \ {r}, Guarded(s)
    PROVE  Guarded(s)'
<1> PICK f, sub : f = req[r].folder /\ sub = Under(f)
  OBVIOUS
<1>1. /\ Trees' /\ UNCHANGED <<folders, spent>> /\ f \in folders /\ req[r].kind = "put"
      /\ \A g \in Folders : /\ g \notin sub => /\ tree_root'[g] = tree_root[g]
                                               /\ owner'[g] = owner[g]
                                               /\ cached_path'[g] = cached_path[g]
                            /\ g \in sub => tree_root'[g] = req[r].new_root
                            /\ g # f => parent'[g] = parent[g]
      /\ req[r].subtree \cap folders = sub
  BY MoveFolderTrees
<1>2. /\ Putting(r) /\ Moving(r) /\ lock[f] = r /\ lock[tree_root[f]] = r
      /\ lock[req[r].new_root] = r /\ Free(r, sub)
  BY <1>1 DEF MoveFolder, Guarded, Putting, Moving, Free
<1>3. req'[s] = req[s] /\ \A g \in Folders : lock'[g] = s <=> lock[g] = s
  BY EndsMean, LocksOfOthers DEF Working
<1>4. \A g \in sub : tree_root[g] = tree_root[f] /\ g \in folders /\ g \in Folders
  BY <1>1, UnderMeans DEF Under, Typed, TypeOK
<1>5. ASSUME NEW g \in folders, lock[g] = s PROVE tree_root'[g] = tree_root[g]
  <2>1. g \notin sub BY <1>2, <1>5, LibraryAssumption DEF Free
  <2>2. QED BY <1>1, <2>1 DEF Typed, TypeOK
<1>6. ASSUME req[s].kind = "put", req[s].stage = "save" PROVE Moving(s)'
  <2>1. PICK h, d : h = req[s].folder /\ d = req[s].parent
    OBVIOUS
  <2>2. Putting(s) /\ Moving(s) /\ lock[h] = s /\ lock[tree_root[h]] = s
    BY <1>6, <2>1 DEF Guarded, Putting
  <2>3. h \in Folders /\ req[s].new_root \in Folders /\ d \in Folders
    BY <1>6, <2>1 DEF Typed, Fits
  <2>4. h \in folders
    BY <2>2, <2>3, LibraryAssumption DEF Locked
  <2>5. tree_root[h] # tree_root[f] /\ tree_root[h] # req[r].new_root /\ h # f
    BY <1>2, <2>2
  <2>6. h \notin sub /\ tree_root'[h] = tree_root[h]
    BY <1>1, <1>4, <2>3, <2>5
  <2>7. ASSUME NEW g \in folders PROVE OnPath(cached_path', h, g) <=> g \in Under(h)
    <3>1. g \in Folders BY DEF Typed, TypeOK
    <3>2. CASE g \notin sub
      BY <1>1, <3>1, <3>2 DEF OnPath, Under
    <3>3. CASE g \in sub
      <4>1. OnPath(cached_path', h, g) => tree_root'[g] = tree_root'[h]
        BY <1>1, <2>4, SameTop DEF Trees
      <4>2. g \in Under(h) => tree_root[g] = tree_root[h]
        BY <2>4, UnderMeans
      <4>3. QED BY <1>1, <1>4, <2>5, <2>6, <3>1, <3>3, <4>1, <4>2
    <3>4. QED BY <3>2, <3>3
  <2>8. {g \in folders' : OnPath(cached_path', h, g)} = Under(h)
    <3>1. Under(h) \subseteq folders BY DEF Under
    <3>2. QED BY <1>1, <2>7, <3>1
  <2>9. req[s].subtree \cap folders' = Under(h) /\ req[s].subtree \subseteq spent'
    BY <1>1, <2>1, <2>2 DEF Moving
  <2>10. /\ lock'[req[s].new_root] = s /\ parent'[h] # d /\ d \in spent'
         /\ req[s].old_owner = owner'[h]
    BY <1>1, <1>3, <2>1, <2>2, <2>3, <2>5, <2>6 DEF Moving
  <2>11. d \in folders' => /\ tree_root'[d] = req[s].new_root
                           /\ owner'[d] = req[s].new_owner /\ d \notin Under(h)
    <3>1. SUFFICES ASSUME d \in folders
                   PROVE  /\ tree_root'[d] = req[s].new_root
                          /\ owner'[d] = req[s].new_owner /\ d \notin Under(h)
      BY <1>1
    <3>2. /\ tree_root[d] = req[s].new_root /\ owner[d] = req[s].new_owner
          /\ d \notin Under(h) /\ lock[req[s].new_root] = s
      BY <2>1, <2>2, <3>1 DEF Moving
    <3>3. d \notin sub
      BY <1>2, <1>4, <3>2
    <3>4. QED BY <1>1, <2>3, <3>2, <3>3
  <2>12. QED
    BY <1>3, <2>1, <2>8, <2>9, <2>10, <2>11, MovingNext
<1>7. QED
  BY <1>3, <1>5, <1>6, GuardedKept

----------------------------------------------------------------------------
(* The trees.                                                              *)

\* Of a step that leaves the folders as they are, what others have read stays.
LEMMA OthersStill ==
    ASSUME Typed, Locked, Trees, \A s \in Requests : Guarded(s), NEW r \in Requests,
           Begin(r) \/ BeginAdmin(r) \/ Working(r) \/ Administering(r), UNCHANGED folderVars,
           \A s \in Requests \ {r} : req'[s] = req[s], Guarded(r)'
    PROVE  (Trees /\ \A s \in Requests : Guarded(s))'
<1>1. \A s \in Requests \ {r} : \A g \in Folders : lock'[g] = s <=> lock[g] = s
  BY LocksOfOthers
<1>2. \A s \in Requests \ {r} : Guarded(s)'
  BY <1>1, GuardedWhileStill
<1>3. QED
  BY <1>2, TreesKept

LEMMA GuardedFree ==
    ASSUME NEW r \in Requests, req'[r].kind \notin {"create_folder", "put", "patch"}
    PROVE  Guarded(r)'
BY DEF Guarded

LEMMA SerialStep ==
    ASSUME Typed, Serial, [AdminNext]_vars PROVE Serial'
<1>1. Fresh' /\ Locked' /\ Fresh /\ Locked
  BY FreshStep, LockedStep DEF Serial
<1> SUFFICES ASSUME ~past'.unlocked PROVE (Trees /\ \A s \in Requests : Guarded(s))'
  BY <1>1 DEF Serial
<1>2. ~past.unlocked
  <2>1. past \in [unlocked: BOOLEAN, stale: BOOLEAN, swept: BOOLEAN, rows: SUBSET Tables]
    BY DEF Typed, TypeOK
  <2>2. CASE UNCHANGED past
    BY <2>2
  <2>3. ASSUME NEW r \in Requests, ReadMove(r) PROVE ~past.unlocked
    BY <2>1, <2>3 DEF ReadMove
  <2>4. ASSUME NEW r \in Requests, SavePath(r) PROVE ~past.unlocked
    BY <2>1, <2>4 DEF SavePath
  <2>5. ASSUME NEW r \in Requests, \/ DeleteFolder(r) \/ SaveLink(r) \/ SaveOrganization(r)
                                   \/ SaveRegistrar(r) \/ SaveUser(r) \/ Reconcile(r)
                                   \/ SaveFolder(r)
        PROVE  ~past.unlocked
    BY <2>1, <2>5 DEF DeleteFolder, SaveLink, SaveOrganization, SaveRegistrar, SaveUser, Reconcile,
       SaveFolder
  <2>6. ASSUME NEW r \in Requests,
               \/ Open(r) \/ Lock(r) \/ LockFails(r) \/ Refuse(r) \/ CreateFolder(r)
               \/ MoveFolder(r) \/ SaveFails(r) \/ Abort(r) \/ CountLinks(r) \/ Compare(r)
               \/ ComputePath(r) \/ ReadShared(r)
        PROVE  ~past.unlocked
    BY <2>6 DEF Open, Lock, LockFails, Refuse, CreateFolder, MoveFolder, SaveFails, Abort,
       CountLinks, Compare, ComputePath, ReadShared
  <2>7. ASSUME NEW r \in Requests, Begin(r) \/ BeginAdmin(r) PROVE ~past.unlocked
    BY <2>7, BeginMeans
  <2>8. ASSUME NEW l \in Links, DeleteLink(l) PROVE ~past.unlocked
    BY <2>8 DEF DeleteLink
  <2>9. QED
    BY <2>2, <2>3, <2>4, <2>5, <2>6, <2>7, <2>8
    DEF AdminNext, Next, Working, Administering, vars
<1>3. Trees /\ \A s \in Requests : Guarded(s)
  BY <1>2 DEF Serial
<1>4. ASSUME UNCHANGED folderVars, UNCHANGED <<lock, req>>
      PROVE  (Trees /\ \A s \in Requests : Guarded(s))'
  BY <1>1, <1>3, <1>4, GuardedWhileStill, TreesKept
<1>5. ASSUME NEW r \in Requests, Begin(r) \/ BeginAdmin(r)
      PROVE  (Trees /\ \A s \in Requests : Guarded(s))'
  BY <1>1, <1>3, <1>5, BeginMeans, GuardedBegin, OthersStill
<1>6. ASSUME NEW r \in Requests, Lock(r) PROVE (Trees /\ \A s \in Requests : Guarded(s))'
  <2>1. UNCHANGED folderVars /\ \A s \in Requests \ {r} : req'[s] = req[s]
    BY <1>6, StepsOnMean
  <2>2. Guarded(r)'
    BY <1>1, <1>3, <1>6, GuardedLock
  <2>3. QED BY <1>1, <1>3, <1>6, <2>1, <2>2, OthersStill DEF Working
<1>7. ASSUME NEW r \in Requests, ReadMove(r) PROVE (Trees /\ \A s \in Requests : Guarded(s))'
  <2>1. UNCHANGED folderVars /\ \A s \in Requests \ {r} : req'[s] = req[s]
    BY <1>7, StepsOnMean DEF ReadMove
  <2>2. Guarded(r)'
    BY <1>3, <1>7, GuardedRead
  <2>3. QED BY <1>1, <1>3, <1>7, <2>1, <2>2, OthersStill DEF Working
<1>8. ASSUME NEW r \in Requests, Open(r) \/ CountLinks(r) \/ Compare(r) \/ ComputePath(r)
      PROVE  (Trees /\ \A s \in Requests : Guarded(s))'
  <2>1. UNCHANGED folderVars /\ \A s \in Requests \ {r} : req'[s] = req[s]
    BY <1>8, StepsOnMean DEF Open, CountLinks, Compare, ComputePath
  <2>2. req[r].kind \notin {"create_folder", "put", "patch"}
    BY <1>8 DEF Open, CountLinks, Compare, ComputePath, Typed, Fits
  <2>3. req'[r].kind \notin {"create_folder", "put", "patch"}
    <3>1. NoReq.kind = "none" BY DEF NoReq
    <3>2. QED BY <1>8, <2>2, <3>1, StepsOnMean
  <2>4. QED BY <1>1, <1>3, <1>8, <2>1, <2>3, GuardedFree, OthersStill DEF Working, Administering
<1>9. ASSUME NEW r \in Requests,
             \/ LockFails(r) \/ Refuse(r) \/ SaveFails(r) \/ Abort(r)
             \/ SaveOrganization(r) \/ SaveRegistrar(r) \/ SaveUser(r)
             \/ Reconcile(r) \/ SaveLink(r) \/ SavePath(r) \/ SaveFolder(r)
      PROVE  (Trees /\ \A s \in Requests : Guarded(s))'
  <2>1. UNCHANGED folderVars
    <3>1. CASE SavePath(r)
      BY <1>3, <3>1, SavePathTrees
    <3>2. CASE SaveFolder(r) \/ SaveOrganization(r)
      BY <3>2, RowStill
    <3>3. CASE ~SavePath(r) /\ ~SaveFolder(r) /\ ~SaveOrganization(r)
      BY <1>9, <3>3 DEF LockFails, Refuse, SaveFails, Abort, SaveRegistrar, SaveUser, Reconcile,
         SaveLink
    <3>4. QED BY <3>1, <3>2, <3>3
  <2>2. req'[r].kind = "none" /\ \A s \in Requests \ {r} : req'[s] = req[s]
    BY <1>9, EndsMean
  <2>3. QED BY <1>1, <1>3, <1>9, <2>1, <2>2, GuardedFree, OthersStill DEF Working, Administering
<1>10. ASSUME NEW r \in Requests, CreateFolder(r) \/ MoveFolder(r) \/ DeleteFolder(r)
       PROVE  (Trees /\ \A s \in Requests : Guarded(s))'
  <2>1. Guarded(r)'
    BY <1>10, EndsMean, GuardedFree
  <2>2. CASE CreateFolder(r)
    BY <1>1, <1>3, <2>1, <2>2, CreateFolderTrees, CreateFolderGuarded
  <2>3. CASE MoveFolder(r)
    BY <1>1, <1>3, <2>1, <2>3, MoveFolderTrees, MoveFolderGuarded
  <2>4. CASE DeleteFolder(r)
    BY <1>1, <1>3, <2>1, <2>4, DeleteFolderTrees, DeleteFolderGuarded
  <2>5. QED BY <1>10, <2>2, <2>3, <2>4
<1>11. CASE UNCHANGED vars
  BY <1>4, <1>11 DEF vars
<1>12. CASE \E l \in Links : DeleteLink(l)
  BY <1>4, <1>12 DEF DeleteLink
<1>13. ASSUME NEW r \in Requests, ReadShared(r) PROVE (Trees /\ \A s \in Requests : Guarded(s))'
  <2>1. /\ UNCHANGED folderVars /\ \A s \in Requests \ {r} : req'[s] = req[s]
        /\ req'[r].kind \notin {"create_folder", "put", "patch"}
    BY <1>13, ReadSharedTyped
  <2>2. QED BY <1>1, <1>3, <1>13, <2>1, GuardedFree, OthersStill DEF Administering
<1>14. QED
  BY <1>5, <1>6, <1>7, <1>8, <1>9, <1>10, <1>11, <1>12, <1>13
  DEF AdminNext, Next, Working, Administering

----------------------------------------------------------------------------
(* Links.                                                                  *)

LEMMA LinksPlacedStep ==
    ASSUME Typed, Serial, LinksPlaced, [AdminNext]_vars PROVE LinksPlaced'
<1>1. /\ past \in [unlocked: BOOLEAN, stale: BOOLEAN, swept: BOOLEAN, rows: SUBSET Tables]
      /\ \A l \in Links : place[l] \subseteq folders
      /\ folders \subseteq Folders /\ place \in [Links -> SUBSET Folders]
      /\ organization \in [Links -> Orgs \cup {Personal}]
      /\ status \in [Links -> {"none", "live", "deleted"}]
      /\ owner \in [Folders -> Owners]
  BY DEF Typed, TypeOK, Rows
\* Steps that leave links as they are.
<1>2. ASSUME UNCHANGED linkVars, folders \subseteq folders',
             ~past'.unlocked => ~past.unlocked /\ \A f \in folders : owner'[f] = owner[f],
             ~past'.swept => ~past.swept, ~past'.stale => ~past.stale
      PROVE  LinksPlaced'
  <2>1. UNCHANGED <<place, organization, status>> /\ Live' = Live
    BY <1>2 DEF linkVars, Live
  <2>2. ASSUME ~past'.swept, NEW l \in Live
        PROVE  \E f \in folders' :
                  /\ place'[l] = {f}
                  /\ ~past'.unlocked /\ ~past'.stale => organization'[l] = OrgOf(owner'[f])
    <3>1. PICK f \in folders :
             /\ place[l] = {f}
             /\ ~past.unlocked /\ ~past.stale => organization[l] = OrgOf(owner[f])
      BY <1>2, <2>2 DEF LinksPlaced
    <3>2. f \in folders' /\ (~past'.unlocked => owner'[f] = owner[f])
      BY <1>2
    <3>3. QED BY <1>2, <2>1, <3>1, <3>2
  <2>3. QED BY <2>1, <2>2 DEF LinksPlaced
<1>3. CASE UNCHANGED vars
  BY <1>2, <1>3 DEF vars, folderVars
<1>4. ASSUME NEW r \in Requests, Begin(r) \/ BeginAdmin(r) PROVE LinksPlaced'
  BY <1>2, <1>4, BeginMeans DEF folderVars
<1>5. ASSUME NEW r \in Requests,
             \/ Open(r) \/ Lock(r) \/ LockFails(r) \/ Refuse(r) \/ SaveFails(r) \/ Abort(r)
             \/ CountLinks(r) \/ Compare(r) \/ ComputePath(r) \/ ReadShared(r)
      PROVE  LinksPlaced'
  <2>1. UNCHANGED <<folderVars, linkVars, past>>
    BY <1>5 DEF Open, Lock, LockFails, Refuse, SaveFails, Abort, CountLinks, Compare, ComputePath,
       ReadShared
  <2>2. QED BY <1>2, <2>1 DEF folderVars
<1>6. ASSUME NEW r \in Requests, \/ ReadMove(r) \/ SaveRegistrar(r) \/ SaveUser(r)
                                 \/ Reconcile(r)
      PROVE  LinksPlaced'
  <2>1. UNCHANGED <<folderVars, linkVars>>
    BY <1>6 DEF ReadMove, SaveRegistrar, SaveUser, Reconcile
  <2>2. /\ ~past'.swept => ~past.swept
        /\ ~past'.unlocked => ~past.unlocked
        /\ ~past'.stale => ~past.stale
    BY <1>1, <1>6 DEF ReadMove, SaveRegistrar, SaveUser, Reconcile
  <2>3. QED BY <1>2, <2>1, <2>2 DEF folderVars
<1>7. ASSUME NEW r \in Requests, SavePath(r) PROVE LinksPlaced'
  <2>1. UNCHANGED <<folders, owner, linkVars>>
    BY <1>7 DEF SavePath
  <2>2. /\ ~past'.swept => ~past.swept
        /\ ~past'.unlocked => ~past.unlocked
        /\ ~past'.stale => ~past.stale
    BY <1>1, <1>7 DEF SavePath
  <2>3. QED BY <1>2, <2>1, <2>2
<1>8. ASSUME NEW r \in Requests, CreateFolder(r) PROVE LinksPlaced'
  <2>1. req[r].folder \notin folders
    BY <1>8 DEF CreateFolder, Serial, Fresh, Typed, Rows
  <2>2. /\ UNCHANGED <<linkVars, past>> /\ folders \subseteq folders'
        /\ \A f \in folders : owner'[f] = owner[f]
    BY <1>1, <1>8, <2>1 DEF CreateFolder
  <2>3. QED BY <1>2, <2>2
<1>9. ASSUME NEW r \in Requests, MoveFolder(r) PROVE LinksPlaced'
  <2> PICK h, sub, new : /\ h = req[r].folder /\ sub = req[r].subtree \cap (folders \cup {h})
                         /\ new = req[r].new_owner
    OBVIOUS
  <2>0. PICK o : owner' = Updated([owner EXCEPT ![h] = o], sub, new) /\ o = Copy(r).owner
    BY <1>9 DEF MoveFolder
  <2>00. ASSUME ~past.unlocked PROVE [owner EXCEPT ![h] = o] = owner
    <3>1. Guarded(r) /\ req[r].stage = "save" /\ req[r].kind \in {"put", "patch"}
      BY <1>9, <2>00 DEF Serial, MoveFolder
    <3>2. Copy(r) = RowOf(h) /\ h \in Folders
      BY <3>1, CopyTyped DEF Guarded, Copy
    <3>3. o = owner[h]
      BY <2>0, <3>2, RowMeans
    <3>4. QED BY <1>1, <3>2, <3>3
  <2>1. /\ UNCHANGED <<place, status, past>> /\ Live' = Live /\ folders \subseteq folders'
        /\ organization' = [l \in Links |-> IF l \in {k \in Links : place[k] \cap sub # {}} \cap Live
                                            THEN OrgOf(new) ELSE organization[l]]
    BY <1>9 DEF MoveFolder, Live
  <2>2. ASSUME ~past'.swept, NEW l \in Live
        PROVE  \E f \in folders' :
                  /\ place'[l] = {f}
                  /\ ~past'.unlocked /\ ~past'.stale => organization'[l] = OrgOf(owner'[f])
    <3>1. PICK f \in folders :
             /\ place[l] = {f}
             /\ ~past.unlocked /\ ~past.stale => organization[l] = OrgOf(owner[f])
      BY <2>1, <2>2 DEF LinksPlaced
    <3>2. l \in Links /\ f \in Folders
      BY <1>1 DEF Live
    <3>3. ~past.unlocked => owner'[f] = IF f \in sub THEN new ELSE owner[f]
      BY <2>0, <2>00, <3>2 DEF Updated
    <3>4. organization'[l] = IF f \in sub THEN OrgOf(new) ELSE organization[l]
      BY <2>1, <3>1, <3>2
    <3>5. QED BY <2>1, <3>1, <3>3, <3>4
  <2>3. QED BY <2>1, <2>2 DEF LinksPlaced
<1>10. ASSUME NEW r \in Requests, DeleteFolder(r) PROVE LinksPlaced'
  <2> PICK gone : gone = Below(req[r].folder, folders)
    OBVIOUS
  <2>1. /\ folders' = folders \ gone /\ place' = [l \in Links |-> place[l] \ gone]
        /\ UNCHANGED <<owner, organization, status>> /\ Live' = Live
    BY <1>10 DEF DeleteFolder, Live
  <2>2. /\ past'.unlocked = past.unlocked /\ past'.stale = past.stale
        /\ ~past'.swept => ~past.swept /\ LinksIn(gone) = {}
    BY <1>1, <1>10 DEF DeleteFolder
  <2>3. ASSUME ~past'.swept, NEW l \in Live
        PROVE  \E f \in folders' :
                  /\ place'[l] = {f}
                  /\ ~past'.unlocked /\ ~past'.stale => organization'[l] = OrgOf(owner'[f])
    <3>1. PICK f \in folders :
             /\ place[l] = {f}
             /\ ~past.unlocked /\ ~past.stale => organization[l] = OrgOf(owner[f])
      BY <2>2, <2>3 DEF LinksPlaced
    <3>2. f \notin gone
      BY <2>2, <2>3, <3>1 DEF LinksIn
    <3>3. place'[l] = {f}
      BY <2>1, <3>1, <3>2 DEF Live
    <3>4. QED BY <2>1, <2>2, <3>1, <3>2, <3>3
  <2>4. QED BY <2>1, <2>3 DEF LinksPlaced
<1>11. ASSUME NEW r \in Requests, SaveLink(r) PROVE LinksPlaced'
  <2> PICK k, p, new : k = req[r].link /\ p = req[r].parent /\ new = req[r].parent_owner
    OBVIOUS
  <2>1. /\ p \in folders /\ place' = [place EXCEPT ![k] = Refiled(@, p)]
        /\ organization' = [organization EXCEPT ![k] = OrgOf(new)]
        /\ status' = [status EXCEPT ![k] = IF @ = "none" THEN "live" ELSE @]
        /\ UNCHANGED <<folders, owner>>
    BY <1>11 DEF SaveLink, folderVars
  <2>2. /\ past'.unlocked = past.unlocked /\ past'.swept = past.swept
        /\ ~past'.stale => ~past.stale /\ new = owner[p]
    BY <1>1, <1>11 DEF SaveLink
  <2>3. ASSUME ~past'.swept, NEW l \in Links, status'[l] = "live"
        PROVE  \E f \in folders' :
                  /\ place'[l] = {f}
                  /\ ~past'.unlocked /\ ~past'.stale => organization'[l] = OrgOf(owner'[f])
    <3>1. CASE l = k
      <4>1. place'[l] = {p} /\ organization'[l] = OrgOf(new)
        BY <1>1, <2>1, <3>1 DEF Refiled
      <4>2. QED BY <2>1, <2>2, <4>1
    <3>2. CASE l # k
      <4>1. place'[l] = place[l] /\ organization'[l] = organization[l] /\ l \in Live
        BY <1>1, <2>1, <2>3, <3>2 DEF Live
      <4>2. QED BY <2>1, <2>2, <2>3, <4>1 DEF LinksPlaced
    <3>3. QED BY <3>1, <3>2
  <2>4. QED BY <2>3 DEF LinksPlaced, Live
<1>12. ASSUME NEW k \in Links, DeleteLink(k) PROVE LinksPlaced'
  <2>1. /\ UNCHANGED <<folders, owner, place, organization, past>>
        /\ status' = [status EXCEPT ![k] = "deleted"]
    BY <1>12 DEF DeleteLink, folderVars
  <2>2. Live' \subseteq Live
    BY <1>1, <2>1 DEF Live
  <2>3. QED BY <2>1, <2>2 DEF LinksPlaced
<1>13. ASSUME NEW r \in Requests, SaveFolder(r) \/ SaveOrganization(r) PROVE LinksPlaced'
  <2>1. UNCHANGED linkVars
    BY <1>13 DEF SaveFolder, SaveOrganization
  <2>2. /\ ~past'.swept => ~past.swept
        /\ ~past'.unlocked => ~past.unlocked
        /\ ~past'.stale => ~past.stale
    BY <1>1, <1>13 DEF SaveFolder, SaveOrganization
  <2>3. folders \subseteq folders' /\ (~past'.unlocked => UNCHANGED owner)
    BY <1>13, RowSaved, RowStill DEF folderVars
  <2>4. QED BY <1>2, <2>1, <2>2, <2>3
<1>14. QED
  BY <1>3, <1>4, <1>5, <1>6, <1>7, <1>8, <1>9, <1>10, <1>11, <1>12, <1>13
  DEF AdminNext, Next, Working, Administering

LEMMA PickedStep ==
    ASSUME Typed, Fresh, Picked, [AdminNext]_vars PROVE Picked'
<1>1. /\ status \in [Links -> {"none", "live", "deleted"}]
      /\ NoReq.kind = "none"
      /\ \A s \in Requests : req[s].kind = "move_link" => req[s].link \in Links
  BY DEF Typed, TypeOK, NoReq, Fits
\* No link is unmade.
<1>2. \A l \in Links : status[l] # "none" => status'[l] # "none"
  <2>1. ASSUME NEW r \in Requests, SaveLink(r)
        PROVE  \A l \in Links : status[l] # "none" => status'[l] # "none"
    BY <1>1, <2>1 DEF SaveLink
  <2>2. ASSUME NEW k \in Links, DeleteLink(k)
        PROVE  \A l \in Links : status[l] # "none" => status'[l] # "none"
    BY <1>1, <2>2 DEF DeleteLink
  <2>3. ASSUME NEW r \in Requests,
               \/ Open(r) \/ Lock(r) \/ LockFails(r) \/ ReadMove(r) \/ Refuse(r)
               \/ CreateFolder(r) \/ MoveFolder(r) \/ SaveFails(r) \/ DeleteFolder(r)
               \/ Abort(r) \/ SaveFolder(r) \/ Administering(r)
        PROVE  UNCHANGED status
    BY <2>3 DEF Open, Lock, LockFails, ReadMove, Refuse, CreateFolder, MoveFolder, SaveFails,
       DeleteFolder, Abort, SaveFolder, Administering, CountLinks, ReadShared, SaveOrganization,
       SaveRegistrar,
       SaveUser, Compare, Reconcile, ComputePath, SavePath, linkVars
  <2>4. ASSUME NEW r \in Requests, Begin(r) \/ BeginAdmin(r) PROVE UNCHANGED status
    BY <2>4, BeginMeans DEF linkVars
  <2>5. UNCHANGED vars => UNCHANGED status
    BY DEF vars, linkVars
  <2>6. QED BY <2>1, <2>2, <2>3, <2>4, <2>5 DEF AdminNext, Next, Working
<1> DEFINE Good(q, st) ==
             /\ q.kind = "move_link" => st[q.link] # "none"
             /\ q.kind = "reconcile" /\ q.stage = "save" /\ q.row # "registrars" =>
                  q.rows \cap Registrars = {}
<1>3. \A s \in Requests : Good(req[s], status)
  BY DEF Picked
<1>4. ASSUME NEW s \in Requests, req'[s] = req[s] PROVE Good(req'[s], status')
  BY <1>1, <1>2, <1>3, <1>4
<1>5. SUFFICES ASSUME NEW s \in Requests PROVE Good(req'[s], status')
  BY DEF Picked
<1>6. ASSUME NEW r \in Requests,
             \/ LockFails(r) \/ Refuse(r) \/ SaveFails(r) \/ Abort(r) \/ MoveFolder(r)
             \/ DeleteFolder(r) \/ SaveOrganization(r) \/ SaveRegistrar(r) \/ SaveUser(r)
             \/ Reconcile(r) \/ SavePath(r) \/ CreateFolder(r) \/ SaveLink(r) \/ SaveFolder(r)
      PROVE  Good(req'[s], status')
  <2>1. req'[r].kind = "none" /\ \A q \in Requests \ {r} : req'[q] = req[q]
    BY <1>6, EndsMean
  <2>2. QED BY <1>4, <2>1
<1>7. ASSUME NEW r \in Requests, Compare(r) PROVE Good(req'[s], status')
  <2>1. PICK q \in Request : /\ q = req[r] /\ q.kind = "reconcile" /\ q.row \in Tables
    BY <1>7 DEF Compare, Typed, TypeOK, Fits
  <2> DEFINE rows == {o \in RowsOf(req[r].row) : link_count[o] # req[r].counts[o]}
                       \cup {g \in Registrars :
                               /\ req[r].row = "registrars"
                               /\ registrar_count[g] # req[r].registrar_counts[g]}
  <2>2. req' = [req EXCEPT ![r].stage = "save", ![r].rows = rows]
    BY <1>7 DEF Compare
  <2>3. q.row # "registrars" => rows \cap Registrars = {}
    <3>1. q.row = "users" => RowsOf(req[r].row) = {Personal}
      BY <2>1 DEF RowsOf
    <3>2. q.row = "organizations" => RowsOf(req[r].row) \subseteq Orgs
      BY <2>1 DEF RowsOf
    <3>3. QED BY <2>1, <3>1, <3>2, LibraryAssumption DEF Tables
  <2> HIDE DEF rows
  <2>4. /\ req'[r] = [q EXCEPT !.stage = "save", !.rows = rows]
        /\ \A x \in Requests \ {r} : req'[x] = req[x]
    BY <2>1, <2>2 DEF Typed, TypeOK
  <2>5. req'[r].kind = "reconcile" /\ req'[r].row = q.row /\ req'[r].rows = rows
    BY <2>1, <2>4 DEF Request
  <2>6. QED BY <1>4, <2>3, <2>4, <2>5
<1>8. ASSUME NEW r \in Requests, Open(r) \/ Lock(r) \/ ReadMove(r) \/ CountLinks(r) \/ ComputePath(r)
      PROVE  Good(req'[s], status')
  <2>1. req[r].kind # "reconcile"
    <3>1. CASE Lock(r) BY <3>1, LockMeans
    <3>2. CASE ReadMove(r)
      BY <3>2, ReadMoveTyped
    <3>3. QED BY <1>8, <3>1, <3>2 DEF Open, CountLinks, ComputePath, Typed, Fits
  <2>2. /\ \A q \in Requests \ {r} : req'[q] = req[q]
        /\ \/ req'[r].kind = "none"
           \/ req'[r].kind = req[r].kind /\ req'[r].link = req[r].link
    BY <1>1, <1>8, StepsOnMean
  <2>3. QED BY <1>1, <1>2, <1>3, <1>4, <2>1, <2>2
<1>9. ASSUME NEW r \in Requests, Begin(r) \/ BeginAdmin(r) PROVE Good(req'[s], status')
  <2>1. (req'[r].kind = "reconcile" => req'[r].stage = "read")
        /\ (req'[r].kind = "move_link" => status[req'[r].link] = "live" /\ req'[r].link \in Links)
    <3>1. CASE \E f \in Folders, p \in folders : LoadCreateFolder(r, f, p)
      BY <3>1, LoadCreateFolderTyped
    <3>2. CASE \E f \in Folders, p \in folders : LoadPut(r, f, p)
      BY <3>2, LoadPutTyped
    <3>3. CASE \E f \in folders, p \in folders \cup {NoFolder} : LoadPatch(r, f, p)
      BY <3>3, LoadPatchTyped
    <3>4. CASE \E f \in folders : LoadDeleteFolder(r, f)
      BY <3>4, LoadDeleteFolderTyped
    <3>5. CASE \E l \in Links, p \in folders : LoadCreateLink(r, l, p)
      BY <3>5, LoadLinkTyped DEF LoadCreateLink
    <3>6. CASE \E l \in Links, p \in folders : LoadMoveLink(r, l, p)
      BY <3>6, LoadLinkTyped DEF LoadMoveLink
    <3>7. CASE \E o \in Orgs : LoadDeleteOrganization(r, o)
      BY <3>7, LoadDeleteOrganizationTyped
    <3>8. CASE \E o \in Orgs, g \in Registrars : LoadEditOrganization(r, o, g)
      BY <3>8, LoadEditOrganizationTyped
    <3>9. CASE \E g \in Registrars : LoadEditRegistrar(r, g)
      BY <3>9, LoadEditRegistrarTyped
    <3>10. CASE LoadEditUser(r)
      BY <3>10, LoadEditUserTyped
    <3>11. CASE \E table \in Tables : LoadReconcile(r, table)
      BY <3>11, LoadReconcileTyped
    <3>12. CASE \E f \in folders : LoadFixPath(r, f)
      BY <3>12, LoadFixPathTyped
    <3>13. QED
      BY <1>9, <3>1, <3>2, <3>3, <3>4, <3>5, <3>6, <3>7, <3>8, <3>9, <3>10, <3>11, <3>12
      DEF Begin, BeginAdmin
  <2>2. \A q \in Requests \ {r} : req'[q] = req[q]
    BY <1>9, BeginMeans
  <2>3. CASE s = r
    BY <1>2, <2>1, <2>3
  <2>4. QED BY <1>4, <2>2, <2>3
<1>10. CASE UNCHANGED req
  BY <1>4, <1>10
<1>11. ASSUME NEW r \in Requests, ReadShared(r) PROVE Good(req'[s], status')
  BY <1>4, <1>11, ReadSharedTyped
<1>12. QED
  BY <1>6, <1>7, <1>8, <1>9, <1>10, <1>11
  DEF AdminNext, Next, Working, Administering, vars, DeleteLink

----------------------------------------------------------------------------
(* Counts.                                                                 *)

LEMMA WithTyped ==
    ASSUME NEW key, NEW k
    PROVE  IsFiniteSet(With(key, k)) /\ Cardinality(With(key, k)) \in Nat
<1>1. With(key, k) \in SUBSET Links
  BY DEF With
<1>2. QED
  BY <1>1, CountTyped DEF Count

\* _transfer moves the links of M from those of old to those of new.
LEMMA TransferTallies ==
    ASSUME NEW D, NEW count \in [D -> Nat], NEW K \in SUBSET D, Personal \notin K,
           NEW key, NEW key2, NEW M \in SUBSET Links, NEW old, NEW new,
           \A l \in M : key[l] = old /\ key2[l] = new,
           \A l \in Links \ M : key2[l] = key[l],
           Tallies(count, K, key)
    PROVE  Tallies(Transfer(count, old, new, Cardinality(M)), K, key2)
<1> PICK n \in Nat : n = Cardinality(M)
  BY CountTyped DEF Count
<1>1. IsFiniteSet(M)
  BY CountTyped
<1>2. CASE old = new
  <2>1. \A l \in Links : key2[l] = key[l]
    BY <1>2
  <2>2. \A k : With(key2, k) = With(key, k)
    BY <2>1 DEF With
  <2>3. Transfer(count, old, new, Cardinality(M)) = count
    BY <1>2 DEF Transfer
  <2>4. QED BY <2>2, <2>3 DEF Tallies
<1>3. ASSUME old # new, NEW k \in K
      PROVE  Transfer(count, old, new, n)[k] = Cardinality(With(key2, k))
  <2>1. /\ k \in D /\ k # Personal /\ count[k] \in Nat
        /\ count[k] = Cardinality(With(key, k)) /\ IsFiniteSet(With(key, k))
    BY WithTyped DEF Tallies
  <2>2. Transfer(count, old, new, n)[k] =
          CASE k = old /\ count[k] >= n -> count[k] - n
            [] k = new -> count[k] + n
            [] OTHER -> count[k]
    BY <1>3, <2>1 DEF Transfer
  <2>3. CASE k = old
    <3>1. With(key2, k) = With(key, k) \ M /\ M \subseteq With(key, k)
      BY <1>3, <2>3 DEF With
    <3>2. PICK S : S = With(key, k)
      OBVIOUS
    <3>3. IsFiniteSet(S) /\ Cardinality(S) = count[k] /\ S \cap M = M /\ M \in SUBSET S
      BY <2>1, <3>1, <3>2
    <3>4. n <= count[k]
      BY <3>3, FS_Subset
    <3>5. Cardinality(S \ M) = count[k] - n
      <4>1. Cardinality(S \ M) = Cardinality(S) - Cardinality(S \cap M)
        BY <3>3, FS_Difference
      <4>2. QED BY <3>3, <4>1
    <3>6. QED BY <1>3, <2>1, <2>2, <2>3, <3>1, <3>2, <3>4, <3>5
  <2>4. CASE k = new
    <3>1. With(key2, k) = With(key, k) \cup M /\ With(key, k) \cap M = {}
      BY <1>3, <2>4 DEF With
    <3>2. PICK S : S = With(key, k)
      OBVIOUS
    <3>3. IsFiniteSet(S) /\ Cardinality(S) = count[k] /\ S \cap M = {}
      BY <2>1, <3>1, <3>2
    <3>4. Cardinality(S \cup M) = Cardinality(S) + Cardinality(M) - Cardinality(S \cap M)
      BY <1>1, <3>3, FS_Union
    <3>5. Cardinality(S \cup M) = count[k] + n
      <4>1. Cardinality(S \cap M) = 0 BY <3>3, FS_EmptySet
      <4>2. QED BY <2>1, <3>3, <3>4, <4>1
    <3>6. QED BY <1>3, <2>2, <2>4, <3>1, <3>2, <3>5
  <2>5. CASE k \notin {old, new}
    <3>1. With(key2, k) = With(key, k)
      BY <2>5 DEF With
    <3>2. QED BY <2>1, <2>2, <2>5, <3>1
  <2>6. QED BY <2>3, <2>4, <2>5
<1>4. QED
  BY <1>2, <1>3 DEF Tallies

LEMMA TransferElsewhere ==
    ASSUME NEW D, NEW count, DOMAIN count = D, NEW old, NEW new, NEW n, NEW k \in D,
           k = Personal \/ k \notin {old, new}
    PROVE  Transfer(count, old, new, n)[k] = count[k]
<1>1. CASE old = new
  BY <1>1 DEF Transfer
<1>2. CASE old # new
  BY <1>2 DEF Transfer
<1>3. QED
  BY <1>1, <1>2

\* The links of M, and no others, leave the rows of an organization and a sponsor
\* for those of others.
Rekeyed(M, old_org, new_org, old_sponsor, new_sponsor) ==
    /\ \A l \in M : /\ OrgKey[l] = OrgRow(old_org) /\ OrgKey'[l] = OrgRow(new_org)
                    /\ RegistrarKey[l] = RegistrarOf(old_org)
                    /\ RegistrarKey'[l] = RegistrarOf(new_org)
                    /\ SponsorKey[l] = old_sponsor /\ SponsorKey'[l] = new_sponsor
    /\ \A l \in Links \ M : /\ OrgKey'[l] = OrgKey[l] /\ RegistrarKey'[l] = RegistrarKey[l]
                            /\ SponsorKey'[l] = SponsorKey[l]

\* adjust_owner_link_counts counts them so.
LEMMA AdjustTallies ==
    ASSUME Typed, Tallied, Quiet, UNCHANGED orgVars, past'.rows = past.rows,
           NEW count \in [Owners -> Nat], \A o \in Owners \ {Personal} : count[o] = link_count[o],
           NEW M \in SUBSET Links, NEW old_org \in Orgs \cup {Personal},
           NEW new_org \in Orgs \cup {Personal}, NEW old_sponsor \in Sponsors \cup {Personal},
           NEW new_sponsor \in Sponsors \cup {Personal},
           Adjust(count, Cardinality(M), old_org, new_org, old_sponsor, new_sponsor),
           Rekeyed(M, old_org, new_org, old_sponsor, new_sponsor)
    PROVE  TalliedOrgs' /\ TalliedRegistrars'
<1> DEFINE K == {o \in Orgs : ~user_deleted[o]}
           n == Cardinality(M)
           between == Transfer(count, OrgRow(old_org), OrgRow(new_org), n)
<1>1. /\ K \in SUBSET Owners /\ Sponsors \in SUBSET Owners /\ Personal \notin K
      /\ Personal \notin Sponsors /\ Personal \notin Registrars /\ K \cap Sponsors = {}
      /\ OrgRow(old_org) \in Orgs \cup {Personal} /\ OrgRow(new_org) \in Orgs \cup {Personal}
      /\ Orgs \cap Sponsors = {}
  BY LibraryAssumption DEF Owners, OrgRow
<1>2. n \in Nat /\ registrar_count \in [Registrars -> Nat]
  BY CountTyped DEF Count, Typed, TypeOK
<1>3. between \in [Owners -> Nat]
  BY <1>2, TransferTyped
<1>4. /\ link_count' = Transfer(between, old_sponsor, new_sponsor, n)
      /\ registrar_count' =
           Transfer(registrar_count, RegistrarOf(old_org), RegistrarOf(new_org), n)
  BY DEF Adjust
<1> HIDE DEF between, n
<1>5. DOMAIN between = Owners /\ DOMAIN count = Owners
  BY <1>3
<1>6. ASSUME Tallies(link_count, K, OrgKey) PROVE Tallies(link_count', K, OrgKey')
  <2>1. Tallies(count, K, OrgKey)
    <3>1. \A o \in K : o \in Owners \ {Personal} BY <1>1
    <3>2. QED BY <1>6, <3>1 DEF Tallies
  <2>2. Tallies(between, K, OrgKey')
    <3> HIDE DEF K
    <3>1. \A l \in M : OrgKey[l] = OrgRow(old_org) /\ OrgKey'[l] = OrgRow(new_org)
      BY DEF Rekeyed
    <3>2. \A l \in Links \ M : OrgKey'[l] = OrgKey[l]
      BY DEF Rekeyed
    <3>3. QED BY <1>1, <2>1, <3>1, <3>2, TransferTallies DEF between, n
  <2>3. ASSUME NEW o \in K PROVE link_count'[o] = between[o]
    <3>1. o \in Owners /\ o \notin {old_sponsor, new_sponsor} BY <1>1
    <3>2. QED BY <1>4, <1>5, <3>1, TransferElsewhere
  <2>4. QED BY <2>2, <2>3 DEF Tallies
<1>7. ASSUME Tallies(link_count, Sponsors, SponsorKey)
      PROVE  Tallies(link_count', Sponsors, SponsorKey')
  <2>1. ASSUME NEW g \in Sponsors PROVE between[g] = link_count[g]
    <3>1. g \in Owners \ {Personal} /\ g \notin {OrgRow(old_org), OrgRow(new_org)} BY <1>1
    <3>2. between[g] = count[g] BY <1>5, <3>1, TransferElsewhere DEF between
    <3>3. QED BY <3>1, <3>2
  <2>2. Tallies(between, Sponsors, SponsorKey)
    BY <1>7, <2>1 DEF Tallies
  <2>3. \A l \in M : SponsorKey[l] = old_sponsor /\ SponsorKey'[l] = new_sponsor
    BY DEF Rekeyed
  <2>4. \A l \in Links \ M : SponsorKey'[l] = SponsorKey[l]
    BY DEF Rekeyed
  <2>5. QED BY <1>1, <1>3, <1>4, <2>2, <2>3, <2>4, TransferTallies DEF n
<1>8. ASSUME Tallies(registrar_count, Registrars, RegistrarKey)
      PROVE  Tallies(registrar_count', Registrars, RegistrarKey')
  <2>1. \A l \in M : RegistrarKey[l] = RegistrarOf(old_org) /\ RegistrarKey'[l] = RegistrarOf(new_org)
    BY DEF Rekeyed
  <2>2. \A l \in Links \ M : RegistrarKey'[l] = RegistrarKey[l]
    BY DEF Rekeyed
  <2>3. QED BY <1>1, <1>2, <1>4, <1>8, <2>1, <2>2, TransferTallies DEF n
<1>9. {o \in Orgs : ~user_deleted'[o]} = K
  BY DEF orgVars
<1>10. "organizations" \notin past'.rows => Tallies(link_count', {o \in Orgs : ~user_deleted'[o]}, OrgKey')
  BY <1>6, <1>9 DEF Tallied, TalliedOrgs
<1>11. "registrars" \notin past'.rows =>
          /\ Tallies(link_count', Sponsors, SponsorKey')
          /\ Tallies(registrar_count', Registrars, RegistrarKey')
  BY <1>7, <1>8 DEF Tallied, TalliedRegistrars
<1>12. QED
  <2>1. TalliedOrgs'
    BY <1>10 DEF TalliedOrgs, Tallies
  <2>2. TalliedRegistrars'
    BY <1>11 DEF TalliedRegistrars, Tallies
  <2>3. QED BY <2>1, <2>2

LEMMA AdjustUser ==
    ASSUME NEW count \in [Owners -> Nat], NEW n \in Nat, NEW old_org, NEW new_org,
           NEW old_sponsor, NEW new_sponsor,
           Adjust(count, n, old_org, new_org, old_sponsor, new_sponsor)
    PROVE  link_count'[Personal] = count[Personal]
<1> DEFINE between == Transfer(count, OrgRow(old_org), OrgRow(new_org), n)
<1>1. between \in [Owners -> Nat]
  BY TransferTyped
<1>2. Personal \in Owners /\ DOMAIN count = Owners /\ DOMAIN between = Owners
  BY <1>1 DEF Owners
<1>3. between[Personal] = count[Personal]
  <2> HIDE DEF Owners
  <2> QED BY <1>2, TransferElsewhere
<1>4. link_count' = Transfer(between, old_sponsor, new_sponsor, n)
  BY DEF Adjust
<1> HIDE DEF between
<1>5. link_count'[Personal] = between[Personal]
  BY <1>2, <1>4, TransferElsewhere
<1>6. QED BY <1>3, <1>5

\* Of one folder's owner.
LEMMA OneSponsor ==
    ASSUME NEW o, NEW S, S = {o} \cap Sponsors
    PROVE  (IF S = {} THEN Personal ELSE CHOOSE x \in S : TRUE) = SponsorOf(o)
<1>1. CASE o \in Sponsors
  <2>1. S = {o} BY <1>1
  <2>2. (CHOOSE x \in {o} : TRUE) = o OBVIOUS
  <2>3. QED BY <1>1, <2>1, <2>2 DEF SponsorOf
<1>2. CASE o \notin Sponsors
  BY <1>2 DEF SponsorOf
<1>3. QED BY <1>1, <1>2

LEMMA SponsoredByMeans ==
    ASSUME NEW l, NEW f, place[l] = {f} PROVE SponsoredBy(l) = SponsorOf(owner[f])
<1>1. PICK S : S = {owner[g] : g \in place[l]} \cap Sponsors
  OBVIOUS
<1>2. S = {owner[f]} \cap Sponsors
  BY <1>1
<1>3. QED BY <1>1, <1>2, OneSponsor DEF SponsoredBy

LEMMA SponsoredByNext ==
    ASSUME NEW l, NEW f, place'[l] = {f} PROVE SponsoredBy(l)' = SponsorOf(owner'[f])
<1>1. PICK S : S = {owner'[g] : g \in place'[l]} \cap Sponsors
  OBVIOUS
<1>2. S = {owner'[f]} \cap Sponsors
  BY <1>1
<1>3. QED BY <1>1, <1>2, OneSponsor DEF SponsoredBy

\* Nothing of the counts, and of what they count, changes.
LEMMA TalliedStill ==
    ASSUME Typed, Tallied, UNCHANGED <<linkVars, countVars, orgVars>>, past'.rows = past.rows,
           Quiet' => Quiet, \A f \in folders : owner'[f] = owner[f]
    PROVE  Tallied'
<1>1. UNCHANGED <<place, organization, status, link_count, registrar_count, user_deleted, registrar>>
  BY DEF linkVars, countVars, orgVars
<1>2. \A l \in Links : SponsoredBy(l)' = SponsoredBy(l)
  <2>1. ASSUME NEW l \in Links
        PROVE  {owner'[f] : f \in place'[l]} = {owner[f] : f \in place[l]}
    BY <1>1 DEF Typed, Rows
  <2>2. QED BY <2>1 DEF SponsoredBy
<1>3. \A o : OrgRow(o)' = OrgRow(o) /\ RegistrarOf(o)' = RegistrarOf(o)
  BY <1>1 DEF OrgRow, RegistrarOf
<1>4. OrgKey' = OrgKey /\ RegistrarKey' = RegistrarKey /\ Live' = Live
  BY <1>1, <1>3 DEF OrgKey, RegistrarKey, Live, OrgRow, RegistrarOf
<1>5. SponsorKey' = SponsorKey
  BY <1>1, <1>2 DEF SponsorKey
<1>6. TalliedUser'
  BY <1>1, <1>4 DEF Tallied, TalliedUser
<1>7. TalliedOrgs'
  BY <1>1, <1>4 DEF Tallied, TalliedOrgs, Tallies
<1>8. TalliedRegistrars'
  BY <1>1, <1>4, <1>5 DEF Tallied, TalliedRegistrars, Tallies
<1>9. QED BY <1>6, <1>7, <1>8 DEF Tallied

LEMMA TalliedDeleteFolder ==
    ASSUME Typed, Tallied, NEW r \in Requests, DeleteFolder(r) PROVE Tallied'
<1> PICK gone : gone = Below(req[r].folder, folders)
  OBVIOUS
<1>1. /\ place' = [l \in Links |-> place[l] \ gone]
      /\ UNCHANGED <<owner, organization, status, countVars, orgVars>> /\ Live' = Live
  BY DEF DeleteFolder, Live
<1>2. /\ past'.rows = past.rows
      /\ Quiet' => Quiet /\ LinksIn(gone) = {}
  BY DEF DeleteFolder, Quiet, Typed, TypeOK
<1>3. UNCHANGED <<link_count, registrar_count, user_deleted, registrar>>
  BY <1>1 DEF countVars, orgVars
<1>4. OrgKey' = OrgKey /\ RegistrarKey' = RegistrarKey
  BY <1>1, <1>3 DEF OrgKey, RegistrarKey, OrgRow, RegistrarOf
<1>5. ASSUME Quiet' PROVE SponsorKey' = SponsorKey
  <2>1. ASSUME NEW l \in Links, status[l] = "live" PROVE SponsoredBy(l)' = SponsoredBy(l)
    <3>1. place[l] \cap gone = {}
      BY <1>2, <1>5, <2>1 DEF LinksIn, Live
    <3>2. place'[l] = place[l]
      BY <1>1, <3>1
    <3>3. {owner'[f] : f \in place'[l]} = {owner[f] : f \in place[l]}
      BY <1>1, <3>2
    <3>4. QED BY <3>3 DEF SponsoredBy
  <2>2. QED BY <1>1, <2>1 DEF SponsorKey
<1>6. TalliedUser'
  BY <1>1, <1>2, <1>3 DEF Tallied, TalliedUser
<1>7. TalliedOrgs'
  BY <1>2, <1>3, <1>4 DEF Tallied, TalliedOrgs, Tallies
<1>8. TalliedRegistrars'
  BY <1>2, <1>3, <1>4, <1>5 DEF Tallied, TalliedRegistrars, Tallies
<1>9. QED BY <1>6, <1>7, <1>8 DEF Tallied

\* A move takes the links below the folder from its owner to the new one.
LEMMA TalliedMove ==
    ASSUME Typed, Serial, LinksPlaced, Tallied, NEW r \in Requests, MoveFolder(r)
    PROVE  Tallied'
<1> PICK h, sub, new, old, M :
       /\ h = req[r].folder /\ sub = req[r].subtree \cap (folders \cup {h})
       /\ new = req[r].new_owner /\ old = req[r].old_owner /\ M = LinksIn(sub)
  OBVIOUS
<1> PICK paid : paid = Copy(r).owner
  OBVIOUS
<1>1. /\ UNCHANGED <<place, status, orgVars, past>> /\ Live' = Live
      /\ owner' = Updated([owner EXCEPT ![h] = paid], sub, new)
      /\ organization' = [l \in Links |-> IF l \in {k \in Links : place[k] \cap sub # {}} \cap Live
                                          THEN OrgOf(new) ELSE organization[l]]
      /\ Adjust(link_count, Cardinality(M), OrgOf(old), OrgOf(new), SponsorOf(paid), SponsorOf(new))
  BY DEF MoveFolder, Live
<1>2. /\ link_count \in [Owners -> Nat] /\ M \in SUBSET Links /\ Cardinality(M) \in Nat
      /\ folders \subseteq Folders /\ owner \in [Folders -> Owners]
  BY LinksInTyped DEF Typed, TypeOK
<1>3. TalliedUser'
  <2>1. link_count'[Personal] = link_count[Personal]
    BY <1>1, <1>2, AdjustUser
  <2>2. QED BY <1>1, <2>1 DEF Tallied, TalliedUser
<1>4. UNCHANGED <<user_deleted, registrar>> /\ \A o : OrgRow(o)' = OrgRow(o) /\ RegistrarOf(o)' = RegistrarOf(o)
  BY <1>1 DEF orgVars, OrgRow, RegistrarOf
<1>5. ASSUME Quiet
      PROVE  /\ \A l \in M :
                  /\ OrgKey[l] = OrgRow(OrgOf(old)) /\ OrgKey'[l] = OrgRow(OrgOf(new))
                  /\ RegistrarKey[l] = RegistrarOf(OrgOf(old))
                  /\ RegistrarKey'[l] = RegistrarOf(OrgOf(new))
                  /\ SponsorKey[l] = SponsorOf(old) /\ SponsorKey'[l] = SponsorOf(new)
             /\ \A l \in Links \ M :
                  /\ OrgKey'[l] = OrgKey[l] /\ RegistrarKey'[l] = RegistrarKey[l]
                  /\ SponsorKey'[l] = SponsorKey[l]
  <2>0. Trees /\ Guarded(r) /\ h \in folders /\ sub = Under(h) /\ old = owner[h] /\ paid = old
    <3>1. Trees /\ Guarded(r) BY <1>5 DEF Quiet, Serial
    <3>2. /\ h \in folders /\ req[r].subtree \cap folders = Under(h) /\ old = owner[h]
          /\ req[r].kind = "put"
      BY <3>1, MoveFolderTrees DEF Guarded, Putting, Moving, MoveFolder
    <3>3. paid = owner[h]
      BY <3>2, RowMeans DEF Copy
    <3>4. folders \cup {h} = folders
      BY <3>2
    <3>5. QED BY <3>1, <3>2, <3>3, <3>4
  <2>1. /\ \A g \in sub : owner[g] = old
        /\ owner' = [g \in Folders |-> IF g \in sub THEN new ELSE owner[g]]
    <3>1. [owner EXCEPT ![h] = paid] = owner
      BY <1>2, <2>0
    <3>2. QED BY <1>1, <2>0, <3>1, UnderMeans DEF Updated
  <2>2. ASSUME NEW l \in Links, status[l] = "live"
        PROVE  \E f \in folders :
                  /\ place[l] = {f} /\ organization[l] = OrgOf(owner[f])
                  /\ SponsoredBy(l) = SponsorOf(owner[f])
                  /\ SponsoredBy(l)' = SponsorOf(owner'[f])
                  /\ owner'[f] = IF l \in M THEN new ELSE owner[f]
                  /\ organization'[l] = IF l \in M THEN OrgOf(new) ELSE organization[l]
                  /\ l \in M => owner[f] = old
    <3>1. l \in Live BY <2>2 DEF Live
    <3>2. PICK f \in folders : place[l] = {f} /\ organization[l] = OrgOf(owner[f])
      BY <1>5, <3>1 DEF LinksPlaced, Quiet
    <3>3. l \in M <=> f \in sub
      BY <3>1, <3>2 DEF LinksIn
    <3>4. f \in Folders BY <1>2
    <3>5. organization'[l] = IF l \in M THEN OrgOf(new) ELSE organization[l]
      BY <1>1, <3>1, <3>2, <3>3
    <3>6. place'[l] = {f}
      BY <1>1, <3>2
    <3>7. owner'[f] = IF l \in M THEN new ELSE owner[f]
      BY <2>1, <3>3, <3>4
    <3>8. l \in M => owner[f] = old
      BY <2>1, <3>3
    <3>9. QED
      BY <3>2, <3>5, <3>6, <3>7, <3>8, SponsoredByMeans, SponsoredByNext
  <2>3. \A l \in M : l \in Links /\ status[l] = "live"
    BY DEF LinksIn, Live
  <2>4. ASSUME NEW l \in Links
        PROVE  /\ OrgKey'[l] = IF status[l] = "live" THEN OrgRow(organization'[l]) ELSE Personal
               /\ RegistrarKey'[l] = IF status[l] = "live" THEN RegistrarOf(organization'[l]) ELSE Personal
               /\ SponsorKey'[l] = IF status[l] = "live" THEN SponsoredBy(l)' ELSE Personal
    BY <1>1, <1>4 DEF OrgKey, RegistrarKey, SponsorKey, OrgRow, RegistrarOf
  <2>5. ASSUME NEW l \in Links
        PROVE  /\ OrgKey[l] = IF status[l] = "live" THEN OrgRow(organization[l]) ELSE Personal
               /\ RegistrarKey[l] = IF status[l] = "live" THEN RegistrarOf(organization[l]) ELSE Personal
               /\ SponsorKey[l] = IF status[l] = "live" THEN SponsoredBy(l) ELSE Personal
    BY DEF OrgKey, RegistrarKey, SponsorKey
  <2>6. ASSUME NEW l \in M
        PROVE  /\ OrgKey[l] = OrgRow(OrgOf(old)) /\ OrgKey'[l] = OrgRow(OrgOf(new))
               /\ RegistrarKey[l] = RegistrarOf(OrgOf(old))
               /\ RegistrarKey'[l] = RegistrarOf(OrgOf(new))
               /\ SponsorKey[l] = SponsorOf(old) /\ SponsorKey'[l] = SponsorOf(new)
    <3>1. l \in Links /\ status[l] = "live" BY <2>3
    <3>2. PICK f \in folders :
             /\ organization[l] = OrgOf(owner[f]) /\ SponsoredBy(l) = SponsorOf(owner[f])
             /\ SponsoredBy(l)' = SponsorOf(owner'[f]) /\ owner'[f] = new
             /\ organization'[l] = OrgOf(new) /\ owner[f] = old
      BY <2>2, <3>1
    <3>3. OrgKey[l] = OrgRow(OrgOf(old)) /\ RegistrarKey[l] = RegistrarOf(OrgOf(old))
      BY <2>5, <3>1, <3>2
    <3>4. OrgKey'[l] = OrgRow(OrgOf(new)) /\ RegistrarKey'[l] = RegistrarOf(OrgOf(new))
      BY <2>4, <3>1, <3>2
    <3>5. SponsorKey[l] = SponsorOf(old) /\ SponsorKey'[l] = SponsorOf(new)
      BY <2>4, <2>5, <3>1, <3>2
    <3>6. QED BY <3>3, <3>4, <3>5
  <2>7. ASSUME NEW l \in Links \ M
        PROVE  /\ OrgKey'[l] = OrgKey[l] /\ RegistrarKey'[l] = RegistrarKey[l]
               /\ SponsorKey'[l] = SponsorKey[l]
    <3>1. CASE status[l] = "live"
      <4>1. PICK f \in folders :
               /\ SponsoredBy(l) = SponsorOf(owner[f]) /\ SponsoredBy(l)' = SponsorOf(owner'[f])
               /\ owner'[f] = owner[f] /\ organization'[l] = organization[l]
        BY <2>2, <3>1
      <4>2. OrgKey'[l] = OrgKey[l] /\ RegistrarKey'[l] = RegistrarKey[l]
        BY <2>4, <2>5, <4>1
      <4>3. SponsorKey'[l] = SponsorKey[l]
        BY <2>4, <2>5, <4>1
      <4>4. QED BY <4>2, <4>3
    <3>2. CASE status[l] # "live" BY <2>4, <2>5, <3>2
    <3>3. QED BY <3>1, <3>2
  <2>8. QED BY <2>6, <2>7
<1>6. ASSUME Quiet PROVE TalliedOrgs' /\ TalliedRegistrars'
  <2>1. PICK o1 \in Orgs \cup {Personal}, o2 \in Orgs \cup {Personal},
             s1 \in Sponsors \cup {Personal}, s2 \in Sponsors \cup {Personal} :
           o1 = OrgOf(old) /\ o2 = OrgOf(new) /\ s1 = SponsorOf(old) /\ s2 = SponsorOf(new)
    BY DEF OrgOf, SponsorOf
  <2>2. UNCHANGED orgVars /\ past'.rows = past.rows
    BY <1>1
  <2>3. PICK count \in [Owners -> Nat] : count = link_count
    BY <1>2
  <2>4. Adjust(count, Cardinality(M), o1, o2, s1, s2)
    <3>1. paid = old
      <4>1. Trees /\ Guarded(r) BY <1>6 DEF Quiet, Serial
      <4>2. h \in folders /\ old = owner[h] /\ req[r].kind = "put"
        BY <4>1, MoveFolderTrees DEF Guarded, Putting, Moving, MoveFolder
      <4>3. QED BY <4>2, RowMeans DEF Copy
    <3>2. QED BY <1>1, <2>1, <2>3, <3>1
  <2>5. Rekeyed(M, o1, o2, s1, s2)
    BY <1>5, <1>6, <2>1 DEF Rekeyed
  <2>7. \A o \in Owners \ {Personal} : count[o] = link_count[o]
    BY <2>3
  <2>8. M \in SUBSET Links
    BY <1>2
  <2>9. QED
    BY <1>6, <2>2, <2>4, <2>5, <2>7, <2>8, AdjustTallies
<1>7. Quiet' => Quiet
  BY <1>1 DEF Quiet
<1>8. QED
  BY <1>3, <1>6, <1>7 DEF Tallied, TalliedOrgs, TalliedRegistrars

LEMMA TalliedDeleteLink ==
    ASSUME Typed, Tallied, NEW k \in Links, DeleteLink(k) PROVE Tallied'
<1>1. /\ UNCHANGED <<place, organization, owner, orgVars, past>> /\ status[k] = "live"
      /\ status' = [status EXCEPT ![k] = "deleted"]
      /\ Adjust(OneLessOfUser, 1, organization[k], Personal, SponsoredBy(k), Personal)
  BY DEF DeleteLink, folderVars
<1>2. /\ link_count \in [Owners -> Nat] /\ status \in [Links -> {"none", "live", "deleted"}]
      /\ OneLessOfUser \in [Owners -> Nat]
      /\ \A o \in Owners \ {Personal} : OneLessOfUser[o] = link_count[o]
      /\ organization[k] \in Orgs \cup {Personal}
  <2>1. /\ link_count \in [Owners -> Nat] /\ status \in [Links -> {"none", "live", "deleted"}]
        /\ organization[k] \in Orgs \cup {Personal} /\ TypeOK
    BY DEF Typed, TypeOK
  <2>2. OneLessOfUser \in [Owners -> Nat]
    BY <2>1, UserCountTyped
  <2>3. \A o \in Owners \ {Personal} : OneLessOfUser[o] = link_count[o]
    BY <2>1 DEF OneLessOfUser
  <2>4. QED BY <2>1, <2>2, <2>3
<1>3. SponsoredBy(k) \in Sponsors \cup {Personal}
  BY DEF SponsoredBy
<1>4. \A l \in Links : status'[l] = IF l = k THEN "deleted" ELSE status[l]
  BY <1>1, <1>2
<1>5. TalliedUser'
  <2>1. link_count'[Personal] = OneLessOfUser[Personal]
    BY <1>1, <1>2, AdjustUser
  <2>2. Live' = Live \ {k} /\ k \in Live /\ Live \in SUBSET Links
    BY <1>1, <1>4 DEF Live
  <2>3. IsFiniteSet(Live) /\ Cardinality(Live) \in Nat
    BY <2>2, CountTyped DEF Count
  <2>4. Cardinality(Live') = Cardinality(Live) - 1 /\ Cardinality(Live') \in Nat
    <3>1. Cardinality(Live') = Cardinality(Live) - 1 BY <2>2, <2>3, FS_RemoveElement
    <3>2. Live' \in SUBSET Links BY <2>2
    <3>3. QED BY <3>1, <3>2, CountTyped DEF Count
  <2>5. Personal \in Owners BY DEF Owners
  <2>6. OneLessOfUser[Personal] = IF link_count[Personal] >= 1 THEN link_count[Personal] - 1
                                  ELSE link_count[Personal]
    BY <1>2, <2>5 DEF OneLessOfUser
  <2>7. QED BY <1>1, <2>1, <2>3, <2>4, <2>6 DEF Tallied, TalliedUser
<1>6. UNCHANGED <<user_deleted, registrar>> /\ \A o : OrgRow(o)' = OrgRow(o) /\ RegistrarOf(o)' = RegistrarOf(o)
  BY <1>1 DEF orgVars, OrgRow, RegistrarOf
<1>7. OrgRow(Personal) = Personal /\ RegistrarOf(Personal) = Personal
  BY LibraryAssumption DEF OrgRow, RegistrarOf
<1>8. /\ OrgKey[k] = OrgRow(organization[k]) /\ OrgKey'[k] = Personal
      /\ RegistrarKey[k] = RegistrarOf(organization[k]) /\ RegistrarKey'[k] = Personal
      /\ SponsorKey[k] = SponsoredBy(k) /\ SponsorKey'[k] = Personal
  BY <1>1, <1>4 DEF OrgKey, RegistrarKey, SponsorKey
<1>9. \A l \in Links : SponsoredBy(l)' = SponsoredBy(l)
  BY <1>1 DEF SponsoredBy
<1>10. ASSUME NEW l \in Links, l # k
       PROVE  /\ OrgKey'[l] = OrgKey[l] /\ RegistrarKey'[l] = RegistrarKey[l]
              /\ SponsorKey'[l] = SponsorKey[l]
  <2>1. OrgKey'[l] = OrgKey[l] /\ RegistrarKey'[l] = RegistrarKey[l]
    BY <1>1, <1>4, <1>6, <1>10 DEF OrgKey, RegistrarKey, OrgRow, RegistrarOf
  <2>2. SponsorKey'[l] = SponsorKey[l]
    BY <1>4, <1>9, <1>10 DEF SponsorKey
  <2>3. QED BY <2>1, <2>2
<1>11. Quiet' => Quiet
  BY <1>1 DEF Quiet
<1>12. ASSUME Quiet PROVE TalliedOrgs' /\ TalliedRegistrars'
  <2> PICK M : M = {k}
    OBVIOUS
  <2>1. Cardinality(M) = 1 /\ M \in SUBSET Links
    BY FS_Singleton
  <2>2. Adjust(OneLessOfUser, Cardinality(M), organization[k], Personal, SponsoredBy(k), Personal)
    BY <1>1, <2>1
  <2>3. UNCHANGED orgVars /\ past'.rows = past.rows
    BY <1>1
  <2>6. PICK count \in [Owners -> Nat] : count = OneLessOfUser
    BY <1>2
  <2>7. PICK o1 \in Orgs \cup {Personal}, s1 \in Sponsors \cup {Personal}, none \in {Personal} :
           o1 = organization[k] /\ s1 = SponsoredBy(k) /\ none = Personal
    BY <1>2, <1>3
  <2>8. none \in Orgs \cup {Personal} /\ none \in Sponsors \cup {Personal}
    BY <2>7
  <2>9. Adjust(count, Cardinality(M), o1, none, s1, none)
    BY <2>2, <2>6, <2>7
  <2>10. \A o \in Owners \ {Personal} : count[o] = link_count[o]
    BY <1>2, <2>6
  <2>11. Rekeyed(M, o1, none, s1, none)
    BY <1>7, <1>8, <1>10, <2>7 DEF Rekeyed
  <2>12. QED
    BY <1>12, <2>1, <2>3, <2>8, <2>9, <2>10, <2>11, AdjustTallies
<1>13. QED
  BY <1>5, <1>11, <1>12 DEF Tallied, TalliedOrgs, TalliedRegistrars

LEMMA TalliedSaveLink ==
    ASSUME Typed, Fresh, Picked, Tallied, NEW r \in Requests, SaveLink(r) PROVE Tallied'
<1> PICK k, p, new, from, creating :
       /\ k = req[r].link /\ p = req[r].parent /\ new = req[r].parent_owner
       /\ from = req[r].link_org /\ creating = (req[r].kind = "create_link")
  OBVIOUS
<1> PICK count : count = IF creating THEN OneMoreOfUser ELSE link_count
  OBVIOUS
<1>1. /\ k \in Links /\ from \in Orgs \cup {Personal} /\ req[r].kind \in {"create_link", "move_link"}
      /\ p \in folders
  BY DEF SaveLink, Typed, Fits
<1>2. /\ link_count \in [Owners -> Nat] /\ status \in [Links -> {"none", "live", "deleted"}]
      /\ place \in [Links -> SUBSET Folders] /\ organization \in [Links -> Orgs \cup {Personal}]
      /\ TypeOK
  BY DEF Typed, TypeOK
<1>3. /\ place' = [place EXCEPT ![k] = Refiled(@, p)]
      /\ organization' = [organization EXCEPT ![k] = OrgOf(new)]
      /\ status' = [status EXCEPT ![k] = IF @ = "none" THEN "live" ELSE @]
      /\ Adjust(count, 1, from, OrgOf(new), SponsoredBy(k), SponsorOf(new))
      /\ UNCHANGED <<owner, orgVars>>
  BY DEF SaveLink, folderVars
<1>4. /\ place'[k] = {p} /\ organization'[k] = OrgOf(new)
      /\ status'[k] = IF status[k] = "none" THEN "live" ELSE status[k]
      /\ \A l \in Links : l # k => /\ place'[l] = place[l] /\ organization'[l] = organization[l]
                                   /\ status'[l] = status[l]
  BY <1>1, <1>2, <1>3 DEF Refiled
<1>5. /\ past'.rows = past.rows
      /\ Quiet' => /\ Quiet /\ from = organization[k] /\ new = owner[p]
                   /\ ~creating => status[k] = "live"
  BY <1>1 DEF SaveLink, Quiet, Typed, TypeOK
<1>6. /\ creating => status[k] = "none" /\ from = Personal
      /\ ~creating => status[k] # "none"
  BY <1>1 DEF Fresh, Picked
<1>7. /\ count \in [Owners -> Nat] /\ \A o \in Owners \ {Personal} : count[o] = link_count[o]
      /\ count[Personal] = IF creating THEN link_count[Personal] + 1 ELSE link_count[Personal]
  <2>1. OneMoreOfUser \in [Owners -> Nat]
    BY <1>2, UserCountTyped
  <2>2. /\ \A o \in Owners \ {Personal} : OneMoreOfUser[o] = link_count[o]
        /\ OneMoreOfUser[Personal] = link_count[Personal] + 1
    BY <1>2 DEF OneMoreOfUser, Owners
  <2>3. QED BY <1>2, <2>1, <2>2
<1>8. TalliedUser'
  <2>1. link_count'[Personal] = count[Personal]
    BY <1>3, <1>7, AdjustUser
  <2>2. Live \in SUBSET Links /\ IsFiniteSet(Live)
    <3>1. Live \in SUBSET Links BY DEF Live
    <3>2. QED BY <3>1, CountTyped
  <2>3. creating => Live' = Live \cup {k} /\ k \notin Live
    BY <1>1, <1>4, <1>6 DEF Live
  <2>4. ~creating => Live' = Live
    BY <1>1, <1>4, <1>6 DEF Live
  <2>5. creating => Cardinality(Live') = Cardinality(Live) + 1
    BY <2>2, <2>3, FS_AddElement
  <2>6. QED BY <1>5, <1>7, <2>1, <2>4, <2>5 DEF Tallied, TalliedUser
<1>9. UNCHANGED <<user_deleted, registrar>> /\ \A o : OrgRow(o)' = OrgRow(o) /\ RegistrarOf(o)' = RegistrarOf(o)
  BY <1>3 DEF orgVars, OrgRow, RegistrarOf
<1>10. ASSUME NEW l \in Links, l # k
       PROVE  /\ OrgKey'[l] = OrgKey[l] /\ RegistrarKey'[l] = RegistrarKey[l]
              /\ SponsorKey'[l] = SponsorKey[l]
  <2>1. /\ place'[l] = place[l] /\ organization'[l] = organization[l] /\ status'[l] = status[l]
    BY <1>4, <1>10
  <2>2. OrgKey'[l] = OrgKey[l] /\ RegistrarKey'[l] = RegistrarKey[l]
    BY <1>9, <2>1 DEF OrgKey, RegistrarKey, OrgRow, RegistrarOf
  <2>3. SponsoredBy(l)' = SponsoredBy(l)
    <3>1. {owner'[f] : f \in place'[l]} = {owner[f] : f \in place[l]}
      BY <1>3, <2>1
    <3>2. QED BY <3>1 DEF SponsoredBy
  <2>4. SponsorKey'[l] = SponsorKey[l]
    BY <1>10, <2>1, <2>3 DEF SponsorKey
  <2>5. QED BY <2>2, <2>4
<1>11. ASSUME Quiet'
       PROVE  /\ OrgKey[k] = OrgRow(from) /\ RegistrarKey[k] = RegistrarOf(from)
              /\ SponsorKey[k] = SponsoredBy(k)
  <2>1. CASE creating
    <3>1. status[k] = "none" /\ from = Personal /\ place[k] = {}
      BY <1>1, <1>6, <2>1 DEF Typed, Rows
    <3>2. OrgRow(Personal) = Personal /\ RegistrarOf(Personal) = Personal
      BY LibraryAssumption DEF OrgRow, RegistrarOf
    <3>3. SponsoredBy(k) = Personal
      <4>1. {owner[f] : f \in place[k]} \cap Sponsors = {} BY <3>1
      <4>2. QED BY <4>1 DEF SponsoredBy
    <3>4. QED BY <1>1, <3>1, <3>2, <3>3 DEF OrgKey, RegistrarKey, SponsorKey
  <2>2. CASE ~creating
    BY <1>1, <1>5, <1>11, <2>2 DEF OrgKey, RegistrarKey, SponsorKey
  <2>3. QED BY <2>1, <2>2
<1>12. ASSUME Quiet'
       PROVE  /\ OrgKey'[k] = OrgRow(OrgOf(new)) /\ RegistrarKey'[k] = RegistrarOf(OrgOf(new))
              /\ SponsorKey'[k] = SponsorOf(new)
  <2>1. status'[k] = "live"
    BY <1>4, <1>5, <1>6, <1>12
  <2>2. OrgKey'[k] = OrgRow(OrgOf(new)) /\ RegistrarKey'[k] = RegistrarOf(OrgOf(new))
    BY <1>1, <1>4, <1>9, <2>1 DEF OrgKey, RegistrarKey, OrgRow, RegistrarOf
  <2>3. SponsoredBy(k)' = SponsorOf(new)
    <3>1. place'[k] = {p} BY <1>4
    <3>2. SponsoredBy(k)' = SponsorOf(owner'[p]) BY <3>1, SponsoredByNext
    <3>3. owner'[p] = new BY <1>3, <1>5, <1>12
    <3>4. QED BY <3>2, <3>3
  <2>4. QED BY <1>1, <2>1, <2>2, <2>3 DEF SponsorKey
<1>13. ASSUME Quiet' PROVE TalliedOrgs' /\ TalliedRegistrars'
  <2> PICK M, o2, s1, s2 :
         M = {k} /\ o2 = OrgOf(new) /\ s1 = SponsoredBy(k) /\ s2 = SponsorOf(new)
    OBVIOUS
  <2>1. /\ M = {k} /\ o2 = OrgOf(new) /\ s1 = SponsoredBy(k) /\ s2 = SponsorOf(new)
        /\ o2 \in Orgs \cup {Personal} /\ s1 \in Sponsors \cup {Personal}
        /\ s2 \in Sponsors \cup {Personal}
    <3>1. OrgOf(new) \in Orgs \cup {Personal} BY DEF OrgOf
    <3>2. SponsorOf(new) \in Sponsors \cup {Personal} BY DEF SponsorOf
    <3>3. SponsoredBy(k) \in Sponsors \cup {Personal} BY DEF SponsoredBy
    <3>4. QED BY <3>1, <3>2, <3>3
  <2>2. Cardinality(M) = 1 /\ M \in SUBSET Links
    BY <1>1, <2>1, FS_Singleton
  <2>3. Adjust(count, Cardinality(M), from, o2, s1, s2)
    BY <1>3, <2>1, <2>2
  <2>4. Rekeyed(M, from, o2, s1, s2)
    BY <1>10, <1>11, <1>12, <1>13, <2>1 DEF Rekeyed
  <2>5. Quiet /\ UNCHANGED orgVars /\ past'.rows = past.rows
    BY <1>3, <1>5, <1>13
  <2>6. /\ from \in Orgs \cup {Personal} /\ count \in [Owners -> Nat]
        /\ \A o \in Owners \ {Personal} : count[o] = link_count[o]
    BY <1>1, <1>7
  <2>7. /\ M \in SUBSET Links /\ o2 \in Orgs \cup {Personal}
        /\ s1 \in Sponsors \cup {Personal} /\ s2 \in Sponsors \cup {Personal}
    BY <2>1, <2>2
  <2>8. QED BY <2>3, <2>4, <2>5, <2>6, <2>7, AdjustTallies
<1>14. QED
  BY <1>8, <1>13 DEF Tallied, TalliedOrgs, TalliedRegistrars

\* A form writes the counts it has loaded, which are those of the row if no other
\* request has overtaken it.
LEMMA TalliedSaveOrganization ==
    ASSUME Typed, Tallied, NEW r \in Requests, SaveOrganization(r) PROVE Tallied'
<1> PICK k, from, to, deleting, n :
       /\ k = req[r].row /\ from = req[r].from /\ to = req[r].to
       /\ deleting = (req[r].kind = "delete_organization") /\ n = req[r].counts[k]
  OBVIOUS
<1>1. /\ k \in Orgs /\ k \in Owners /\ from \in Registrars /\ to \in Registrars /\ n \in Nat
      /\ deleting \in BOOLEAN
  BY SMTT(30) DEF SaveOrganization, Typed, TypeOK, Fits, Request, Owners
<1>2. /\ link_count \in [Owners -> Nat] /\ registrar_count \in [Registrars -> Nat]
      /\ registrar \in [Orgs -> Registrars] /\ user_deleted \in [Orgs -> BOOLEAN]
      /\ organization \in [Links -> Orgs \cup {Personal}]
      /\ past \in [unlocked: BOOLEAN, stale: BOOLEAN, swept: BOOLEAN, rows: SUBSET Tables]
  BY DEF Typed, TypeOK
<1>3. /\ registrar' = [registrar EXCEPT ![k] = to]
      /\ user_deleted' = [user_deleted EXCEPT ![k] = deleting]
      /\ link_count' = Written(r, {k})
      /\ registrar_count' = Transfer(registrar_count, from, to, n)
      /\ UNCHANGED <<place, organization, status>> /\ Live' = Live
  BY DEF SaveOrganization, RegistrarChanged, linkVars, Live
<1>4. \A o \in Owners : link_count'[o] = IF o = k THEN n ELSE link_count[o]
  BY <1>3 DEF Written
<1>5. /\ Quiet' => Quiet
      /\ past.rows \subseteq past'.rows
      /\ (n # link_count[k] \/ from # registrar[k] \/ user_deleted[k]) =>
           {"organizations", "registrars"} \subseteq past'.rows
      /\ ((deleting /\ LinksOf(k) # {}) \/ (from # to /\ "organizations" \in past.rows)) =>
           "registrars" \in past'.rows
  BY <1>2 DEF SaveOrganization, Quiet
<1>6. TalliedUser'
  <2>1. Personal \in Owners /\ Personal # k
    BY <1>1, LibraryAssumption DEF Owners
  <2>2. QED BY <1>3, <1>4, <1>5, <2>1 DEF Tallied, TalliedUser
<1>7. \A o \in Orgs : /\ registrar'[o] = IF o = k THEN to ELSE registrar[o]
                      /\ user_deleted'[o] = IF o = k THEN deleting ELSE user_deleted[o]
  BY <1>1, <1>2, <1>3
<1>8. Quiet' => SponsorKey' = SponsorKey
  <2>1. Quiet' => UNCHANGED owner
    BY RowStill DEF Quiet, folderVars
  <2>2. QED BY <1>3, <2>1 DEF SponsorKey, SponsoredBy
<1>9. ASSUME Quiet', "organizations" \notin past'.rows
      PROVE  Tallies(link_count', {o \in Orgs : ~user_deleted'[o]}, OrgKey')
  <2>1. n = link_count[k] /\ ~user_deleted[k] /\ Quiet /\ "organizations" \notin past.rows
    BY <1>5, <1>9
  <2>2. SUFFICES ASSUME NEW o \in Orgs, ~user_deleted'[o]
                 PROVE  link_count'[o] = Cardinality(With(OrgKey', o))
    BY DEF Tallies
  <2>3. ~user_deleted[o] /\ o \in Owners /\ o # Personal
    BY <1>7, <2>1, <2>2, LibraryAssumption DEF Owners
  <2>4. link_count'[o] = link_count[o]
    BY <1>4, <2>1, <2>3
  <2>5. link_count[o] = Cardinality(With(OrgKey, o))
    BY <2>1, <2>3 DEF Tallied, TalliedOrgs, Tallies
  <2>6. ASSUME NEW l \in Links PROVE OrgKey'[l] = o <=> OrgKey[l] = o
    <3>1. CASE status[l] = "live" /\ organization[l] = o
      BY <1>3, <2>2, <2>3, <3>1 DEF OrgKey, OrgRow
    <3>2. CASE ~(status[l] = "live" /\ organization[l] = o)
      BY <1>3, <2>3, <3>2 DEF OrgKey, OrgRow
    <3>3. QED BY <3>1, <3>2
  <2>7. With(OrgKey', o) = With(OrgKey, o)
    BY <2>6 DEF With
  <2>8. QED BY <2>4, <2>5, <2>7
<1>10. ASSUME Quiet', "registrars" \notin past'.rows
       PROVE  Tallies(registrar_count', Registrars, RegistrarKey')
  <2>1. /\ n = link_count[k] /\ from = registrar[k] /\ ~user_deleted[k] /\ Quiet
        /\ "registrars" \notin past.rows
        /\ deleting => LinksOf(k) = {}
        /\ from # to => "organizations" \notin past.rows
    <3>1. n = link_count[k] /\ from = registrar[k] /\ ~user_deleted[k]
      <4>1. ~({"organizations", "registrars"} \subseteq past'.rows) BY <1>10
      <4>2. QED BY <1>5, <4>1
    <3>2. Quiet /\ "registrars" \notin past.rows
      BY <1>5, <1>10
    <3>3. ~((deleting /\ LinksOf(k) # {}) \/ (from # to /\ "organizations" \in past.rows))
      BY <1>5, <1>10
    <3>4. ASSUME deleting PROVE LinksOf(k) = {}
      BY <3>3, <3>4
    <3>5. from # to => "organizations" \notin past.rows
      BY <3>3
    <3>6. QED BY <3>1, <3>2, <3>4, <3>5
  <2>2. Tallies(registrar_count, Registrars, RegistrarKey)
    BY <2>1 DEF Tallied, TalliedRegistrars
  <2>3. ASSUME NEW l \in Links
        PROVE  RegistrarKey[l] = IF l \in LinksOf(k) THEN from
                                 ELSE RegistrarKey'[l]
    <3>1. k # Personal BY <1>1, LibraryAssumption
    <3>2. CASE l \in LinksOf(k)
      BY <1>1, <2>1, <3>1, <3>2 DEF LinksOf, Live, RegistrarKey, RegistrarOf, OrgRow
    <3>3. CASE l \notin LinksOf(k) /\ status[l] = "live"
      <4>1. organization[l] # k BY <3>3 DEF LinksOf, Live
      <4>2. organization[l] \in Orgs \cup {Personal} BY <1>2
      <4>3. OrgRow(organization[l])' = OrgRow(organization[l])
        BY <1>3, <1>7, <4>1, <4>2 DEF OrgRow
      <4>4. RegistrarOf(organization[l])' = RegistrarOf(organization[l])
        BY <1>3, <1>7, <4>1, <4>2 DEF OrgRow, RegistrarOf
      <4>5. QED BY <1>3, <3>3, <4>4 DEF RegistrarKey
    <3>4. CASE status[l] # "live"
      BY <1>3, <3>4 DEF RegistrarKey, LinksOf, Live
    <3>5. QED BY <3>2, <3>3, <3>4
  <2>4. ASSUME NEW l \in LinksOf(k) PROVE RegistrarKey'[l] = to
    <3>1. /\ l \in Links /\ status'[l] = "live" /\ organization'[l] = k /\ ~deleting
          /\ k # Personal
      BY <1>1, <1>3, <2>1, LibraryAssumption DEF LinksOf, Live
    <3>2. ~user_deleted'[k] /\ registrar'[k] = to
      BY <1>1, <1>7, <3>1
    <3>3. QED BY <1>1, <3>1, <3>2 DEF RegistrarKey, RegistrarOf, OrgRow
  <2>5. LinksOf(k) \in SUBSET Links
    BY DEF LinksOf, Live
  <2>6. CASE from = to
    <3>1. registrar_count' = registrar_count
      BY <1>3, <2>6 DEF Transfer
    <3>2. \A l \in Links : RegistrarKey'[l] = RegistrarKey[l]
      BY <2>3, <2>4, <2>6
    <3>3. \A g : With(RegistrarKey', g) = With(RegistrarKey, g)
      BY <3>2 DEF With
    <3>4. QED BY <2>2, <3>1, <3>3 DEF Tallies
  <2>7. CASE from # to
    <3>1. link_count[k] = Cardinality(With(OrgKey, k))
      BY <1>1, <2>1, <2>7 DEF Tallied, TalliedOrgs, Tallies
    <3>2. With(OrgKey, k) = LinksOf(k)
      BY <1>1, <2>1, LibraryAssumption DEF With, OrgKey, OrgRow, LinksOf, Live
    <3>3. registrar_count' = Transfer(registrar_count, from, to, Cardinality(LinksOf(k)))
      BY <1>3, <2>1, <3>1, <3>2
    <3>4. Personal \notin Registrars /\ Registrars \in SUBSET Registrars
      BY LibraryAssumption
    <3>5. \A l \in LinksOf(k) : RegistrarKey[l] = from /\ RegistrarKey'[l] = to
      BY <2>3, <2>4, <2>5
    <3>6. \A l \in Links \ LinksOf(k) : RegistrarKey'[l] = RegistrarKey[l]
      BY <2>3
    <3>7. QED
      BY <1>2, <2>2, <2>5, <3>3, <3>4, <3>5, <3>6, TransferTallies
  <2>8. QED BY <2>6, <2>7
<1>11. ASSUME Quiet', "registrars" \notin past'.rows
       PROVE  Tallies(link_count', Sponsors, SponsorKey')
  <2>1. Tallies(link_count, Sponsors, SponsorKey)
    BY <1>5, <1>11 DEF Tallied, TalliedRegistrars
  <2>2. \A g \in Sponsors : link_count'[g] = link_count[g]
    BY <1>1, <1>4, LibraryAssumption DEF Owners
  <2>3. QED BY <1>8, <1>11, <2>1, <2>2 DEF Tallies
<1>12. TalliedOrgs' /\ TalliedRegistrars'
  BY <1>9, <1>10, <1>11 DEF TalliedOrgs, TalliedRegistrars, Tallies
<1>13. QED BY <1>6, <1>12 DEF Tallied

LEMMA SameKeys ==
    ASSUME UNCHANGED <<owner, linkVars, orgVars>>
    PROVE  /\ OrgKey' = OrgKey /\ RegistrarKey' = RegistrarKey /\ SponsorKey' = SponsorKey
           /\ Live' = Live
<1>1. UNCHANGED <<owner, place, organization, status, user_deleted, registrar>>
  BY DEF linkVars, orgVars
<1>2. \A l : SponsoredBy(l)' = SponsoredBy(l)
  BY <1>1 DEF SponsoredBy
<1>3. OrgKey' = OrgKey /\ RegistrarKey' = RegistrarKey /\ Live' = Live
  BY <1>1 DEF OrgKey, RegistrarKey, Live, OrgRow, RegistrarOf
<1>4. SponsorKey' = SponsorKey
  BY <1>1, <1>2 DEF SponsorKey
<1>5. QED BY <1>3, <1>4

LEMMA TalliedSaveRegistrar ==
    ASSUME Typed, Tallied, NEW r \in Requests, SaveRegistrar(r) PROVE Tallied'
<1> PICK gs : gs = SponsorRow(req[r].row)
  OBVIOUS
<1>1. /\ UNCHANGED <<owner, linkVars, orgVars, user_deleted>>
      /\ link_count' = Written(r, gs)
      /\ Quiet' => Quiet
      /\ past.rows \subseteq past'.rows
      /\ "users" \notin past'.rows => "users" \notin past.rows
      /\ "organizations" \notin past'.rows => "organizations" \notin past.rows
      /\ "registrars" \notin past'.rows =>
           link_count' = link_count /\ registrar_count' = registrar_count
  BY DEF SaveRegistrar, folderVars, orgVars, Quiet, Typed, TypeOK
<1>2. /\ OrgKey' = OrgKey /\ RegistrarKey' = RegistrarKey /\ SponsorKey' = SponsorKey
      /\ Live' = Live
  BY <1>1, SameKeys
<1>3. \A o \in Orgs \cup {Personal} : link_count'[o] = link_count[o]
  BY <1>1, LibraryAssumption DEF Written, SponsorRow, Owners
<1>4. TalliedUser'
  BY <1>1, <1>2, <1>3 DEF Tallied, TalliedUser
<1>5. TalliedOrgs'
  BY <1>1, <1>2, <1>3 DEF Tallied, TalliedOrgs, Tallies
<1>6. TalliedRegistrars'
  BY <1>1, <1>2 DEF Tallied, TalliedRegistrars, Tallies
<1>7. QED BY <1>4, <1>5, <1>6 DEF Tallied

LEMMA TalliedSaveUser ==
    ASSUME Typed, Tallied, NEW r \in Requests, SaveUser(r) PROVE Tallied'
<1>1. /\ UNCHANGED <<owner, linkVars, orgVars, user_deleted, registrar_count>>
      /\ link_count' = Written(r, {Personal})
      /\ Quiet' => Quiet
      /\ past.rows \subseteq past'.rows
      /\ "users" \notin past'.rows => link_count' = link_count
  BY DEF SaveUser, folderVars, orgVars, Quiet, Typed, TypeOK
<1>2. /\ OrgKey' = OrgKey /\ RegistrarKey' = RegistrarKey /\ SponsorKey' = SponsorKey
      /\ Live' = Live
  BY <1>1, SameKeys
<1>3. \A o \in Orgs \cup Sponsors : link_count'[o] = link_count[o]
  BY <1>1, LibraryAssumption DEF Written, Owners
<1>4. TalliedUser'
  BY <1>1, <1>2 DEF Tallied, TalliedUser
<1>5. TalliedOrgs'
  BY <1>1, <1>2, <1>3 DEF Tallied, TalliedOrgs, Tallies
<1>6. TalliedRegistrars'
  BY <1>1, <1>2, <1>3 DEF Tallied, TalliedRegistrars, Tallies
<1>7. QED BY <1>4, <1>5, <1>6 DEF Tallied

\* A task that nothing has overlapped leaves in the rows of its table what it counted.
LEMMA ReconcileMeans ==
    ASSUME Typed, Picked, NEW r \in Requests, Reconcile(r),
           NEW table, table = req[r].row
    PROVE  /\ table \in Tables
           /\ UNCHANGED <<owner, linkVars, orgVars, user_deleted>>
           /\ Quiet' => Quiet
           /\ \A t \in Tables \ {table} : t \in past'.rows <=> t \in past.rows
           /\ \A o \in Owners \ RowsOf(table) : link_count'[o] = link_count[o]
           /\ table # "registrars" => registrar_count' = registrar_count
           /\ table \notin past'.rows =>
                \A o \in RowsOf(table) \cap Owners : link_count'[o] = Counted(table)[o]
           /\ table = "registrars" /\ table \notin past'.rows =>
                /\ \A g \in Registrars : registrar_count'[g] = CountedOfRegistrars(table)[g]
                /\ \A o \in Orgs : user_deleted[o] => LinksOf(o) = {}
<1> PICK rows, gs : rows = req[r].rows /\ gs = rows \cap Registrars
  OBVIOUS
<1> DEFINE quiet ==
      /\ Counted(table) = req[r].counts
      /\ CountedOfRegistrars(table) = req[r].registrar_counts
      /\ \A o \in RowsOf(table) \ rows : link_count[o] = req[r].counts[o]
      /\ table = "registrars" =>
           /\ \A g \in Registrars \ gs : registrar_count[g] = req[r].registrar_counts[g]
           /\ \A o \in Orgs : user_deleted[o] => LinksOf(o) = {}
<1>1. table \in Tables
  BY DEF Reconcile, Typed, Fits
<1>2. /\ link_count' = Written(r, rows \cap RowsOf(table))
      /\ registrar_count' = WrittenOfRegistrars(r, gs)
      /\ past' = [past EXCEPT !.rows = IF quiet THEN @ \ {table} ELSE @ \cup {table}]
      /\ UNCHANGED <<owner, linkVars, orgVars, user_deleted>>
  BY DEF Reconcile, folderVars, orgVars
<1>3. table # "registrars" => gs = {}
  BY DEF Reconcile, Picked
<1>4. /\ past \in [unlocked: BOOLEAN, stale: BOOLEAN, swept: BOOLEAN, rows: SUBSET Tables]
      /\ registrar_count \in [Registrars -> Nat]
  BY DEF Typed, TypeOK
<1>5. /\ past'.rows = (IF quiet THEN past.rows \ {table} ELSE past.rows \cup {table})
      /\ Quiet' => Quiet
  <2> HIDE DEF quiet
  <2>1. QED BY <1>2, <1>4 DEF Quiet
<1>6. table \notin past'.rows => quiet
  <2> HIDE DEF quiet
  <2>1. QED BY <1>5
<1>7. \A t \in Tables \ {table} : t \in past'.rows <=> t \in past.rows
  <2> HIDE DEF quiet
  <2>1. QED BY <1>5
<1>8. \A o \in Owners \ RowsOf(table) : link_count'[o] = link_count[o]
  BY <1>2 DEF Written
<1>9. table # "registrars" => registrar_count' = registrar_count
  BY <1>2, <1>3, <1>4 DEF WrittenOfRegistrars
<1>10. ASSUME table \notin past'.rows, NEW o \in RowsOf(table) \cap Owners
       PROVE  link_count'[o] = Counted(table)[o]
  <2>1. quiet BY <1>6, <1>10
  <2>2. link_count'[o] = IF o \in rows THEN req[r].counts[o] ELSE link_count[o]
    BY <1>2, <1>10 DEF Written
  <2>3. o \notin rows => link_count[o] = req[r].counts[o]
    BY <1>10, <2>1
  <2>4. Counted(table) = req[r].counts
    BY <2>1
  <2>5. QED BY <2>2, <2>3, <2>4
<1>11. ASSUME table = "registrars", table \notin past'.rows
       PROVE  /\ \A g \in Registrars : registrar_count'[g] = CountedOfRegistrars(table)[g]
              /\ \A o \in Orgs : user_deleted[o] => LinksOf(o) = {}
  <2>1. quiet BY <1>6, <1>11
  <2>2. \A g \in Registrars : registrar_count'[g] = IF g \in gs THEN req[r].registrar_counts[g]
                                                    ELSE registrar_count[g]
    BY <1>2 DEF WrittenOfRegistrars
  <2>3. /\ \A g \in Registrars \ gs : registrar_count[g] = req[r].registrar_counts[g]
        /\ \A o \in Orgs : user_deleted[o] => LinksOf(o) = {}
        /\ CountedOfRegistrars(table) = req[r].registrar_counts
    BY <1>11, <2>1
  <2>4. QED BY <2>2, <2>3
<1>12. QED
  <2> HIDE DEF quiet
  <2>1. QED BY <1>1, <1>2, <1>5, <1>7, <1>8, <1>9, <1>10, <1>11

\* What the tasks count, and CountsExact asks for, is what the keys say.
LEMMA OrgKeyMeans ==
    ASSUME Typed, NEW o \in Orgs, ~user_deleted[o]
    PROVE  With(OrgKey, o) = LinksOf(o)
<1>1. o # Personal BY LibraryAssumption
<1>2. QED BY <1>1 DEF With, OrgKey, OrgRow, LinksOf, Live

LEMMA SponsorKeyMeans ==
    ASSUME Typed, LinksPlaced, ~past.swept, NEW g \in Sponsors
    PROVE  With(SponsorKey, g) = OwnedBy(g)
<1>1. g # Personal BY LibraryAssumption
<1>2. ASSUME NEW l \in Links PROVE l \in With(SponsorKey, g) <=> l \in OwnedBy(g)
  <2>1. CASE l \in Live
    <3>1. PICK f \in folders : place[l] = {f}
      BY <2>1 DEF LinksPlaced
    <3>2. SponsoredBy(l) = SponsorOf(owner[f])
      BY <3>1, SponsoredByMeans
    <3>3. SponsorKey[l] = SponsorOf(owner[f])
      BY <1>2, <2>1, <3>2 DEF SponsorKey, Live
    <3>4. SponsorOf(owner[f]) = g <=> owner[f] = g
      BY <1>1 DEF SponsorOf
    <3>5. QED BY <1>2, <2>1, <3>1, <3>3, <3>4 DEF With, OwnedBy
  <2>2. CASE l \notin Live
    BY <1>1, <1>2, <2>2 DEF With, OwnedBy, SponsorKey, Live
  <2>3. QED BY <2>1, <2>2
<1>3. QED BY <1>2 DEF With, OwnedBy, Live

LEMMA RegistrarKeyMeans ==
    ASSUME Typed, NEW g \in Registrars
    PROVE  With(RegistrarKey, g) =
             {l \in Live : organization[l] \in {o \in Orgs : ~user_deleted[o] /\ registrar[o] = g}}
<1>1. g # Personal /\ \A o \in Orgs : o # Personal
  BY LibraryAssumption
<1>2. ASSUME NEW l \in Links
      PROVE  RegistrarKey[l] = g <=>
               (l \in Live /\ organization[l] \in {o \in Orgs : ~user_deleted[o] /\ registrar[o] = g})
  BY <1>1, <1>2 DEF RegistrarKey, RegistrarOf, OrgRow, Live
<1>3. QED BY <1>2 DEF With, Live

LEMMA TalliedReconcile ==
    ASSUME Typed, Picked, LinksPlaced, Tallied, NEW r \in Requests, Reconcile(r)
    PROVE  Tallied'
<1> PICK table : table = req[r].row
  OBVIOUS
<1>1. /\ table \in Tables
      /\ UNCHANGED <<owner, linkVars, orgVars, user_deleted>>
      /\ Quiet' => Quiet
      /\ \A t \in Tables \ {table} : t \in past'.rows <=> t \in past.rows
      /\ \A o \in Owners \ RowsOf(table) : link_count'[o] = link_count[o]
      /\ table # "registrars" => registrar_count' = registrar_count
      /\ table \notin past'.rows =>
           \A o \in RowsOf(table) \cap Owners : link_count'[o] = Counted(table)[o]
      /\ table = "registrars" /\ table \notin past'.rows =>
           /\ \A g \in Registrars : registrar_count'[g] = CountedOfRegistrars(table)[g]
           /\ \A o \in Orgs : user_deleted[o] => LinksOf(o) = {}
  BY ReconcileMeans
<1>2. /\ OrgKey' = OrgKey /\ RegistrarKey' = RegistrarKey /\ SponsorKey' = SponsorKey
      /\ Live' = Live
  BY <1>1, SameKeys
<1>3. /\ Orgs \cap Sponsors = {} /\ Personal \notin Orgs /\ Personal \notin Sponsors
      /\ Orgs \subseteq Owners /\ Sponsors \subseteq Owners /\ Personal \in Owners
  BY LibraryAssumption DEF Owners
<1>4. CASE table = "users"
  <2>1. /\ \A o \in Orgs \cup Sponsors : link_count'[o] = link_count[o]
        /\ registrar_count' = registrar_count
        /\ "organizations" \in past'.rows <=> "organizations" \in past.rows
        /\ "registrars" \in past'.rows <=> "registrars" \in past.rows
    BY <1>1, <1>3, <1>4 DEF RowsOf, Tables
  <2>2. TalliedUser'
    <3>1. "users" \notin past'.rows => link_count'[Personal] = Counted("users")[Personal]
      BY <1>1, <1>3, <1>4 DEF RowsOf
    <3>2. Counted("users")[Personal] = Cardinality(Live)
      BY <1>3 DEF Counted, Count
    <3>3. QED BY <1>2, <3>1, <3>2 DEF TalliedUser
  <2>3. TalliedOrgs'
    BY <1>1, <1>2, <2>1 DEF Tallied, TalliedOrgs, Tallies
  <2>4. TalliedRegistrars'
    BY <1>1, <1>2, <2>1 DEF Tallied, TalliedRegistrars, Tallies
  <2>5. QED BY <2>2, <2>3, <2>4 DEF Tallied
<1>5. CASE table = "organizations"
  <2>1. /\ \A o \in Sponsors \cup {Personal} : link_count'[o] = link_count[o]
        /\ registrar_count' = registrar_count
        /\ "users" \in past'.rows <=> "users" \in past.rows
        /\ "registrars" \in past'.rows <=> "registrars" \in past.rows
    BY <1>1, <1>3, <1>5 DEF RowsOf, Tables
  <2>2. TalliedUser'
    BY <1>1, <1>2, <2>1 DEF Tallied, TalliedUser
  <2>3. TalliedOrgs'
    <3>1. ASSUME "organizations" \notin past'.rows, NEW o \in Orgs, ~user_deleted[o]
          PROVE  link_count'[o] = Cardinality(With(OrgKey, o))
      <4>1. link_count'[o] = Counted("organizations")[o]
        BY <1>1, <1>3, <1>5, <3>1 DEF RowsOf
      <4>2. Counted("organizations")[o] = Cardinality(LinksOf(o))
        BY <1>3, <3>1 DEF Counted, Count
      <4>3. QED BY <3>1, <4>1, <4>2, OrgKeyMeans
    <3>2. QED BY <1>1, <1>2, <3>1 DEF TalliedOrgs, Tallies
  <2>4. TalliedRegistrars'
    BY <1>1, <1>2, <2>1 DEF Tallied, TalliedRegistrars, Tallies
  <2>5. QED BY <2>2, <2>3, <2>4 DEF Tallied
<1>6. CASE table = "registrars"
  <2>1. /\ \A o \in Orgs \cup {Personal} : link_count'[o] = link_count[o]
        /\ "users" \in past'.rows <=> "users" \in past.rows
        /\ "organizations" \in past'.rows <=> "organizations" \in past.rows
    BY <1>1, <1>3, <1>6 DEF RowsOf, Tables
  <2>2. TalliedUser'
    BY <1>1, <1>2, <2>1 DEF Tallied, TalliedUser
  <2>3. TalliedOrgs'
    BY <1>1, <1>2, <2>1 DEF Tallied, TalliedOrgs, Tallies
  <2>4. ASSUME Quiet', "registrars" \notin past'.rows, NEW g \in Sponsors
        PROVE  link_count'[g] = Cardinality(With(SponsorKey, g))
    <3>1. link_count'[g] = Counted("registrars")[g]
      BY <1>1, <1>3, <1>6, <2>4 DEF RowsOf
    <3>2. Counted("registrars")[g] = Cardinality(OwnedBy(g))
      BY <1>3, <2>4 DEF Counted, Count, OwnedBy
    <3>3. With(SponsorKey, g) = OwnedBy(g)
      BY <1>1, <2>4, SponsorKeyMeans DEF Quiet
    <3>4. QED BY <3>1, <3>2, <3>3
  <2>5. ASSUME "registrars" \notin past'.rows, NEW g \in Registrars
        PROVE  registrar_count'[g] = Cardinality(With(RegistrarKey, g))
    <3>1. registrar_count'[g] = CountedOfRegistrars("registrars")[g]
      BY <1>1, <1>6, <2>5
    <3>2. CountedOfRegistrars("registrars")[g] =
            Cardinality({l \in Live : organization[l] \in {o \in Orgs : registrar[o] = g}})
      BY <2>5 DEF CountedOfRegistrars, CountedOfRegistrar, Count
    <3>3. \A l \in Live : organization[l] \in Orgs => ~user_deleted[organization[l]]
      BY <1>1, <1>6, <2>5 DEF LinksOf
    <3>4. {l \in Live : organization[l] \in {o \in Orgs : registrar[o] = g}} =
            {l \in Live : organization[l] \in {o \in Orgs : ~user_deleted[o] /\ registrar[o] = g}}
      BY <3>3
    <3>5. QED BY <3>1, <3>2, <3>4, RegistrarKeyMeans
  <2>6. TalliedRegistrars'
    BY <1>2, <2>4, <2>5 DEF TalliedRegistrars, Tallies
  <2>7. QED BY <2>2, <2>3, <2>6 DEF Tallied
<1>7. QED BY <1>1, <1>4, <1>5, <1>6 DEF Tables

LEMMA TalliedSaveFolder ==
    ASSUME Typed, Tallied, NEW r \in Requests, SaveFolder(r) PROVE Tallied'
<1>1. /\ past \in [unlocked: BOOLEAN, stale: BOOLEAN, swept: BOOLEAN, rows: SUBSET Tables]
      /\ UNCHANGED <<linkVars, countVars, orgVars>>
      /\ \E b \in BOOLEAN : past' = [past EXCEPT !.unlocked = @ \/ b]
  BY DEF SaveFolder, Undoes, Typed, TypeOK
<1>2. past'.rows = past.rows /\ (Quiet' => Quiet)
  BY <1>1 DEF Quiet
<1>3. CASE ~past'.unlocked
  <2>1. \A f \in folders : owner'[f] = owner[f]
    BY <1>3, RowStill DEF folderVars
  <2>2. QED BY <1>1, <1>2, <2>1, TalliedStill
<1>4. CASE past'.unlocked
  <2>1. Live' = Live /\ UNCHANGED link_count
    BY <1>1 DEF linkVars, countVars, Live
  <2>2. QED BY <1>2, <1>4, <2>1 DEF Tallied, TalliedUser, TalliedOrgs, TalliedRegistrars, Quiet
<1>5. QED BY <1>3, <1>4

LEMMA TalliedStep ==
    ASSUME Typed, Serial, Picked, LinksPlaced, Tallied, [AdminNext]_vars PROVE Tallied'
<1>1. /\ past \in [unlocked: BOOLEAN, stale: BOOLEAN, swept: BOOLEAN, rows: SUBSET Tables]
      /\ owner \in [Folders -> Owners] /\ folders \subseteq Folders
      /\ Fresh
  BY DEF Typed, TypeOK, Serial
<1>2. CASE UNCHANGED vars
  <2>1. /\ UNCHANGED <<linkVars, countVars, orgVars, past>>
        /\ \A f \in folders : owner'[f] = owner[f]
    BY <1>2 DEF vars, folderVars
  <2>2. QED BY <2>1, TalliedStill DEF Quiet
<1>3. ASSUME NEW r \in Requests, Begin(r) \/ BeginAdmin(r) PROVE Tallied'
  <2>1. /\ UNCHANGED <<linkVars, countVars, orgVars, past>>
        /\ \A f \in folders : owner'[f] = owner[f]
    BY <1>3, BeginMeans DEF folderVars
  <2>2. QED BY <2>1, TalliedStill DEF Quiet
<1>4. ASSUME NEW r \in Requests,
             \/ Open(r) \/ Lock(r) \/ LockFails(r) \/ Refuse(r) \/ SaveFails(r) \/ Abort(r)
             \/ CountLinks(r) \/ Compare(r) \/ ComputePath(r) \/ ReadShared(r)
      PROVE  Tallied'
  <2>1. UNCHANGED <<folderVars, linkVars, countVars, orgVars, past>>
    BY <1>4 DEF Open, Lock, LockFails, Refuse, SaveFails, Abort, CountLinks, Compare, ComputePath,
       ReadShared
  <2>2. \A f \in folders : owner'[f] = owner[f]
    BY <2>1 DEF folderVars
  <2>3. QED BY <2>1, <2>2, TalliedStill DEF Quiet
<1>5. ASSUME NEW r \in Requests, ReadMove(r) \/ SavePath(r) PROVE Tallied'
  <2>1. UNCHANGED <<owner, linkVars, countVars, orgVars>>
    BY <1>5 DEF ReadMove, SavePath, folderVars
  <2>2. past'.rows = past.rows /\ (Quiet' => Quiet)
    BY <1>1, <1>5 DEF ReadMove, SavePath, Quiet
  <2>3. \A f \in folders : owner'[f] = owner[f]
    BY <2>1
  <2>4. QED BY <2>1, <2>2, <2>3, TalliedStill
<1>6. ASSUME NEW r \in Requests, CreateFolder(r) PROVE Tallied'
  <2>1. req[r].folder \notin folders
    BY <1>1, <1>6 DEF CreateFolder, Fresh, Typed, Rows
  <2>2. /\ UNCHANGED <<linkVars, countVars, orgVars, past>>
        /\ \A f \in folders : owner'[f] = owner[f]
    BY <1>1, <1>6, <2>1 DEF CreateFolder
  <2>3. QED BY <2>2, TalliedStill DEF Quiet
<1>7. ASSUME NEW r \in Requests, \/ MoveFolder(r) \/ DeleteFolder(r) \/ SaveLink(r)
                                 \/ SaveOrganization(r) \/ SaveRegistrar(r) \/ SaveUser(r)
                                 \/ Reconcile(r) \/ SaveFolder(r)
      PROVE  Tallied'
  BY <1>1, <1>7, TalliedMove, TalliedDeleteFolder, TalliedSaveLink, TalliedSaveOrganization,
     TalliedSaveRegistrar, TalliedSaveUser, TalliedReconcile, TalliedSaveFolder
<1>8. ASSUME NEW l \in Links, DeleteLink(l) PROVE Tallied'
  BY <1>8, TalliedDeleteLink
<1>9. QED
  BY <1>2, <1>3, <1>4, <1>5, <1>6, <1>7, <1>8 DEF AdminNext, Next, Working, Administering

LEMMA TalliesImply ==
    ASSUME Typed, LinksPlaced, Tallied PROVE CountsExact
<1>1. "users" \notin past.rows => link_count[Personal] = Count(Live)
  BY DEF Tallied, TalliedUser, Count
<1>2. ASSUME Quiet, NEW o \in Orgs PROVE OwnedBy(o) = LinksOf(o)
  <2>1. ASSUME NEW l \in Live
        PROVE  (\E f \in place[l] : owner[f] = o) <=> organization[l] = o
    <3>1. PICK f \in folders : place[l] = {f} /\ organization[l] = OrgOf(owner[f])
      BY <1>2, <2>1 DEF LinksPlaced, Quiet
    <3>2. OrgOf(owner[f]) = o <=> owner[f] = o
      BY <1>2, LibraryAssumption DEF OrgOf
    <3>3. QED BY <3>1, <3>2
  <2>2. QED BY <2>1 DEF OwnedBy, LinksOf
<1>3. ASSUME Quiet, "organizations" \notin past.rows, NEW o \in Orgs, ~user_deleted[o]
      PROVE  link_count[o] = Count(OwnedBy(o))
  <2>1. link_count[o] = Cardinality(With(OrgKey, o))
    BY <1>3 DEF Tallied, TalliedOrgs, Tallies
  <2>2. QED BY <1>2, <1>3, <2>1, OrgKeyMeans DEF Count
<1>4. ASSUME Quiet, "registrars" \notin past.rows, NEW g \in Sponsors
      PROVE  link_count[g] = Count(OwnedBy(g))
  <2>1. link_count[g] = Cardinality(With(SponsorKey, g))
    BY <1>4 DEF Tallied, TalliedRegistrars, Tallies
  <2>2. With(SponsorKey, g) = OwnedBy(g)
    BY <1>4, SponsorKeyMeans DEF Quiet
  <2>3. QED BY <2>1, <2>2 DEF Count
<1>5. ASSUME Quiet, "registrars" \notin past.rows, NEW g \in Registrars
      PROVE  registrar_count[g] =
               Count(UNION {OwnedBy(o) : o \in {p \in Orgs : RegistrarOf(p) = g}})
  <2>1. registrar_count[g] = Cardinality(With(RegistrarKey, g))
    BY <1>5 DEF Tallied, TalliedRegistrars, Tallies
  <2> PICK os : os = {p \in Orgs : RegistrarOf(p) = g}
    OBVIOUS
  <2>2. os = {o \in Orgs : ~user_deleted[o] /\ registrar[o] = g}
    BY <1>5, LibraryAssumption DEF RegistrarOf, OrgRow
  <2>3. \A l : l \in UNION {OwnedBy(o) : o \in os} <=> \E o \in os : l \in OwnedBy(o)
    OBVIOUS
  <2>4. \A o \in os : OwnedBy(o) = LinksOf(o)
    BY <1>2, <1>5, <2>2
  <2>5. \A l : (\E o \in os : l \in OwnedBy(o)) <=> l \in Live /\ organization[l] \in os
    BY <2>4 DEF LinksOf
  <2>6. UNION {OwnedBy(o) : o \in os} = {l \in Live : organization[l] \in os}
    BY <2>3, <2>5
  <2>7. With(RegistrarKey, g) = {l \in Live : organization[l] \in os}
    BY <1>5, <2>2, RegistrarKeyMeans
  <2>8. QED BY <2>1, <2>6, <2>7 DEF Count
<1>6. QED BY <1>1, <1>3, <1>4, <1>5 DEF CountsExact, Quiet

----------------------------------------------------------------------------
(* The theorems.                                                           *)

\* The pages and tasks that write to folders, links and their owners' rows start from,
\* and keep, what the invariant says.
LEMMA InvAlways == AdminSpec => []Inv
<1>1. Init => Inv
  BY InitTyped, InitSerial, InitLinks DEF Inv
<1>2. Inv /\ [AdminNext]_vars => Inv'
  <2> SUFFICES ASSUME Inv, [AdminNext]_vars PROVE Inv'
    OBVIOUS
  <2>1. Typed /\ Serial /\ Fresh /\ Picked /\ LinksPlaced /\ Tallied
    BY DEF Inv, Serial
  <2>2. Typed' /\ Serial'
    BY <2>1, TypedStep, SerialStep
  <2>3. Picked' /\ LinksPlaced' /\ Tallied'
    BY <2>1, PickedStep, LinksPlacedStep, TalliedStep
  <2>4. QED BY <2>2, <2>3 DEF Inv
<1>3. QED
  BY <1>1, <1>2, PTL DEF AdminSpec

\* However the requests of the pages, the API and the tasks interleave, folders stay
\* trees, whose members agree with the top on tree_root and owner, and whose paths and
\* has_children are exact, as long as no folder has moved outside the locks of
\* FolderDetailView.put and post, and no PATCH and no renaming of an organization has
\* saved all columns of a folder over what others had changed of it meanwhile; and every
\* field stays of its type.
THEOREM FoldersStayTrees == AdminSpec => []LibraryInv
<1>1. Inv => LibraryInv
  BY TreesImply
<1>2. QED
  BY <1>1, InvAlways, PTL

\* A live link stays in exactly one folder that is there, unless a folder was deleted
\* with a link inside, and in that folder's organization, unless a request wrote what
\* it had read of a folder that has moved, or wrote the folder back to where it was.
THEOREM LinksStayPlaced == AdminSpec => []LinksPlaced
<1>1. Inv => LinksPlaced
  BY DEF Inv
<1>2. QED
  BY <1>1, InvAlways, PTL

\* The link counts of the user, of organizations and of registrars stay what the
\* reconcile tasks would find, as long as no request wrote a row that it had loaded
\* before another one changed it, a folder's row among them; counts that were so
\* overwritten, in a row of theirs, are right again after a run of a task that nothing
\* overlapped.
THEOREM CountsStayExact == AdminSpec => []CountsExact
<1>1. Inv => CountsExact
  BY TalliesImply DEF Inv
<1>2. QED
  BY <1>1, InvAlways, PTL

=============================================================================
