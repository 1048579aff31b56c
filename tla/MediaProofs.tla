---------------------------- MODULE MediaProofs ----------------------------
(***************************************************************************)
(* Proofs about Media: the folders always form a forest whose siblings     *)
(* have different names and whose paths are spelled by it, a DELETE does   *)
(* not miss a reference that has been there all along, what is in the      *)
(* blob store and in the table is explained, and the types stay.           *)
(***************************************************************************)
EXTENDS Media, TLAPS

-----------------------------------------------------------------------------
(* What a step does to the folders. *)

Drop(f) == \/ Descendants(f) = {} /\ FiledIn({f}) = {} /\ RemoveFolders({f}) /\ UNCHANGED media
           \/ RemoveFolders(Within(f))

\* A step leaves the tree alone, or it is one operation of the folder store.
LEMMA TreeSteps ==
    ASSUME [Next]_vars
    PROVE  \/ UNCHANGED tree
           \/ \E f \in Folders, n \in Names, p \in Folders \cup Roots :
                CreateFolder(f, n, p) \/ UpdateFolder(f, n, p)
           \/ \E f \in Folders : Exists(f) /\ Drop(f)
<1>1. CASE UNCHANGED vars
  BY <1>1 DEF vars, tree
<1>2. CASE FolderStep
  BY <1>2 DEF FolderStep, MakeFolder, EditFolder, DeleteEmptyFolder, ForceDeleteFolder, Drop
<1>3. CASE \E k \in Presigns : Presign(k) \/ ClientPuts(k) \/ Expire(k)
  BY <1>3 DEF Presign, ClientPuts, Expire
<1>4. CASE \E r \in Requests : UploadStep(r) \/ EditStep(r)
  BY <1>4 DEF UploadStep, EditStep, Upload, Confirm, Put, ReadObject, CreateRow, CloseSession,
              Patch, Delete
<1>5. CASE \E r \in Requests :
             \/ CheckFolder(r) \/ Update(r)
             \/ Scan(r) \/ EndScan(r) \/ RemoveRow(r) \/ DeleteBlob(r)
             \/ Emitted(r) \/ Fail(r)
  BY <1>5 DEF CheckFolder, Update, Scan, EndScan, RemoveRow, DeleteBlob, Emitted, Fail
<1>6. CASE \E d \in Docs, m \in Requests \cup {NoMedia} : WriteRef(d, m)
  BY <1>6 DEF WriteRef
<1> QED BY <1>1, <1>2, <1>3, <1>4, <1>5, <1>6 DEF Next

-----------------------------------------------------------------------------
(* The forest. *)

IdsOK == freshFolders \subseteq Folders /\ DOMAIN folder \subseteq Folders \ freshFolders

TreeInv == IdsOK /\ Forest /\ SiblingsDiffer

\* There are no folders at first.
LEMMA TreeInit == Init => TreeInv
  BY FoldersAssumption, MediaAssumption
  DEF Init, TreeInv, IdsOK, Forest, ParentsExist, Acyclic, SiblingsDiffer

\* A folder has no children when it is new, so it closes no cycle.
LEMMA CreateKeepsTree ==
    ASSUME TreeInv, NEW f \in Folders, NEW n \in Names, NEW p \in Folders \cup Roots,
           CreateFolder(f, n, p)
    PROVE  TreeInv'
<1> USE FoldersAssumption
<1>1. f \notin DOMAIN folder /\ f \notin Roots /\ p # f
  BY DEF TreeInv, IdsOK, CreateFolder, Roots
<1>2. /\ DOMAIN folder' = DOMAIN folder \cup {f}
      /\ folder'[f].parent = p /\ folder'[f].name = n
      /\ \A g \in DOMAIN folder : folder'[g] = folder[g]
  BY <1>1 DEF CreateFolder
<1>3. IdsOK'
  BY <1>2 DEF TreeInv, IdsOK, CreateFolder
<1>4. ParentsExist'
  BY <1>2 DEF TreeInv, Forest, ParentsExist, CreateFolder
<1>5. Acyclic'
  <2> SUFFICES ASSUME NEW S \in SUBSET DOMAIN folder', S # {},
                      \A g \in S : folder'[g].parent \in S
               PROVE  FALSE
    BY DEF Acyclic
  <2> DEFINE T == S \ {f}
  <2>1. T \subseteq DOMAIN folder
    BY <1>2
  <2>2. T # {}
    BY <1>1, <1>2
  <2>3. \A g \in T : folder[g].parent \in T
    BY <1>1, <1>2, <2>1 DEF TreeInv, Forest, ParentsExist
  <2> QED BY <2>1, <2>2, <2>3 DEF TreeInv, Forest, Acyclic
<1>6. SiblingsDiffer'
  BY <1>1, <1>2 DEF TreeInv, SiblingsDiffer, CreateFolder, NameTaken
<1> QED BY <1>3, <1>4, <1>5, <1>6 DEF TreeInv, Forest

\* If moving f under p closed a cycle, the walk from p to the root would pass
\* through f: what of the cycle can be reached from p without f is a cycle of
\* the old tree.
LEMMA UpdateKeepsTree ==
    ASSUME TreeInv, NEW f \in Folders, NEW n \in Names, NEW p \in Folders \cup Roots,
           UpdateFolder(f, n, p)
    PROVE  TreeInv'
<1> USE FoldersAssumption
<1>1. /\ DOMAIN folder' = DOMAIN folder
      /\ f \in DOMAIN folder /\ folder'[f].parent = p /\ folder'[f].name = n
      /\ \A g \in DOMAIN folder \ {f} : /\ folder'[g].parent = folder[g].parent
                                        /\ folder'[g].name = folder[g].name
  BY DEF UpdateFolder, Exists
<1>2. IdsOK'
  BY <1>1 DEF TreeInv, IdsOK, UpdateFolder
<1>3. ParentsExist'
  BY <1>1 DEF TreeInv, Forest, ParentsExist, UpdateFolder, CanMove
<1>4. Acyclic'
  <2> SUFFICES ASSUME NEW S \in SUBSET DOMAIN folder, S # {},
                      \A g \in S : folder'[g].parent \in S
               PROVE  FALSE
    BY <1>1 DEF Acyclic
  <2>1. CASE f \notin S
    BY <1>1, <2>1 DEF TreeInv, Forest, Acyclic
  <2>2. CASE f \in S
    <3>1. p \in S
      BY <1>1, <2>2
    <3>2. ~IsDescendant(f, p)
      BY <3>1 DEF UpdateFolder, CanMove
    <3>3. PICK U \in SUBSET DOMAIN folder : p \in U /\ UpwardClosed(U) /\ f \notin U
      BY <3>2 DEF IsDescendant
    <3>4. \A g \in S \cap U : folder[g].parent \in S \cap U
      BY <1>1, <3>3 DEF UpwardClosed
    <3> QED BY <3>1, <3>3, <3>4 DEF TreeInv, Forest, Acyclic
  <2> QED BY <2>1, <2>2
<1>5. SiblingsDiffer'
  BY <1>1 DEF TreeInv, SiblingsDiffer, UpdateFolder, NameTaken
<1> QED BY <1>2, <1>3, <1>4, <1>5 DEF TreeInv, Forest

\* A child of a folder that goes is a descendant, and goes too.
LEMMA ChildrenGo ==
    ASSUME NEW f \in DOMAIN folder, NEW g \in DOMAIN folder,
           folder[g].parent \in Within(f)
    PROVE  g \in Within(f)
<1> SUFFICES ASSUME g # f, NEW S \in SUBSET DOMAIN folder, g \in S, UpwardClosed(S)
             PROVE  f \in S
  BY DEF Within, Descendants, IsDescendant
<1>1. folder[g].parent \in S
  BY DEF Within, Descendants, UpwardClosed
<1> QED BY <1>1 DEF Within, Descendants, IsDescendant

\* Removing a folder with all that is below it keeps the tree.
LEMMA DropKeepsTree ==
    ASSUME TreeInv, NEW f \in Folders, Exists(f), Drop(f)
    PROVE  TreeInv'
<1>1. RemoveFolders(Within(f))
  BY DEF Drop, Within
<1>2. /\ DOMAIN folder' = DOMAIN folder \ Within(f)
      /\ \A g \in DOMAIN folder' : folder'[g] = folder[g]
      /\ UNCHANGED freshFolders
  BY <1>1 DEF RemoveFolders
<1>3. IdsOK'
  BY <1>2 DEF TreeInv, IdsOK
<1>4. ParentsExist'
  <2> SUFFICES ASSUME NEW g \in DOMAIN folder'
               PROVE  folder'[g].parent \in DOMAIN folder' \cup Roots
    BY DEF ParentsExist
  <2>1. folder[g].parent \in DOMAIN folder \cup Roots
    BY <1>2 DEF TreeInv, Forest, ParentsExist
  <2>2. folder[g].parent \notin Within(f)
    BY <1>2, ChildrenGo DEF Exists
  <2> QED BY <1>2, <2>1, <2>2
<1>5. Acyclic'
  BY <1>2 DEF TreeInv, Forest, Acyclic
<1>6. SiblingsDiffer'
  BY <1>2 DEF TreeInv, SiblingsDiffer
<1> QED BY <1>3, <1>4, <1>5, <1>6 DEF TreeInv, Forest

\* Every step keeps the tree.
LEMMA TreeNext == TreeInv /\ [Next]_vars => TreeInv'
<1> SUFFICES ASSUME TreeInv, [Next]_vars
             PROVE  TreeInv'
  OBVIOUS
<1>1. CASE UNCHANGED tree
  BY <1>1 DEF tree, TreeInv, IdsOK, Forest, ParentsExist, Acyclic, SiblingsDiffer
<1>2. CASE \E f \in Folders, n \in Names, p \in Folders \cup Roots :
             CreateFolder(f, n, p) \/ UpdateFolder(f, n, p)
  BY <1>2, CreateKeepsTree, UpdateKeepsTree
<1>3. CASE \E f \in Folders : Exists(f) /\ Drop(f)
  BY <1>3, DropKeepsTree
<1> QED BY <1>1, <1>2, <1>3, TreeSteps

\* However folders are made, renamed, moved and deleted, whatever the requests
\* for assets do meanwhile: every parent exists and none hangs below itself.
THEOREM TreeIsForest == Spec => []Forest
<1>1. TreeInv => Forest
  BY DEF TreeInv
<1> QED BY TreeInit, TreeNext, <1>1, PTL DEF Spec

\* Two folders under one parent never share a name.
THEOREM SiblingNamesDiffer == Spec => []SiblingsDiffer
<1>1. TreeInv => SiblingsDiffer
  BY DEF TreeInv
<1> QED BY TreeInit, TreeNext, <1>1, PTL DEF Spec

\* The folder operations keep the tree sound.
THEOREM TheTreeIsSound == Spec => []TreeIsSound
BY TreeIsForest, SiblingNamesDiffer, PTL DEF TreeIsSound

-----------------------------------------------------------------------------
(* The paths.  What is built anew downwards is well defined because the tree *)
(* is a forest: a set of folders in which every one needs its parent's path  *)
(* first would hang on itself.                                               *)

\* What the path of g becomes when f has name n and parent p, once the paths P
\* of others are known.
PathFrom(P, f, n, p, g) ==
    IF g = f THEN BuildPath(p, n)
    ELSE IF g \in Descendants(f) THEN Append(P[folder[g].parent], folder[g].name)
    ELSE folder[g].path

\* P gives the paths of the folders of S, which has their parents.
Solution(P, S, f, n, p) ==
    /\ S \subseteq DOMAIN folder /\ UpwardClosed(S)
    /\ P = [g \in S |-> PathFrom(P, f, n, p, g)]

\* The parent of a descendant is the folder itself or a descendant.
LEMMA ParentsOfDescendants ==
    ASSUME NEW f \in DOMAIN folder, NEW g \in Descendants(f)
    PROVE  folder[g].parent \in Within(f)
<1>1. g \in DOMAIN folder /\ g # f /\ IsDescendant(f, g)
  BY DEF Descendants
<1>2. folder[g].parent \in DOMAIN folder
  <2> SUFFICES ASSUME folder[g].parent \notin DOMAIN folder PROVE FALSE
    OBVIOUS
  <2>1. UpwardClosed({g}) /\ {g} \in SUBSET DOMAIN folder
    BY <1>1 DEF UpwardClosed
  <2> QED BY <1>1, <2>1 DEF IsDescendant
<1>3. ASSUME NEW S \in SUBSET DOMAIN folder, folder[g].parent \in S, UpwardClosed(S)
      PROVE  f \in S
  <2>1. UpwardClosed(S \cup {g}) /\ S \cup {g} \in SUBSET DOMAIN folder
    BY <1>1, <1>3 DEF UpwardClosed
  <2> QED BY <1>1, <2>1 DEF IsDescendant
<1> QED BY <1>2, <1>3 DEF Within, Descendants, IsDescendant

\* Two solutions agree where both speak.
LEMMA SolutionsAgree ==
    ASSUME TreeInv, NEW f \in DOMAIN folder, NEW n, NEW p, NEW P, NEW Q, NEW S, NEW T,
           Solution(P, S, f, n, p), Solution(Q, T, f, n, p)
    PROVE  \A g \in S \cap T : P[g] = Q[g]
<1> DEFINE Bad == {g \in S \cap T : P[g] # Q[g]}
<1>1. Bad \in SUBSET DOMAIN folder
  BY DEF Solution
<1>2. ASSUME NEW g \in Bad PROVE folder[g].parent \in Bad
  <2>1. P[g] = PathFrom(P, f, n, p, g) /\ Q[g] = PathFrom(Q, f, n, p, g)
    BY DEF Solution
  <2>2. g \in Descendants(f) /\ P[folder[g].parent] # Q[folder[g].parent]
    BY <2>1 DEF PathFrom
  <2>3. folder[g].parent \in DOMAIN folder
    BY <2>2, ParentsOfDescendants DEF Within, Descendants
  <2>4. folder[g].parent \in S \cap T
    BY <2>3, <1>1 DEF Solution, UpwardClosed
  <2> QED BY <2>2, <2>4
<1>3. Bad = {}
  BY <1>1, <1>2 DEF TreeInv, Forest, Acyclic
<1> QED BY <1>3

\* All folders have a solution: the largest set that has one leaves none out.
LEMMA SolutionExists ==
    ASSUME TreeInv, NEW f \in DOMAIN folder, NEW n, NEW p
    PROVE  \E P : Solution(P, DOMAIN folder, f, n, p)
<1> DEFINE Solved == {S \in SUBSET DOMAIN folder : \E P : Solution(P, S, f, n, p)}
           U == UNION Solved
           Says(g, x) == \E S \in Solved : \E P : g \in S /\ Solution(P, S, f, n, p) /\ x = P[g]
           W == [g \in U |-> CHOOSE x : Says(g, x)]
<1>1. U \in SUBSET DOMAIN folder
  OBVIOUS
<1>2. UpwardClosed(U)
  <2> SUFFICES ASSUME NEW g \in U, folder[g].parent \in DOMAIN folder
               PROVE  folder[g].parent \in U
    BY <1>1 DEF UpwardClosed
  <2>1. PICK S \in Solved : g \in S
    OBVIOUS
  <2>2. UpwardClosed(S)
    BY DEF Solution
  <2>3. folder[g].parent \in S
    BY <2>1, <2>2, <1>1 DEF UpwardClosed
  <2> QED BY <2>3
<1>3. ASSUME NEW S \in Solved, NEW P, Solution(P, S, f, n, p), NEW g \in S PROVE W[g] = P[g]
  <2>1. g \in U /\ Says(g, P[g])
    BY <1>3
  <2>2. Says(g, W[g])
    BY <2>1
  <2>3. PICK T \in Solved : \E Q : g \in T /\ Solution(Q, T, f, n, p) /\ W[g] = Q[g]
    BY <2>2
  <2>4. PICK Q : g \in T /\ Solution(Q, T, f, n, p) /\ W[g] = Q[g]
    BY <2>3
  <2> QED BY <1>3, <2>4, SolutionsAgree
<1> HIDE DEF W
<1>4. \A g \in U : W[g] = PathFrom(W, f, n, p, g)
  <2> SUFFICES ASSUME NEW g \in U PROVE W[g] = PathFrom(W, f, n, p, g)
    OBVIOUS
  <2>1. PICK S \in Solved : g \in S
    OBVIOUS
  <2>2. PICK P : Solution(P, S, f, n, p)
    OBVIOUS
  <2>3. P[g] = PathFrom(P, f, n, p, g) /\ W[g] = P[g]
    BY <2>1, <2>2, <1>3 DEF Solution
  <2>4. g \in Descendants(f) => P[folder[g].parent] = W[folder[g].parent]
    <3> SUFFICES ASSUME g \in Descendants(f)
                 PROVE  P[folder[g].parent] = W[folder[g].parent]
      OBVIOUS
    <3>1. folder[g].parent \in DOMAIN folder
      BY ParentsOfDescendants DEF Within, Descendants
    <3>2. folder[g].parent \in S
      BY <2>1, <2>2, <3>1 DEF Solution, UpwardClosed
    <3> QED BY <2>2, <3>2, <1>3
  <2> QED BY <2>3, <2>4 DEF PathFrom
<1>5. U = DOMAIN folder
  <2> SUFFICES ASSUME U # DOMAIN folder PROVE FALSE
    OBVIOUS
  <2>1. PICK g \in DOMAIN folder \ U : folder[g].parent \notin DOMAIN folder \ U
    BY <1>1 DEF TreeInv, Forest, Acyclic
  <2> DEFINE S == U \cup {g}
             V == [h \in S |-> IF h = g THEN PathFrom(W, f, n, p, g) ELSE W[h]]
  <2>2. S \in SUBSET DOMAIN folder /\ UpwardClosed(S)
    BY <1>1, <1>2, <2>1 DEF UpwardClosed
  <2>3. ASSUME NEW h \in S PROVE V[h] = PathFrom(V, f, n, p, h)
    <3>1. h \in Descendants(f) => V[folder[h].parent] = W[folder[h].parent]
      <4> SUFFICES ASSUME h \in Descendants(f)
                   PROVE  V[folder[h].parent] = W[folder[h].parent]
        OBVIOUS
      <4>1. folder[h].parent \in DOMAIN folder
        BY ParentsOfDescendants DEF Within, Descendants
      <4>2. folder[h].parent \in U
        BY <1>1, <1>2, <2>1, <4>1 DEF UpwardClosed
      <4> QED BY <2>1, <4>2
    <3>2. V[h] = PathFrom(W, f, n, p, h)
      BY <1>4, <2>1
    <3> QED BY <3>1, <3>2 DEF PathFrom
  <2>4. V = [h \in S |-> PathFrom(V, f, n, p, h)]
    BY <2>3
  <2>5. Solution(V, S, f, n, p)
    BY <2>2, <2>4 DEF Solution
  <2>6. S \in Solved
    BY <2>2, <2>5
  <2> QED BY <2>1, <2>6
<1>6. W = [g \in U |-> W[g]]
  BY DEF W
<1>7. W = [g \in DOMAIN folder |-> PathFrom(W, f, n, p, g)]
  BY <1>4, <1>5, <1>6
<1> QED BY <1>2, <1>5, <1>7 DEF Solution

\* The paths of an update are the ones its rule asks for.
LEMMA NewPathsSolve ==
    ASSUME TreeInv, NEW f \in DOMAIN folder, NEW n, NEW p
    PROVE  Solution(NewPaths(f, n, p), DOMAIN folder, f, n, p)
<1>1. PICK P : Solution(P, DOMAIN folder, f, n, p)
  BY SolutionExists
<1>2. P = [g \in DOMAIN folder |->
             IF g = f THEN BuildPath(p, n)
             ELSE IF g \in Descendants(f) THEN Append(P[folder[g].parent], folder[g].name)
             ELSE folder[g].path]
  BY <1>1 DEF Solution, PathFrom
<1>3. NewPaths(f, n, p) =
        [g \in DOMAIN folder |->
             IF g = f THEN BuildPath(p, n)
             ELSE IF g \in Descendants(f)
                  THEN Append(NewPaths(f, n, p)[folder[g].parent], folder[g].name)
             ELSE folder[g].path]
  BY <1>2 DEF NewPaths
<1>4. UpwardClosed(DOMAIN folder)
  BY DEF UpwardClosed
<1> QED BY <1>3, <1>4 DEF Solution, PathFrom

\* Where nothing moves above a folder its path stays; so a tree whose paths are
\* true has true paths after every operation.
PathsInv == TreeInv /\ FoldersTypeOK /\ PathsAreTrue

Spelled(g) == folder[g].path = BuildPath(folder[g].parent, folder[g].name)

\* A new folder is spelled below its parent, and is nobody's parent yet.
LEMMA CreateKeepsPaths ==
    ASSUME PathsInv, NEW f \in Folders, NEW n \in Names, NEW p \in Folders \cup Roots,
           CreateFolder(f, n, p)
    PROVE  FoldersTypeOK' /\ PathsAreTrue'
<1> USE FoldersAssumption DEF PathsInv
<1>1. f \notin DOMAIN folder /\ f \notin Roots /\ p \in DOMAIN folder \cup Roots
  BY DEF TreeInv, IdsOK, CreateFolder, Roots
<1>2. /\ DOMAIN folder' = DOMAIN folder \cup {f}
      /\ folder'[f] = [name |-> n, parent |-> p, path |-> BuildPath(p, n)]
      /\ \A g \in DOMAIN folder : folder'[g] = folder[g]
      /\ freshFolders' = freshFolders \ {f} /\ f \in freshFolders
  BY <1>1 DEF CreateFolder
<1>3. BuildPath(p, n) \in Seq(Names)
  BY DEF BuildPath, FoldersTypeOK
<1>4. FoldersTypeOK'
  <2>1. folder'[f] \in [name : Names, parent : Folders \cup Roots, path : Seq(Names)]
    BY <1>2, <1>3
  <2> QED BY <1>2, <2>1 DEF FoldersTypeOK
<1>5. \A g \in DOMAIN folder' : folder'[g].parent # f
  BY <1>1, <1>2 DEF TreeInv, Forest, ParentsExist
<1>6. ASSUME NEW g \in DOMAIN folder' PROVE Spelled(g)'
  <2>1. CASE g = f
    BY <1>1, <1>2, <2>1 DEF Spelled, BuildPath
  <2>2. CASE g # f
    <3>1. folder[g].path = BuildPath(folder[g].parent, folder[g].name) /\ g \in DOMAIN folder
      BY <1>2, <2>2 DEF PathsAreTrue
    <3>2. folder'[g] = folder[g] /\ folder[g].parent # f
      BY <1>2, <1>5, <3>1
    <3> QED BY <1>2, <3>1, <3>2 DEF Spelled, BuildPath
  <2> QED BY <2>1, <2>2
<1>7. PathsAreTrue'
  BY <1>6 DEF PathsAreTrue, Spelled
<1> QED BY <1>4, <1>7

\* A rename or a move respells the folder and all that is below it.
LEMMA UpdateKeepsPaths ==
    ASSUME PathsInv, NEW f \in Folders, NEW n \in Names, NEW p \in Folders \cup Roots,
           UpdateFolder(f, n, p)
    PROVE  FoldersTypeOK' /\ PathsAreTrue'
<1> USE FoldersAssumption DEF PathsInv
<1> DEFINE P == NewPaths(f, n, p)
<1>1. /\ f \in DOMAIN folder /\ DOMAIN folder' = DOMAIN folder
      /\ \A g \in DOMAIN folder :
           folder'[g] = [name |-> IF g = f THEN n ELSE folder[g].name,
                         parent |-> IF g = f THEN p ELSE folder[g].parent,
                         path |-> P[g]]
      /\ UNCHANGED freshFolders
      /\ p \in (DOMAIN folder \cup Roots) \ {f}
      /\ p \in DOMAIN folder => ~IsDescendant(f, p)
  BY DEF UpdateFolder, CanMove, Exists
<1>2. \A g \in DOMAIN folder : P[g] = PathFrom(P, f, n, p, g)
  BY <1>1, NewPathsSolve DEF Solution
<1> HIDE DEF P
<1>3. ASSUME NEW g \in Descendants(f)
      PROVE  g # f /\ folder[g].parent \in DOMAIN folder
  BY <1>1, ParentsOfDescendants DEF Within, Descendants
<1>4. \A g \in DOMAIN folder : P[g] \in Seq(Names)
  <2> DEFINE Bad == {g \in DOMAIN folder : P[g] \notin Seq(Names)}
  <2>0. BuildPath(p, n) \in Seq(Names)
    BY DEF BuildPath, FoldersTypeOK
  <2>1. ASSUME NEW g \in Bad PROVE folder[g].parent \in Bad
    <3>1. g # f
      BY <1>2, <2>0 DEF PathFrom
    <3>2. g \in Descendants(f)
      BY <1>2, <3>1 DEF PathFrom, FoldersTypeOK
    <3>3. P[g] = Append(P[folder[g].parent], folder[g].name)
      BY <1>2, <3>1, <3>2 DEF PathFrom
    <3>4. folder[g].name \in Names
      BY DEF FoldersTypeOK
    <3>5. P[folder[g].parent] \in Seq(Names) => P[g] \in Seq(Names)
      BY <3>3, <3>4
    <3> QED BY <1>3, <3>2, <3>5
  <2>2. Bad = {}
    BY <2>1 DEF TreeInv, Forest, Acyclic
  <2> QED BY <2>2
<1>5. FoldersTypeOK'
  <2>1. \A g \in DOMAIN folder' :
          folder'[g] \in [name : Names, parent : Folders \cup Roots, path : Seq(Names)]
    BY <1>1, <1>4 DEF FoldersTypeOK
  <2> QED BY <1>1, <2>1 DEF FoldersTypeOK
<1>6. ASSUME NEW g \in DOMAIN folder, g \notin Within(f) PROVE P[g] = folder[g].path
  BY <1>2, <1>6 DEF PathFrom, Within
<1>7. ASSUME NEW g \in DOMAIN folder
      PROVE  Spelled(g)'
  <2>0. /\ folder'[g].path = P[g]
        /\ folder'[g].parent = IF g = f THEN p ELSE folder[g].parent
        /\ folder'[g].name = IF g = f THEN n ELSE folder[g].name
        /\ \A h \in DOMAIN folder : folder'[h].path = P[h]
    BY <1>1
  <2>1. CASE g = f
    <3>1. P[g] = BuildPath(p, n)
      BY <1>2, <2>1 DEF PathFrom
    <3>2. p \in DOMAIN folder => p \notin Within(f)
      BY <1>1 DEF Within, Descendants
    <3>3. p \in DOMAIN folder => P[p] = folder[p].path
      BY <1>6, <3>2
    <3> QED BY <1>1, <2>0, <2>1, <3>1, <3>3 DEF Spelled, BuildPath
  <2>2. CASE g \in Descendants(f)
    <3>1. g # f /\ P[g] = Append(P[folder[g].parent], folder[g].name)
      BY <1>2, <1>3, <2>2 DEF PathFrom
    <3> QED BY <1>1, <1>3, <2>0, <2>2, <3>1 DEF Spelled, BuildPath
  <2>3. CASE g \notin Within(f)
    <3>1. P[g] = BuildPath(folder[g].parent, folder[g].name) /\ g # f
      BY <1>6, <2>3 DEF PathsAreTrue, Within
    <3>2. folder[g].parent \in DOMAIN folder =>
            P[folder[g].parent] = folder[folder[g].parent].path
      BY <1>1, <1>6, <2>3, ChildrenGo
    <3> QED BY <1>1, <2>0, <3>1, <3>2 DEF Spelled, BuildPath
  <2> QED BY <2>1, <2>2, <2>3 DEF Within
<1>8. PathsAreTrue'
  BY <1>1, <1>7 DEF PathsAreTrue, Spelled
<1> QED BY <1>5, <1>8

\* Removing folders leaves the paths of the others as they are.
LEMMA DropKeepsPaths ==
    ASSUME PathsInv, NEW f \in Folders, Exists(f), Drop(f)
    PROVE  FoldersTypeOK' /\ PathsAreTrue'
<1> USE DEF PathsInv
<1>1. /\ DOMAIN folder' = DOMAIN folder \ Within(f)
      /\ \A g \in DOMAIN folder' : folder'[g] = folder[g]
      /\ UNCHANGED freshFolders
  BY DEF Drop, RemoveFolders, Within
<1>2. FoldersTypeOK'
  BY <1>1 DEF FoldersTypeOK
<1>3. ASSUME NEW g \in DOMAIN folder'
      PROVE  folder[g].parent \in DOMAIN folder => folder[g].parent \in DOMAIN folder'
  BY <1>1, ChildrenGo DEF Exists
<1>4. PathsAreTrue'
  BY <1>1, <1>3 DEF PathsAreTrue, BuildPath
<1> QED BY <1>2, <1>4

\* Every step keeps the paths true.
LEMMA PathsNext == PathsInv /\ [Next]_vars => PathsInv'
<1> SUFFICES ASSUME PathsInv, [Next]_vars
             PROVE  PathsInv'
  OBVIOUS
<1>1. TreeInv'
  BY TreeNext DEF PathsInv
<1>2. CASE UNCHANGED tree
  BY <1>1, <1>2 DEF tree, PathsInv, FoldersTypeOK, PathsAreTrue, BuildPath
<1>3. CASE \E f \in Folders, n \in Names, p \in Folders \cup Roots :
             CreateFolder(f, n, p) \/ UpdateFolder(f, n, p)
  BY <1>1, <1>3, CreateKeepsPaths, UpdateKeepsPaths DEF PathsInv
<1>4. CASE \E f \in Folders : Exists(f) /\ Drop(f)
  BY <1>1, <1>4, DropKeepsPaths DEF PathsInv
<1> QED BY <1>2, <1>3, <1>4, TreeSteps

\* There are no paths at first.
LEMMA PathsInit == Init => PathsInv
  BY TreeInit, MediaAssumption DEF Init, PathsInv, FoldersTypeOK, PathsAreTrue

\* However often and however deep folders are renamed and moved, the path kept
\* with each is the one its name and its parents' spell.
THEOREM PathsStayTrue == Spec => []PathsAreTrue
<1>1. PathsInv => PathsAreTrue
  BY DEF PathsInv
<1> QED BY PathsInit, PathsNext, <1>1, PTL DEF Spec

-----------------------------------------------------------------------------
(* References and deletions. *)

PCs == {"idle", "folder", "put", "head", "create", "close", "update", "scan",
        "remove", "blob", "emit", "done", "refused", "failed"}

RequestsOK == req \in [Requests -> RequestType]

RowsOK == /\ DOMAIN media \subseteq Requests
          /\ \A m \in DOMAIN media :
               media[m] \in [key : Keys \cup {NoMedia}, folder : Folders \cup Roots]

\* What a DELETE knows of the records that have referred to its asset all
\* along: it has seen those in the collections behind it, and goes on to
\* delete the row only if there are none.
Seeing(r) == /\ req[r].key = NoMedia
             /\ \A d \in req[r].kept : refs[d] = req[r].target
             /\ \A d \in req[r].kept : d < req[r].at => d \in req[r].found

Stopped(r) == req[r].key = NoMedia /\ req[r].pc \in {"refused", "failed"}

KeptInv(r) == req[r].kind = "delete" =>
                \/ req[r].pc = "scan" /\ Seeing(r)
                \/ req[r].pc \in {"remove", "blob", "emit", "done", "refused", "failed"} /\ req[r].kept = {}
                \/ Stopped(r)

RequestsInv == /\ RequestsOK /\ RowsOK
               /\ refs \in [Docs -> Requests \cup {NoMedia}]
               /\ \A r \in Requests : KeptInv(r)

\* No request has begun at first.
LEMMA RequestsInit == Init => RequestsInv
<1> SUFFICES ASSUME Init PROVE RequestsInv
  OBVIOUS
<1>1. Idle \in RequestType
  BY MediaAssumption DEF Idle, Request, RequestType, Roots
<1>2. RequestsOK /\ RowsOK /\ refs \in [Docs -> Requests \cup {NoMedia}]
  BY <1>1 DEF Init, RequestsOK, RowsOK
<1>3. \A r \in Requests : KeptInv(r)
  BY DEF Init, KeptInv, Idle, Request
<1> QED BY <1>2, <1>3 DEF RequestsInv

\* Moving one request on changes nothing else of it, and no other request.
LEMMA GoChanges ==
    ASSUME RequestsOK, NEW r \in Requests, NEW pc \in PCs, Go(r, pc)
    PROVE  /\ RequestsOK'
           /\ req'[r].pc = pc
           /\ \A q \in Requests \ {r} : req'[q] = req[q]
           /\ req'[r].kind = req[r].kind /\ req'[r].key = req[r].key
           /\ req'[r].target = req[r].target /\ req'[r].at = req[r].at
           /\ req'[r].found = req[r].found /\ req'[r].kept = req[r].kept
<1>1. /\ req[r] \in RequestType
      /\ req' = [req EXCEPT ![r] = [req[r] EXCEPT !.pc = pc]]
  BY DEF Go, RequestsOK
<1>2. [req[r] EXCEPT !.pc = pc] \in RequestType
  BY <1>1 DEF RequestType, PCs
<1> QED BY <1>1, <1>2 DEF RequestsOK, RequestType

\* A request that is no DELETE, or one that is past its scan, moves on.
LEMMA GoKeeps ==
    ASSUME RequestsInv, UNCHANGED refs, RowsOK',
           NEW r \in Requests, NEW pc \in PCs, Go(r, pc),
           req[r].kind = "delete" =>
             \/ pc \in {"refused", "failed"}
             \/ pc \in {"remove", "blob", "emit", "done"} /\ req[r].kept = {}
    PROVE  RequestsInv'
<1>1. /\ RequestsOK'
      /\ req'[r].pc = pc
      /\ \A q \in Requests \ {r} : req'[q] = req[q]
      /\ req'[r].kind = req[r].kind /\ req'[r].key = req[r].key
      /\ req'[r].target = req[r].target /\ req'[r].at = req[r].at
      /\ req'[r].found = req[r].found /\ req'[r].kept = req[r].kept
  BY GoChanges DEF RequestsInv
<1>2. \A q \in Requests \ {r} : KeptInv(q)'
  BY <1>1 DEF RequestsInv, KeptInv, Seeing, Stopped
<1>3. KeptInv(r)'
  BY <1>1 DEF RequestsInv, KeptInv, Seeing, Stopped
<1> QED BY <1>1, <1>2, <1>3 DEF RequestsInv

\* A request that begins is no DELETE, or is one that has seen nothing yet.
LEMMA StartKeeps ==
    ASSUME RequestsInv, UNCHANGED <<media, refs>>,
           NEW r \in Requests, NEW how \in RequestType, Starts(r, how),
           how.kind = "delete" =>
             /\ how.pc = "scan" /\ how.key = NoMedia /\ how.at = 1
             /\ how.kept = {d \in Docs : refs[d] = how.target}
    PROVE  RequestsInv'
<1>1. req' = [req EXCEPT ![r] = how] /\ req'[r] = how
  BY DEF Starts, RequestsInv, RequestsOK
<1>2. RequestsOK' /\ RowsOK'
  BY <1>1 DEF RequestsInv, RequestsOK, RowsOK
<1>3. \A q \in Requests \ {r} : KeptInv(q)'
  BY <1>1 DEF RequestsInv, RequestsOK, KeptInv, Seeing, Stopped
<1>4. ASSUME how.kind = "delete" PROVE Seeing(r)'
  BY <1>1, <1>4, MediaAssumption DEF Seeing, Docs
<1>5. KeptInv(r)'
  BY <1>1, <1>4 DEF KeptInv
<1> QED BY <1>2, <1>3, <1>5 DEF RequestsInv

\* The requests for uploads and edits are no DELETEs.
LEMMA NoDeleteKeeps ==
    ASSUME RequestsInv, NEW r \in Requests,
           UploadStep(r) \/ CheckFolder(r) \/ Update(r)
    PROVE  RequestsInv'
<1>1. req[r] \in RequestType
  BY DEF RequestsInv, RequestsOK
<1>2. req[r].pc \in {"folder", "put", "head", "create", "close", "update"} => req[r].kind # "delete"
  BY DEF RequestsInv, KeptInv, Stopped
<1>3. ASSUME NEW f \in Folders \cup {Null}, Upload(r, f) PROVE RequestsInv'
  <2> DEFINE pc == IF f = Null THEN "put" ELSE "folder"
             how == Request("upload", pc, f, r, NoMedia, {})
  <2>1. how \in RequestType /\ how.kind = "upload"
    BY MediaAssumption DEF Request, RequestType, Roots, Keys
  <2>2. Starts(r, how) /\ UNCHANGED <<media, refs>>
    BY <1>3 DEF Upload
  <2> HIDE DEF how
  <2> QED BY <2>1, <2>2, StartKeeps
<1>4. ASSUME NEW k \in Presigns, NEW f \in Folders \cup Roots, Confirm(r, k, f) PROVE RequestsInv'
  <2> DEFINE pc == IF f \in Roots THEN "head" ELSE "folder"
             how == Request("confirm", pc, f, k, NoMedia, {})
  <2>1. how \in RequestType /\ how.kind = "confirm"
    BY MediaAssumption DEF Request, RequestType, Roots, Keys
  <2>2. Starts(r, how) /\ UNCHANGED <<media, refs>>
    BY <1>4 DEF Confirm
  <2> HIDE DEF how
  <2> QED BY <2>1, <2>2, StartKeeps
<1>5. CASE Put(r)
  <2>1. Go(r, "create") /\ UNCHANGED <<media, refs>> /\ req[r].kind # "delete"
    BY <1>2, <1>5 DEF Put
  <2> QED BY <2>1, GoKeeps DEF PCs, RequestsInv, RowsOK
<1>6. CASE ReadObject(r)
  <2>1. PICK pc \in {"create", "refused"} : Go(r, pc)
    BY <1>6 DEF ReadObject
  <2>2. UNCHANGED <<media, refs>> /\ req[r].kind # "delete"
    BY <1>2, <1>6 DEF ReadObject
  <2> QED BY <2>1, <2>2, GoKeeps DEF PCs, RequestsInv, RowsOK
<1>7. CASE CreateRow(r)
  <2>1. PICK pc \in {"close", "emit"} : Go(r, pc)
    BY <1>7 DEF CreateRow
  <2>2. UNCHANGED refs /\ req[r].kind # "delete"
    BY <1>2, <1>7 DEF CreateRow
  <2>3. RowsOK'
    BY <1>1, <1>7 DEF CreateRow, RequestsInv, RowsOK, RequestType
  <2> QED BY <2>1, <2>2, <2>3, GoKeeps DEF PCs
<1>8. CASE CloseSession(r)
  <2>1. Go(r, "emit") /\ UNCHANGED <<media, refs>> /\ req[r].kind # "delete"
    BY <1>2, <1>8 DEF CloseSession
  <2> QED BY <2>1, GoKeeps DEF PCs, RequestsInv, RowsOK
<1>9. CASE CheckFolder(r)
  <2>1. PICK pc \in {"put", "head", "update", "refused"} : Go(r, pc)
    BY <1>9 DEF CheckFolder, AfterFolder
  <2>2. UNCHANGED <<media, refs>> /\ req[r].kind # "delete"
    BY <1>2, <1>9 DEF CheckFolder
  <2> QED BY <2>1, <2>2, GoKeeps DEF PCs, RequestsInv, RowsOK
<1>10. CASE Update(r)
  <2>1. PICK pc \in {"done", "refused"} : Go(r, pc)
    BY <1>10 DEF Update
  <2>2. UNCHANGED refs /\ req[r].kind # "delete"
    BY <1>2, <1>10 DEF Update
  <2>3. RowsOK'
    BY <1>1, <1>10 DEF Update, RequestsInv, RowsOK, RequestType
  <2> QED BY <2>1, <2>2, <2>3, GoKeeps DEF PCs
<1> QED BY <1>3, <1>4, <1>5, <1>6, <1>7, <1>8, <1>9, <1>10 DEF UploadStep

\* A PATCH or a DELETE begins.
LEMMA EditStarts ==
    ASSUME RequestsInv, NEW r \in Requests, EditStep(r)
    PROVE  RequestsInv'
<1>1. PICK m \in Requests : Delete(r, m) \/ \E f \in Folders \cup {Null} : Patch(r, m, f)
  BY DEF EditStep, Seen
<1>2. ASSUME NEW f \in Folders \cup {Null}, Patch(r, m, f) PROVE RequestsInv'
  <2> DEFINE pc == IF f = Null THEN "update" ELSE "folder"
             how == Request("patch", pc, f, NoMedia, m, {})
  <2>1. how \in RequestType /\ how.kind = "patch"
    BY MediaAssumption DEF Request, RequestType, Roots, Keys
  <2>2. Starts(r, how) /\ UNCHANGED <<media, refs>>
    BY <1>2 DEF Patch
  <2> HIDE DEF how
  <2> QED BY <2>1, <2>2, StartKeeps
<1>3. CASE Delete(r, m)
  <2> DEFINE how == Request("delete", "scan", Null, NoMedia, m, {d \in Docs : refs[d] = m})
  <2>1. /\ how \in RequestType /\ how.pc = "scan" /\ how.key = NoMedia /\ how.at = 1
        /\ how.kept = {d \in Docs : refs[d] = how.target}
    BY MediaAssumption DEF Request, RequestType, Roots, Keys
  <2>2. Starts(r, how) /\ UNCHANGED <<media, refs>>
    BY <1>3 DEF Delete
  <2> HIDE DEF how
  <2> QED BY <2>1, <2>2, StartKeeps
<1> QED BY <1>1, <1>2, <1>3

\* The scan moves on past a collection once it has noted what it gave.
LEMMA ScanKeeps ==
    ASSUME RequestsInv, NEW r \in Requests, Scan(r)
    PROVE  RequestsInv'
<1> DEFINE d == req[r].at
           seen == req[r].found \cup {e \in {d} : refs[e] = req[r].target}
           new == [req[r] EXCEPT !.found = seen, !.at = d + 1]
<1>1. req[r] \in RequestType /\ d \in Docs /\ req[r].pc = "scan"
  BY DEF RequestsInv, RequestsOK, Scan
<1>2. req' = [req EXCEPT ![r] = new] /\ UNCHANGED <<media, refs>>
  BY DEF Scan
<1>3. /\ new \in RequestType
      /\ new.kind = req[r].kind /\ new.pc = "scan" /\ new.key = req[r].key
      /\ new.target = req[r].target /\ new.kept = req[r].kept /\ new.at = d + 1
      /\ new.found = seen
  <2>1. seen \in SUBSET Docs /\ d + 1 \in 1..(Collections + 1)
    BY <1>1, MediaAssumption DEF RequestType, Docs
  <2> HIDE DEF seen, d
  <2> QED BY <1>1, <2>1 DEF RequestType
<1> HIDE DEF new
<1>4. RequestsOK' /\ req'[r] = new /\ \A q \in Requests \ {r} : req'[q] = req[q]
  BY <1>2, <1>3 DEF RequestsInv, RequestsOK
<1>5. \A q \in Requests \ {r} : KeptInv(q)'
  BY <1>2, <1>4 DEF RequestsInv, KeptInv, Seeing, Stopped
<1>6. ASSUME req[r].kind = "delete" PROVE Seeing(r)'
  <2>1. Seeing(r)
    BY <1>1, <1>6 DEF RequestsInv, KeptInv, Stopped
  <2>2. \A e \in req[r].kept : e \in Int /\ refs[e] = req[r].target
    BY <1>1, <2>1, MediaAssumption DEF Seeing, RequestType, Docs
  <2>3. ASSUME NEW e \in req[r].kept, e < d + 1 PROVE e \in new.found
    <3>1. e < d \/ e = d
      BY <1>1, <2>2, <2>3, MediaAssumption DEF Docs
    <3> QED BY <1>3, <2>1, <2>2, <3>1 DEF Seeing
  <2> QED BY <1>2, <1>3, <1>4, <2>1, <2>3 DEF Seeing
<1>7. KeptInv(r)'
  BY <1>3, <1>4, <1>6 DEF KeptInv
<1> QED BY <1>2, <1>4, <1>5, <1>7 DEF RequestsInv, RowsOK

\* At its end every collection lies behind the scan: if none gave anything, no
\* record can have referred to the asset all along.
LEMMA EndScanKeeps ==
    ASSUME RequestsInv, NEW r \in Requests, EndScan(r)
    PROVE  RequestsInv'
<1>1. /\ req[r] \in RequestType /\ req[r].pc = "scan" /\ req[r].at \notin Docs
      /\ UNCHANGED <<media, refs>>
  BY DEF RequestsInv, RequestsOK, EndScan
<1>2. CASE req[r].found # {}
  <2>1. Go(r, "refused")
    BY <1>2 DEF EndScan
  <2> QED BY <1>1, <2>1, GoKeeps DEF PCs, RequestsInv, RowsOK
<1>3. CASE req[r].found = {}
  <2>1. Go(r, "remove")
    BY <1>3 DEF EndScan
  <2>2. ASSUME req[r].kind = "delete" PROVE req[r].kept = {}
    <3>1. Seeing(r)
      BY <1>1, <2>2 DEF RequestsInv, KeptInv, Stopped
    <3>2. \A d \in req[r].kept : d < req[r].at
      BY <1>1, MediaAssumption DEF RequestType, Docs
    <3> QED BY <1>3, <3>1, <3>2 DEF Seeing
  <2> QED BY <1>1, <2>1, <2>2, GoKeeps DEF PCs, RequestsInv, RowsOK
<1> QED BY <1>2, <1>3

\* The removal of the row a DELETE is for.
LEMMA RemoveRowKeeps ==
    ASSUME RequestsInv, NEW r \in Requests, RemoveRow(r)
    PROVE  RequestsInv'
<1> DEFINE m == req[r].target
           pc == IF m \in DOMAIN media THEN "blob" ELSE "done"
           key == IF m \in DOMAIN media THEN media[m].key ELSE NoMedia
           new == [req[r] EXCEPT !.pc = pc, !.key = key]
<1>1. req[r] \in RequestType /\ req[r].pc = "remove"
  BY DEF RequestsInv, RequestsOK, RemoveRow
<1>2. /\ req' = [req EXCEPT ![r] = new] /\ UNCHANGED refs
      /\ media' = [n \in DOMAIN media \ {m} |-> media[n]]
  BY DEF RemoveRow
<1>3. pc \in {"blob", "done"} /\ key \in Keys \cup {NoMedia}
  BY DEF RequestsInv, RowsOK
<1> HIDE DEF pc, key
<1>4. new \in RequestType /\ new.pc = pc /\ new.kind = req[r].kind /\ new.kept = req[r].kept
  BY <1>1, <1>3 DEF RequestType
<1> HIDE DEF new
<1>5. RequestsOK' /\ req'[r] = new /\ \A q \in Requests \ {r} : req'[q] = req[q]
  BY <1>2, <1>4 DEF RequestsInv, RequestsOK
<1>6. RowsOK'
  BY <1>2 DEF RequestsInv, RowsOK
<1>7. \A q \in Requests \ {r} : KeptInv(q)'
  BY <1>2, <1>5 DEF RequestsInv, KeptInv, Seeing, Stopped
<1>8. KeptInv(r)'
  BY <1>1, <1>3, <1>4, <1>5 DEF RequestsInv, KeptInv, Stopped
<1> QED BY <1>2, <1>5, <1>6, <1>7, <1>8 DEF RequestsInv

\* The last steps of a DELETE touch no row and no reference.
LEMMA DeleteEnds ==
    ASSUME RequestsInv, NEW r \in Requests, DeleteBlob(r) \/ Emitted(r) \/ Fail(r)
    PROVE  RequestsInv'
<1>1. UNCHANGED <<media, refs>>
  BY DEF DeleteBlob, Emitted, Fail
<1>2. RowsOK'
  BY <1>1 DEF RequestsInv, RowsOK
<1>3. CASE DeleteBlob(r)
  <2>1. Go(r, "emit") /\ (req[r].kind = "delete" => req[r].kept = {})
    BY <1>3 DEF DeleteBlob, RequestsInv, KeptInv, Stopped
  <2> QED BY <1>1, <1>2, <2>1, GoKeeps DEF PCs
<1>4. CASE Emitted(r)
  <2>1. Go(r, "done") /\ (req[r].kind = "delete" => req[r].kept = {})
    BY <1>4 DEF Emitted, RequestsInv, KeptInv, Stopped
  <2> QED BY <1>1, <1>2, <2>1, GoKeeps DEF PCs
<1>5. CASE Fail(r)
  BY <1>1, <1>2, <1>5, GoKeeps DEF Fail, PCs
<1> QED BY <1>3, <1>4, <1>5

\* Writing a record ends its having referred to an asset all along, unless it
\* is written with the same asset.
LEMMA WriteRefKeeps ==
    ASSUME RequestsInv, NEW d \in Docs, NEW m \in Requests \cup {NoMedia}, WriteRef(d, m)
    PROVE  RequestsInv'
<1>1. UNCHANGED media /\ refs' = [refs EXCEPT ![d] = m]
  BY DEF WriteRef
<1>2. RowsOK' /\ refs' \in [Docs -> Requests \cup {NoMedia}]
  BY <1>1 DEF RequestsInv, RowsOK
<1>3. ASSUME NEW r \in Requests PROVE req'[r] \in RequestType /\ KeptInv(r)'
  <2>1. req[r] \in RequestType
    BY DEF RequestsInv, RequestsOK
  <2>2. CASE req[r].pc \in {"scan", "remove"} /\ req[r].target # m
    <3> DEFINE new == [req[r] EXCEPT !.kept = @ \ {d}]
    <3>1. req'[r] = new
      BY <2>2 DEF WriteRef
    <3>2. /\ new \in RequestType /\ new.kept = req[r].kept \ {d}
          /\ new.kind = req[r].kind /\ new.pc = req[r].pc /\ new.key = req[r].key
          /\ new.target = req[r].target /\ new.at = req[r].at /\ new.found = req[r].found
      BY <2>1 DEF RequestType
    <3> HIDE DEF new
    <3>3. \A e \in new.kept : refs'[e] = refs[e]
      BY <1>1, <2>1, <3>2 DEF RequestsInv, RequestType
    <3>4. KeptInv(r)'
      BY <3>1, <3>2, <3>3 DEF RequestsInv, KeptInv, Seeing, Stopped
    <3> QED BY <3>1, <3>2, <3>4
  <2>3. CASE ~(req[r].pc \in {"scan", "remove"} /\ req[r].target # m)
    <3>1. req'[r] = req[r]
      BY <2>3 DEF WriteRef
    <3>2. ASSUME req[r].pc = "scan", Seeing(r) PROVE Seeing(r)'
      BY <1>1, <2>1, <2>3, <3>1, <3>2 DEF RequestsInv, Seeing, RequestType
    <3>3. KeptInv(r)'
      BY <3>1, <3>2 DEF RequestsInv, KeptInv, Stopped
    <3> QED BY <2>1, <3>1, <3>3
  <2> QED BY <2>2, <2>3
<1>4. RequestsOK'
  BY <1>3 DEF WriteRef, RequestsOK
<1> QED BY <1>2, <1>3, <1>4 DEF RequestsInv

\* A step that moves no request and writes no reference.
LEMMA NoRequestKeeps ==
    ASSUME RequestsInv, UNCHANGED <<refs, req>>, RowsOK'
    PROVE  RequestsInv'
  BY DEF RequestsInv, RequestsOK, KeptInv, Seeing, Stopped

\* The folder routes move no request of the library.
LEMMA FolderStepKeeps ==
    ASSUME RequestsInv, FolderStep
    PROVE  RequestsInv'
<1>1. UNCHANGED <<refs, req>>
  BY DEF FolderStep, MakeFolder, EditFolder, DeleteEmptyFolder, ForceDeleteFolder
<1>2. CASE UNCHANGED media
  BY <1>1, <1>2, NoRequestKeeps DEF RequestsInv, RowsOK
<1>3. ASSUME NEW f \in Folders, ForceDeleteFolder(f) PROVE RowsOK'
  BY <1>3 DEF ForceDeleteFolder, RequestsInv, RowsOK, Roots
<1> QED BY <1>1, <1>2, <1>3, NoRequestKeeps
        DEF FolderStep, MakeFolder, EditFolder, DeleteEmptyFolder

\* Every step keeps what the requests know true.
LEMMA RequestsNext == RequestsInv /\ [Next]_vars => RequestsInv'
<1> SUFFICES ASSUME RequestsInv, [Next]_vars
             PROVE  RequestsInv'
  OBVIOUS
<1>1. CASE UNCHANGED vars
  BY <1>1, NoRequestKeeps DEF vars, RequestsInv, RowsOK
<1>2. CASE FolderStep
  BY <1>2, FolderStepKeeps
<1>3. CASE \E k \in Presigns : Presign(k) \/ ClientPuts(k) \/ Expire(k)
  <2>1. UNCHANGED <<media, refs, req>>
    BY <1>3 DEF Presign, ClientPuts, Expire
  <2> QED BY <2>1, NoRequestKeeps DEF RequestsInv, RowsOK
<1>4. CASE \E r \in Requests : UploadStep(r) \/ CheckFolder(r) \/ Update(r)
  BY <1>4, NoDeleteKeeps
<1>5. CASE \E r \in Requests : EditStep(r)
  BY <1>5, EditStarts
<1>6. CASE \E r \in Requests : Scan(r) \/ EndScan(r) \/ RemoveRow(r)
  BY <1>6, ScanKeeps, EndScanKeeps, RemoveRowKeeps
<1>7. CASE \E r \in Requests : DeleteBlob(r) \/ Emitted(r) \/ Fail(r)
  BY <1>7, DeleteEnds
<1>8. CASE \E d \in Docs, m \in Requests \cup {NoMedia} : WriteRef(d, m)
  BY <1>8, WriteRefKeeps
<1> QED BY <1>1, <1>2, <1>3, <1>4, <1>5, <1>6, <1>7, <1>8 DEF Next

\* Whatever is written while DELETE looks through the collections, it deletes
\* no row that a record has referred to ever since the request began.
THEOREM ReferencesAreSeen == Spec => []InUseIsKept
<1>1. RequestsInv => InUseIsKept
  BY DEF RequestsInv, KeptInv, Seeing, Stopped, InUseIsKept
<1> QED BY RequestsInit, RequestsNext, <1>1, PTL DEF Spec

\* When a folder goes, forced or empty, no asset names it or a folder below it.
THEOREM DeletedFoldersAreEmpty == Spec => NothingLeftInDeletedFolder
<1>1. RequestsInv /\ TreeInv /\ [Next]_vars =>
        [\A f \in DOMAIN folder \ DOMAIN folder' : \A m \in DOMAIN media' : media'[m].folder # f]_vars
  <2> SUFFICES ASSUME RequestsInv, TreeInv, Next,
                      NEW f \in DOMAIN folder \ DOMAIN folder', NEW m \in DOMAIN media'
               PROVE  media'[m].folder # f
    OBVIOUS
  <2>1. DOMAIN folder' # DOMAIN folder
    OBVIOUS
  <2>2. FolderStep
    BY <2>1 DEF Next, tree, Presign, ClientPuts, Expire, UploadStep, EditStep, Upload, Confirm,
                Put, ReadObject, CreateRow, CloseSession, Patch, Delete, CheckFolder, Update,
                Scan, EndScan, RemoveRow, DeleteBlob, Emitted, Fail, WriteRef
  <2>3. PICK g \in Folders : DeleteEmptyFolder(g) \/ ForceDeleteFolder(g)
    BY <2>2 DEF FolderStep, MakeFolder, EditFolder, CreateFolder, UpdateFolder
  <2>4. CASE DeleteEmptyFolder(g)
    BY <2>4 DEF DeleteEmptyFolder, RemoveFolders, FiledIn
  <2>5. CASE ForceDeleteFolder(g)
    <3>1. f \in Within(g)
      BY <2>5 DEF ForceDeleteFolder, RemoveFolders
    <3>2. media[m] \in [key : Keys \cup {NoMedia}, folder : Folders \cup Roots] /\ m \in DOMAIN media
      BY <2>5 DEF ForceDeleteFolder, RequestsInv, RowsOK
    <3>3. f \in Folders
      BY DEF TreeInv, IdsOK
    <3>4. CASE media[m].folder \in Within(g)
      BY <2>5, <3>2, <3>3, <3>4, FoldersAssumption DEF ForceDeleteFolder, FiledIn
    <3>5. CASE media[m].folder \notin Within(g)
      BY <2>5, <3>1, <3>2, <3>5 DEF ForceDeleteFolder, FiledIn
    <3> QED BY <3>4, <3>5
  <2> QED BY <2>3, <2>4, <2>5
<1> QED BY TreeInit, TreeNext, RequestsInit, RequestsNext, <1>1, PTL
        DEF Spec, NothingLeftInDeletedFolder

-----------------------------------------------------------------------------
(* Rows, blobs and the requests between them. *)

Written(r) == req[r].pc \in {"close", "emit", "done", "failed"}
Makes(r) == req[r].kind \in {"upload", "confirm"}
RowKeys == {media[m].key : m \in DOMAIN media}

\* Which key a request has at which of its steps.
KeyIsItsOwn(r) ==
    /\ r \in freshRequests => req[r].kind = "none"
    /\ req[r].kind = "none" => req[r].pc = "idle"
    /\ req[r].kind \in {"none", "patch"} => req[r].key = NoMedia
    /\ req[r].kind = "upload" => req[r].key = r
    /\ req[r].kind = "confirm" => req[r].key \in Presigns
    /\ req[r].pc = "put" => req[r].kind = "upload"
    /\ req[r].pc = "head" => req[r].kind = "confirm"
    /\ req[r].pc = "update" => req[r].kind = "patch"
    /\ req[r].pc \in {"create", "close"} => Makes(r)
    /\ req[r].pc = "folder" => req[r].kind # "delete"
    /\ req[r].pc \in {"scan", "remove"} => req[r].kind = "delete" /\ req[r].key = NoMedia
    /\ req[r].pc = "blob" => req[r].kind = "delete" /\ req[r].key # NoMedia

RowIsItsRequests(m) == Makes(m) /\ Written(m) /\ media[m].key = req[m].key

\* A DELETE that has a key has deleted the row, which never returns, and after
\* its next step the blob as well.
RowIsGone(r) ==
    req[r].kind = "delete" /\ req[r].key # NoMedia =>
      LET q == req[r].target IN
      /\ q \in Requests \ DOMAIN media /\ Makes(q) /\ Written(q) /\ req[q].key = req[r].key
      /\ req[r].pc \in {"blob", "emit", "done", "failed"}
      /\ req[r].pc \in {"emit", "done"} => req[r].key \notin blobs

\* Nothing is created from an upload before the client has sent it.
NotSentYet(k) ==
    presigned[k] # "sent" =>
      /\ k \notin blobs \cup RowKeys
      /\ \A r \in Requests :
           req[r].key = k =>
             req[r].kind = "confirm" /\ req[r].pc \in {"folder", "head", "refused", "failed"}

\* The blob of m's row is gone with the row of another that had confirmed it.
Wiped(m, k) ==
    \E q, r \in Requests :
      /\ q # m /\ q \notin DOMAIN media
      /\ req[q].kind = "confirm" /\ req[q].key = k
      /\ req[r].kind = "delete" /\ req[r].target = q /\ req[r].key = k

Stored(m, k) == k \in blobs \/ Wiped(m, k)

RowIsStored(m) == Stored(m, media[m].key)

CreatesStored(r) == req[r].pc = "create" => Stored(r, req[r].key)

UnderWay(k) == \E r \in Requests : req[r].key = k /\ req[r].pc \in {"create", "blob", "failed"}

\* What a request has published has a row, or has been deleted since, or is
\* between the two.
Published(r) ==
    Makes(r) /\ req[r].pc \in {"close", "emit", "done"} =>
      req[r].key \in RowKeys \/ req[r].key \notin blobs \/ UnderWay(req[r].key)

RequestOK(r) == KeyIsItsOwn(r) /\ RowIsGone(r) /\ Published(r) /\ CreatesStored(r)

Explained(k) ==
    \/ k \in Presigns /\ ~\E r \in Requests : req[r].key = k /\ req[r].pc = "done"
    \/ UnderWay(k)

StoresOK == /\ blobs \subseteq Keys
            /\ sessions \subseteq Presigns
            /\ presigned \in [Presigns -> {"none", "issued", "sent"}]
            /\ freshRequests \subseteq Requests
            /\ edited \subseteq Docs

BlobsInv == /\ StoresOK
            /\ \A r \in Requests : RequestOK(r)
            /\ \A m \in DOMAIN media : RowIsItsRequests(m) /\ RowIsStored(m)
            /\ \A k \in Presigns : NotSentYet(k)
            /\ \A k \in blobs \ RowKeys : Explained(k)

\* The stores are as they were, and the rows but for their folders.
StoresStay == /\ UNCHANGED <<blobs, presigned>>
              /\ DOMAIN media' = DOMAIN media
              /\ \A m \in DOMAIN media : media'[m].key = media[m].key

\* What the invariant looks at in a request is as it was.
Stays(q) == /\ req'[q].kind = req[q].kind /\ req'[q].key = req[q].key
            /\ req'[q].target = req[q].target /\ req'[q].pc = req[q].pc

\* The stores are empty at first.
LEMMA BlobsInit == Init => BlobsInv
<1> SUFFICES ASSUME Init PROVE BlobsInv
  OBVIOUS
<1>1. StoresOK
  BY MediaAssumption DEF Init, StoresOK
<1>2. \A r \in Requests : /\ req[r].kind = "none" /\ req[r].pc = "idle" /\ req[r].key = NoMedia
                          /\ r \notin Presigns
  BY MediaAssumption DEF Init, Idle, Request
<1>3. DOMAIN media = {} /\ blobs = {}
  BY DEF Init
<1>4. \A r \in Requests : RequestOK(r)
  BY <1>2 DEF RequestOK, KeyIsItsOwn, RowIsGone, Published, CreatesStored, Makes
<1>5. \A k \in Presigns : NotSentYet(k)
  BY <1>2, <1>3, MediaAssumption DEF NotSentYet, Keys, RowKeys
<1> QED BY <1>1, <1>2, <1>3, <1>4, <1>5 DEF BlobsInv

\* The keys of the rows, and what is said of them, stay where the stores do.
LEMMA RowKeysStay == StoresStay => RowKeys' = RowKeys
  BY DEF StoresStay, RowKeys

\* A row, or the key a request is about to give to one, in a step's next state.
LEMMA RowStoredNext ==
    ASSUME NEW m, NEW k, Stored(m, k)', media'[m].key = k
    PROVE  RowIsStored(m)'
  BY DEF RowIsStored, Stored, Wiped

\* A request about to create its row, in a step's next state.
LEMMA CreatesStoredNext ==
    ASSUME NEW m, NEW k, req'[m].pc = "create" => Stored(m, k)', req'[m].key = k
    PROVE  CreatesStored(m)'
  BY DEF CreatesStored, Stored, Wiped

\* Steps that neither the stores nor the requests' progress shows.
LEMMA NothingMoves ==
    ASSUME RequestsInv, BlobsInv, StoresOK', StoresStay, UNCHANGED freshRequests,
           \A q \in Requests : Stays(q)
    PROVE  BlobsInv'
<1>1. RowKeys' = RowKeys
  BY RowKeysStay
<1>2. \A k : UnderWay(k)' <=> UnderWay(k)
  BY DEF Stays, UnderWay
<1>3. \A m, k : Stored(m, k)' <=> Stored(m, k)
  BY DEF Stays, StoresStay, Stored, Wiped
<1>4. ASSUME NEW r \in Requests PROVE RequestOK(r)'
  <2>1. KeyIsItsOwn(r)'
    BY DEF BlobsInv, RequestOK, Stays, KeyIsItsOwn, Makes
  <2>2. RowIsGone(r)'
    BY DEF BlobsInv, RequestOK, Stays, StoresStay, RowIsGone, Makes, Written
  <2>3. Published(r)'
    BY <1>1, <1>2 DEF BlobsInv, RequestOK, Stays, StoresStay, Published, Makes
  <2>4. CreatesStored(r)'
    <3> PICK k : k = req[r].key
      OBVIOUS
    <3>1. req[r].pc = "create" => Stored(r, k)'
      BY <1>3 DEF BlobsInv, RequestOK, CreatesStored
    <3> QED BY <3>1, CreatesStoredNext DEF Stays
  <2> QED BY <2>1, <2>2, <2>3, <2>4 DEF RequestOK
<1>5. ASSUME NEW m \in DOMAIN media' PROVE RowIsItsRequests(m)' /\ RowIsStored(m)'
  <2>1. m \in DOMAIN media /\ media'[m].key = media[m].key /\ m \in Requests
    BY DEF StoresStay, RequestsInv, RowsOK
  <2>2. RowIsItsRequests(m)'
    BY <2>1 DEF BlobsInv, Stays, RowIsItsRequests, Makes, Written
  <2>3. RowIsStored(m)'
    <3> PICK k : k = media[m].key
      OBVIOUS
    <3>1. Stored(m, k)'
      BY <2>1, <1>3 DEF BlobsInv, RowIsStored
    <3> QED BY <2>1, <3>1, RowStoredNext
  <2> QED BY <2>2, <2>3
<1>6. ASSUME NEW k \in Presigns PROVE NotSentYet(k)'
  BY <1>1 DEF BlobsInv, Stays, StoresStay, NotSentYet
<1>7. ASSUME NEW k \in blobs' \ RowKeys' PROVE Explained(k)'
  <2>1. k \in blobs \ RowKeys
    BY <1>1 DEF StoresStay
  <2> QED BY <2>1, <1>2 DEF BlobsInv, Stays, Explained
<1> QED BY <1>4, <1>5, <1>6, <1>7 DEF BlobsInv

\* A request begins, with a key of its own and nothing stored or deleted yet.
LEMMA BeginKeepsBlobs ==
    ASSUME RequestsInv, RequestsOK', BlobsInv, StoresOK', StoresStay, NEW r \in Requests,
           req[r].kind = "none", freshRequests' \subseteq freshRequests,
           \A q \in Requests \ {r} : Stays(q),
           KeyIsItsOwn(r)', req'[r].pc \in {"folder", "put", "head", "update", "scan"}
    PROVE  BlobsInv'
<1>1. RowKeys' = RowKeys
  BY RowKeysStay
<1>2. req[r].pc = "idle" /\ req[r].key = NoMedia
  BY DEF BlobsInv, RequestOK, KeyIsItsOwn
<1>3. \A k : UnderWay(k)' <=> UnderWay(k)
  BY <1>2 DEF Stays, UnderWay
<1>4. ASSUME NEW m, NEW k, Stored(m, k) PROVE Stored(m, k)'
  BY <1>4 DEF Stays, StoresStay, Stored, Wiped
<1>5. /\ Published(r)'
      /\ req'[r].kind = "delete" => req'[r].key = NoMedia
      /\ req'[r].pc # "create" /\ req'[r].pc # "done"
      /\ req'[r].key \in Presigns =>
           req'[r].kind = "confirm" /\ req'[r].pc \in {"folder", "head"}
  <2>1. req'[r] \in RequestType /\ NoMedia \notin Presigns /\ r \notin Presigns
    BY MediaAssumption DEF RequestsInv, RequestsOK, Keys
  <2>2. req'[r].kind = "delete" => req'[r].key = NoMedia
    BY DEF KeyIsItsOwn, Makes
  <2>3. Published(r)' /\ req'[r].pc # "create" /\ req'[r].pc # "done"
    BY DEF Published
  <2>4. req'[r].key \in Presigns =>
          req'[r].kind = "confirm" /\ req'[r].pc \in {"folder", "head"}
    BY <2>1, <2>2 DEF KeyIsItsOwn, Makes, RequestType
  <2> QED BY <2>2, <2>3, <2>4
<1>6. ASSUME NEW q \in Requests PROVE RequestOK(q)'
  <2>1. CASE q = r
    BY <2>1, <1>5 DEF RequestOK, RowIsGone, CreatesStored
  <2>2. CASE q # r
    <3>1. KeyIsItsOwn(q)'
      BY <2>2 DEF BlobsInv, RequestOK, Stays, KeyIsItsOwn, Makes
    <3>2. RowIsGone(q)'
      BY <1>2, <2>2 DEF BlobsInv, RequestOK, Stays, StoresStay, RowIsGone, Makes, Written
    <3>3. Published(q)'
      BY <1>1, <1>3, <2>2 DEF BlobsInv, RequestOK, Stays, StoresStay, Published, Makes
    <3>4. CreatesStored(q)'
      <4> PICK k : k = req[q].key
        OBVIOUS
      <4>1. req[q].pc = "create" => Stored(q, k)'
        BY <1>4 DEF BlobsInv, RequestOK, CreatesStored
      <4> QED BY <2>2, <4>1, CreatesStoredNext DEF Stays
    <3> QED BY <3>1, <3>2, <3>3, <3>4 DEF RequestOK
  <2> QED BY <2>1, <2>2
<1>7. ASSUME NEW m \in DOMAIN media' PROVE RowIsItsRequests(m)' /\ RowIsStored(m)'
  <2>1. /\ m \in DOMAIN media /\ media'[m].key = media[m].key /\ m \in Requests
        /\ RowIsItsRequests(m) /\ RowIsStored(m)
    BY DEF StoresStay, RequestsInv, RowsOK, BlobsInv
  <2>2. m # r
    BY <1>2, <2>1 DEF RowIsItsRequests, Written
  <2>3. RowIsItsRequests(m)'
    BY <2>1, <2>2 DEF Stays, RowIsItsRequests, Makes, Written
  <2>4. RowIsStored(m)'
    <3> PICK k : k = media[m].key
      OBVIOUS
    <3>1. Stored(m, k)'
      BY <2>1, <1>4 DEF RowIsStored
    <3> QED BY <2>1, <3>1, RowStoredNext
  <2> QED BY <2>3, <2>4
<1>8. ASSUME NEW k \in Presigns PROVE NotSentYet(k)'
  BY <1>1, <1>5 DEF BlobsInv, Stays, StoresStay, NotSentYet
<1>9. ASSUME NEW k \in blobs' \ RowKeys' PROVE Explained(k)'
  <2>1. k \in blobs \ RowKeys
    BY <1>1 DEF StoresStay
  <2> QED BY <2>1, <1>3, <1>5 DEF BlobsInv, Stays, Explained
<1> QED BY <1>6, <1>7, <1>8, <1>9 DEF BlobsInv

\* A request goes on, and what it did to the stores before is all there is.
LEMMA GoKeepsBlobs ==
    ASSUME RequestsInv, BlobsInv, StoresOK', StoresStay, UNCHANGED freshRequests,
           NEW r \in Requests, NEW pc \in PCs, Go(r, pc), KeyIsItsOwn(r)',
           \/ /\ pc \in {"put", "head", "update", "remove", "refused"}
              /\ req[r].pc \in {"folder", "head", "update", "scan"}
           \/ pc = "create" /\ req[r].pc = "head" /\ req[r].key \in blobs
           \/ pc = "emit" /\ req[r].pc = "close"
           \/ pc = "done" /\ req[r].pc \in {"emit", "update", "remove"}
           \/ pc = "failed" /\ Busy(r)
    PROVE  BlobsInv'
<1>1. RowKeys' = RowKeys
  BY RowKeysStay
<1>2. /\ req'[r].pc = pc /\ req'[r].kind = req[r].kind /\ req'[r].key = req[r].key
      /\ req'[r].target = req[r].target
      /\ \A q \in Requests \ {r} : Stays(q)
  BY GoChanges DEF RequestsInv, Stays
<1>3. \A q \in Requests : /\ req'[q].kind = req[q].kind /\ req'[q].key = req[q].key
                          /\ req'[q].target = req[q].target
                          /\ q # r => req'[q].pc = req[q].pc
  BY <1>2 DEF Stays
<1>4. ASSUME NEW k, UnderWay(k) PROVE UnderWay(k)'
  <2>1. PICK q \in Requests : req[q].key = k /\ req[q].pc \in {"create", "blob", "failed"}
    BY <1>4 DEF UnderWay
  <2>2. req'[q].pc \in {"create", "blob", "failed"}
    BY <1>2, <1>3, <2>1 DEF Busy
  <2> QED BY <1>3, <2>1, <2>2 DEF UnderWay
<1>5. ASSUME NEW m, NEW k, Stored(m, k) PROVE Stored(m, k)'
  BY <1>3, <1>5 DEF StoresStay, Stored, Wiped
<1>6. \A q \in Requests : Written(q) => Written(q)'
  BY <1>2, <1>3 DEF Written, Busy
<1>7. KeyIsItsOwn(r) /\ RowIsGone(r) /\ Published(r) /\ CreatesStored(r)
  BY DEF BlobsInv, RequestOK
<1>8. RowIsGone(r)'
  <2> SUFFICES ASSUME req[r].kind = "delete", req[r].key # NoMedia
               PROVE  /\ pc \in {"blob", "emit", "done", "failed"}
                      /\ pc \in {"emit", "done"} => req[r].key \notin blobs
                      /\ LET q == req[r].target IN
                           /\ q \in Requests \ DOMAIN media' /\ Makes(q)' /\ Written(q)'
                           /\ req'[q].key = req[r].key
    BY <1>2 DEF RowIsGone, StoresStay, Makes, Written
  <2>1. req[r].pc \in {"blob", "emit", "done", "failed"}
    BY <1>7 DEF RowIsGone
  <2> QED BY <1>3, <1>6, <1>7, <2>1 DEF RowIsGone, StoresStay, Makes
<1>9. Published(r)'
  <2> SUFFICES ASSUME Makes(r), pc \in {"close", "emit", "done"}
               PROVE  req[r].key \in RowKeys \/ req[r].key \notin blobs \/ UnderWay(req[r].key)'
    BY <1>1, <1>2 DEF Published, StoresStay, Makes, UnderWay
  <2>1. req[r].pc \in {"close", "emit"}
    BY <1>7 DEF KeyIsItsOwn, Makes
  <2>2. req[r].key \in RowKeys \/ req[r].key \notin blobs \/ UnderWay(req[r].key)
    BY <1>7, <2>1 DEF Published
  <2> QED BY <1>3, <1>4, <2>2 DEF UnderWay
<1>10. ASSUME NEW q \in Requests PROVE RequestOK(q)'
  <2>1. KeyIsItsOwn(q)'
    BY <1>2, <1>3 DEF BlobsInv, RequestOK, KeyIsItsOwn, Makes
  <2>2. RowIsGone(q)'
    <3>1. CASE q # r
      BY <1>3, <1>6, <3>1 DEF BlobsInv, RequestOK, StoresStay, RowIsGone, Makes
    <3> QED BY <1>8, <3>1
  <2>3. Published(q)'
    <3>1. CASE q # r
      <4> SUFFICES ASSUME Makes(q), req[q].pc \in {"close", "emit", "done"},
                          req[q].key \notin RowKeys, req[q].key \in blobs
                   PROVE  UnderWay(req[q].key)'
        BY <1>1, <1>3, <3>1 DEF Published, StoresStay, Makes, UnderWay
      <4>1. UnderWay(req[q].key)
        BY DEF BlobsInv, RequestOK, Published
      <4> QED BY <1>3, <1>4, <4>1 DEF UnderWay
    <3> QED BY <1>9, <3>1
  <2>4. CreatesStored(q)'
    <3> PICK k : k = req[q].key
      OBVIOUS
    <3>1. req'[q].pc = "create" => Stored(q, k)'
      BY <1>2, <1>3, <1>5 DEF BlobsInv, RequestOK, CreatesStored, StoresStay, Stored
    <3> QED BY <1>3, <3>1, CreatesStoredNext
  <2> QED BY <2>1, <2>2, <2>3, <2>4 DEF RequestOK
<1>11. ASSUME NEW m \in DOMAIN media' PROVE RowIsItsRequests(m)' /\ RowIsStored(m)'
  <2>1. /\ m \in DOMAIN media /\ media'[m].key = media[m].key /\ m \in Requests
        /\ RowIsItsRequests(m) /\ RowIsStored(m)
    BY DEF StoresStay, RequestsInv, RowsOK, BlobsInv
  <2>2. RowIsItsRequests(m)'
    BY <1>3, <1>6, <2>1 DEF RowIsItsRequests, Makes
  <2>3. RowIsStored(m)'
    <3> PICK k : k = media[m].key
      OBVIOUS
    <3>1. Stored(m, k)'
      BY <2>1, <1>5 DEF RowIsStored
    <3> QED BY <2>1, <3>1, RowStoredNext
  <2> QED BY <2>2, <2>3
<1>12. ASSUME NEW k \in Presigns PROVE NotSentYet(k)'
  <2> SUFFICES ASSUME presigned[k] # "sent", NEW q \in Requests, req[q].key = k
               PROVE  /\ k \notin blobs /\ req[q].kind = "confirm"
                      /\ req'[q].pc \in {"folder", "head", "refused", "failed"}
    BY <1>1, <1>3 DEF NotSentYet, StoresStay, BlobsInv
  <2>1. /\ k \notin blobs /\ req[q].kind = "confirm"
        /\ req[q].pc \in {"folder", "head", "refused", "failed"}
    BY DEF BlobsInv, NotSentYet
  <2> QED BY <1>2, <1>3, <2>1 DEF KeyIsItsOwn, Busy
<1>13. ASSUME NEW k \in blobs' \ RowKeys' PROVE Explained(k)'
  <2>1. k \in blobs \ RowKeys /\ k # NoMedia /\ Explained(k)
    BY <1>1, MediaAssumption DEF StoresStay, BlobsInv, StoresOK
  <2>2. CASE UnderWay(k)
    BY <1>4, <2>2 DEF Explained
  <2>3. CASE ~UnderWay(k)
    <3>1. k \in Presigns /\ ~\E q \in Requests : req[q].key = k /\ req[q].pc = "done"
      BY <2>1, <2>3 DEF Explained
    <3>2. ~(req[r].key = k /\ pc = "done")
      <4> SUFFICES ASSUME req[r].key = k, req[r].pc \in {"emit", "update", "remove"} PROVE FALSE
        OBVIOUS
      <4>1. req[r].kind \in {"upload", "confirm", "delete"}
        BY <1>7, <2>1 DEF KeyIsItsOwn, RequestsInv, RequestsOK, RequestType
      <4>2. req[r].pc = "emit"
        BY <1>7, <2>1, <4>1 DEF KeyIsItsOwn
      <4> QED BY <1>7, <2>1, <2>3, <4>1, <4>2 DEF RowIsGone, Published, Makes
    <3> QED BY <1>2, <1>3, <3>1, <3>2 DEF Explained
  <2> QED BY <2>2, <2>3
<1> QED BY <1>10, <1>11, <1>12, <1>13 DEF BlobsInv

\* The client's bytes arrive; nobody has yet made anything of them.
LEMMA ClientPutsKeepsBlobs ==
    ASSUME RequestsInv, BlobsInv, NEW k \in Presigns, ClientPuts(k)
    PROVE  BlobsInv'
<1>1. /\ presigned' = [presigned EXCEPT ![k] = "sent"] /\ blobs' = blobs \cup {k}
      /\ presigned[k] = "issued"
      /\ UNCHANGED <<media, req, sessions, freshRequests, edited>>
  BY DEF ClientPuts
<1>2. StoresOK'
  BY <1>1 DEF BlobsInv, StoresOK, Keys
<1>3. \A q \in Requests :
        req[q].key = k =>
          req[q].kind = "confirm" /\ req[q].pc \in {"folder", "head", "refused", "failed"}
  BY <1>1 DEF BlobsInv, NotSentYet
<1>4. RowKeys' = RowKeys /\ \A l : UnderWay(l)' <=> UnderWay(l)
  BY <1>1 DEF RowKeys, UnderWay
<1>5. ASSUME NEW m, NEW l, Stored(m, l) PROVE Stored(m, l)'
  BY <1>1, <1>5 DEF Stored, Wiped
<1>6. ASSUME NEW q \in Requests PROVE RequestOK(q)'
  <2>1. KeyIsItsOwn(q) /\ RowIsGone(q) /\ Published(q) /\ CreatesStored(q)
    BY DEF BlobsInv, RequestOK
  <2>2. KeyIsItsOwn(q)'
    BY <1>1, <2>1 DEF KeyIsItsOwn, Makes
  <2>3. RowIsGone(q)'
    BY <1>1, <1>3, <2>1 DEF RowIsGone, Makes, Written
  <2>4. Published(q)'
    BY <1>1, <1>3, <1>4, <2>1 DEF Published, Makes
  <2>5. CreatesStored(q)'
    <3> PICK l : l = req[q].key
      OBVIOUS
    <3>1. req[q].pc = "create" => Stored(q, l)'
      BY <1>5, <2>1 DEF CreatesStored
    <3> QED BY <1>1, <3>1, CreatesStoredNext
  <2> QED BY <2>2, <2>3, <2>4, <2>5 DEF RequestOK
<1>7. ASSUME NEW m \in DOMAIN media' PROVE RowIsItsRequests(m)' /\ RowIsStored(m)'
  <2>1. RowIsItsRequests(m) /\ RowIsStored(m)
    BY <1>1 DEF BlobsInv
  <2>2. RowIsItsRequests(m)'
    BY <1>1, <2>1 DEF RowIsItsRequests, Makes, Written
  <2> PICK l : l = media[m].key
    OBVIOUS
  <2>3. Stored(m, l)'
    BY <2>1, <1>5 DEF RowIsStored
  <2> QED BY <1>1, <2>2, <2>3, RowStoredNext
<1>8. ASSUME NEW l \in Presigns PROVE NotSentYet(l)'
  <2>1. NotSentYet(l) /\ (l = k => presigned'[l] = "sent")
    BY <1>1 DEF BlobsInv, StoresOK
  <2>2. l # k => presigned'[l] = presigned[l] /\ (l \in blobs' <=> l \in blobs)
    BY <1>1 DEF BlobsInv, StoresOK
  <2> QED BY <1>1, <1>4, <2>1, <2>2 DEF NotSentYet
<1>9. ASSUME NEW l \in blobs' \ RowKeys' PROVE Explained(l)'
  <2>1. CASE l = k
    BY <1>1, <1>3, <2>1 DEF Explained
  <2>2. CASE l # k
    BY <1>1, <1>4, <2>2 DEF BlobsInv, Explained
  <2> QED BY <2>1, <2>2
<1> QED BY <1>2, <1>6, <1>7, <1>8, <1>9 DEF BlobsInv

\* What an UploadStep or a DELETE leaves alone of the other requests.
LEMMA OthersStay ==
    ASSUME RequestsInv, NEW r \in Requests, NEW pc \in PCs, Go(r, pc)
    PROVE  /\ req'[r].pc = pc
           /\ \A q \in Requests : /\ req'[q].kind = req[q].kind /\ req'[q].key = req[q].key
                                  /\ req'[q].target = req[q].target
                                  /\ q # r => req'[q].pc = req[q].pc
  BY GoChanges DEF RequestsInv

\* A direct upload stores its bytes under a key that no other request has.
LEMMA PutKeepsBlobs ==
    ASSUME RequestsInv, BlobsInv, NEW r \in Requests, Put(r)
    PROVE  BlobsInv'
<1>1. /\ blobs' = blobs \cup {r} /\ req[r].pc = "put" /\ Go(r, "create")
      /\ UNCHANGED <<media, presigned, sessions, freshRequests, edited>>
  BY DEF Put
<1>2. /\ req'[r].pc = "create"
      /\ \A q \in Requests : /\ req'[q].kind = req[q].kind /\ req'[q].key = req[q].key
                             /\ req'[q].target = req[q].target
                             /\ q # r => req'[q].pc = req[q].pc
  BY <1>1, OthersStay DEF PCs
<1>3. req[r].kind = "upload" /\ req[r].key = r /\ r \notin Presigns /\ r # NoMedia
  BY <1>1, MediaAssumption DEF BlobsInv, RequestOK, KeyIsItsOwn, Keys
<1>4. ASSUME NEW q \in Requests, q # r, req[q].key = r PROVE FALSE
  <2>1. KeyIsItsOwn(q) /\ RowIsGone(q) /\ req[q] \in RequestType
    BY DEF BlobsInv, RequestOK, RequestsInv, RequestsOK
  <2>2. req[q].kind = "delete"
    BY <1>3, <1>4, <2>1 DEF KeyIsItsOwn, RequestType
  <2> DEFINE t == req[q].target
  <2>3. t \in Requests /\ Makes(t) /\ Written(t) /\ req[t].key = r
    BY <1>3, <1>4, <2>1, <2>2 DEF RowIsGone
  <2>4. KeyIsItsOwn(t)
    BY <2>3 DEF BlobsInv, RequestOK
  <2>5. t = r
    BY <1>3, <2>3, <2>4 DEF KeyIsItsOwn, Makes
  <2> QED BY <1>1, <2>3, <2>5 DEF Written
<1>5. StoresOK' /\ RowKeys' = RowKeys
  BY <1>1 DEF BlobsInv, StoresOK, Keys, RowKeys
<1>6. ASSUME NEW l, UnderWay(l) PROVE UnderWay(l)'
  <2>1. PICK q \in Requests : req[q].key = l /\ req[q].pc \in {"create", "blob", "failed"}
    BY <1>6 DEF UnderWay
  <2> QED BY <1>1, <1>2, <2>1 DEF UnderWay
<1>7. ASSUME NEW m, NEW l, Stored(m, l) PROVE Stored(m, l)'
  BY <1>1, <1>2, <1>7 DEF Stored, Wiped
<1>8. \A q \in Requests : Written(q) => Written(q)'
  BY <1>1, <1>2 DEF Written
<1>9. ASSUME NEW q \in Requests PROVE RequestOK(q)'
  <2>1. KeyIsItsOwn(q) /\ RowIsGone(q) /\ Published(q) /\ CreatesStored(q)
    BY DEF BlobsInv, RequestOK
  <2>2. KeyIsItsOwn(q)'
    BY <1>1, <1>2, <1>3, <2>1 DEF KeyIsItsOwn, Makes
  <2>3. RowIsGone(q)'
    BY <1>1, <1>2, <1>3, <1>4, <1>8, <2>1 DEF RowIsGone, Makes
  <2>4. Published(q)'
    <3>1. CASE q = r
      BY <1>2, <3>1 DEF Published
    <3>2. CASE q # r
      <4>1. UnderWay(req[q].key) => UnderWay(req[q].key)'
        BY <1>2, <1>6 DEF UnderWay
      <4> QED BY <1>1, <1>2, <1>4, <1>5, <2>1, <3>2, <4>1 DEF Published, Makes
    <3> QED BY <3>1, <3>2
  <2>5. CreatesStored(q)'
    <3> PICK l : l = req[q].key
      OBVIOUS
    <3>1. req'[q].pc = "create" => Stored(q, l)'
      BY <1>1, <1>2, <1>3, <1>7, <2>1 DEF CreatesStored, Stored
    <3> QED BY <1>2, <3>1, CreatesStoredNext
  <2> QED BY <2>2, <2>3, <2>4, <2>5 DEF RequestOK
<1>10. ASSUME NEW m \in DOMAIN media' PROVE RowIsItsRequests(m)' /\ RowIsStored(m)'
  <2>1. RowIsItsRequests(m) /\ RowIsStored(m) /\ m \in Requests
    BY <1>1 DEF BlobsInv, RequestsInv, RowsOK
  <2>2. RowIsItsRequests(m)'
    BY <1>1, <1>2, <1>8, <2>1 DEF RowIsItsRequests, Makes
  <2> PICK l : l = media[m].key
    OBVIOUS
  <2>3. Stored(m, l)'
    BY <2>1, <1>7 DEF RowIsStored
  <2> QED BY <1>1, <2>2, <2>3, RowStoredNext
<1>11. ASSUME NEW l \in Presigns PROVE NotSentYet(l)'
  <2>1. NotSentYet(l) /\ l # r
    BY <1>3 DEF BlobsInv
  <2> QED BY <1>1, <1>2, <1>3, <1>5, <2>1 DEF NotSentYet
<1>12. ASSUME NEW l \in blobs' \ RowKeys' PROVE Explained(l)'
  <2>1. CASE l = r
    BY <1>2, <1>3, <2>1 DEF Explained, UnderWay
  <2>2. CASE l # r
    <3>1. Explained(l)
      BY <1>1, <1>5, <2>2 DEF BlobsInv
    <3> QED BY <1>2, <1>3, <1>6, <2>2, <3>1 DEF Explained
  <2> QED BY <2>1, <2>2
<1> QED BY <1>5, <1>9, <1>10, <1>11, <1>12 DEF BlobsInv

\* A row is created for the key its request has stored, or found stored.
LEMMA CreateRowKeepsBlobs ==
    ASSUME RequestsInv, BlobsInv, NEW r \in Requests, CreateRow(r)
    PROVE  BlobsInv'
<1> DEFINE key == req[r].key
<1>1. PICK pc \in {"close", "emit"} : Go(r, pc)
  BY DEF CreateRow
<1>2. /\ req'[r].pc = pc
      /\ \A q \in Requests : /\ req'[q].kind = req[q].kind /\ req'[q].key = req[q].key
                             /\ req'[q].target = req[q].target
                             /\ q # r => req'[q].pc = req[q].pc
  BY <1>1, OthersStay DEF PCs
<1>3. /\ req[r].pc = "create" /\ Makes(r) /\ key \in Keys
      /\ UNCHANGED <<blobs, presigned, sessions, freshRequests, edited>>
  BY DEF CreateRow, BlobsInv, RequestOK, KeyIsItsOwn, Makes, Keys
<1>4. r \notin DOMAIN media
  BY <1>3 DEF BlobsInv, RowIsItsRequests, Written
<1>5. /\ DOMAIN media' = DOMAIN media \cup {r} /\ media'[r].key = key
      /\ \A m \in DOMAIN media : m # r /\ media'[m].key = media[m].key
  BY <1>4 DEF CreateRow
<1>6. RowKeys' = RowKeys \cup {key}
  BY <1>5 DEF RowKeys
<1>7. StoresOK'
  BY <1>3 DEF BlobsInv, StoresOK
<1>8. \A q \in Requests : /\ Written(q) => Written(q)'
                          /\ Makes(q)' <=> Makes(q)
  BY <1>1, <1>2 DEF Written, Makes
<1>9. ASSUME NEW l, l # key, UnderWay(l) PROVE UnderWay(l)'
  <2>1. PICK q \in Requests : req[q].key = l /\ req[q].pc \in {"create", "blob", "failed"}
    BY <1>9 DEF UnderWay
  <2>2. q # r
    BY <1>9, <2>1
  <2> QED BY <1>2, <2>1, <2>2 DEF UnderWay
<1>10. ASSUME NEW q \in Requests, req[q].kind = "delete", req[q].key # NoMedia
       PROVE  req[q].target \in Requests \ DOMAIN media'
  <2>1. req[q].target \in Requests \ DOMAIN media /\ Written(req[q].target)
    BY <1>10 DEF BlobsInv, RequestOK, RowIsGone
  <2>2. req[q].target # r
    BY <1>3, <2>1 DEF Written
  <2> QED BY <1>5, <2>1, <2>2
<1>11. ASSUME NEW m \in Requests, NEW l \in Keys, Stored(m, l) PROVE Stored(m, l)'
  <2>1. CASE l \in blobs
    BY <1>3, <2>1 DEF Stored
  <2>2. CASE Wiped(m, l)
    <3>1. PICK q, d \in Requests :
            /\ q # m /\ q \notin DOMAIN media
            /\ req[q].kind = "confirm" /\ req[q].key = l
            /\ req[d].kind = "delete" /\ req[d].target = q /\ req[d].key = l
      BY <2>2 DEF Wiped
    <3>2. q \notin DOMAIN media'
      BY <1>10, <3>1, MediaAssumption
    <3> QED BY <1>2, <3>1, <3>2 DEF Stored, Wiped
  <2> QED BY <1>11, <2>1, <2>2 DEF Stored
<1>12. ASSUME NEW q \in Requests PROVE RequestOK(q)'
  <2>1. KeyIsItsOwn(q) /\ RowIsGone(q) /\ Published(q) /\ CreatesStored(q)
    BY DEF BlobsInv, RequestOK
  <2>2. KeyIsItsOwn(q)'
    BY <1>1, <1>2, <1>3, <1>8, <2>1 DEF KeyIsItsOwn
  <2>3. RowIsGone(q)'
    <3> SUFFICES ASSUME req[q].kind = "delete", req[q].key # NoMedia
                 PROVE  /\ req[q].target \in Requests \ DOMAIN media'
                        /\ Makes(req[q].target)' /\ Written(req[q].target)'
                        /\ req'[req[q].target].key = req[q].key
                        /\ req'[q].pc \in {"blob", "emit", "done", "failed"}
                        /\ req'[q].pc \in {"emit", "done"} => req[q].key \notin blobs
      BY <1>2, <1>3 DEF RowIsGone, Makes, Written
    <3>1. q # r
      BY <1>3 DEF Makes
    <3> PICK t \in Requests : t = req[q].target
      BY <1>10
    <3>2. Makes(t) /\ Written(t) /\ req[t].key = req[q].key
      BY <2>1 DEF RowIsGone
    <3> QED BY <1>2, <1>8, <1>10, <2>1, <3>1, <3>2 DEF RowIsGone, Makes, Written
  <2>4. Published(q)'
    <3>1. CASE req[q].key = key
      BY <1>2, <1>6, <3>1 DEF Published
    <3>2. CASE req[q].key # key
      <4>1. q # r /\ UnderWay(req[q].key) => UnderWay(req[q].key)'
        BY <1>2, <1>9, <3>2 DEF UnderWay
      <4> QED BY <1>2, <1>3, <1>6, <2>1, <3>2, <4>1 DEF Published, Makes
    <3> QED BY <3>1, <3>2
  <2>5. CreatesStored(q)'
    <3> PICK l : l = req[q].key
      OBVIOUS
    <3>1. req'[q].pc = "create" => Stored(q, l)'
      <4> SUFFICES ASSUME req'[q].pc = "create" PROVE Stored(q, l)'
        OBVIOUS
      <4>1. req[q].pc = "create"
        BY <1>1, <1>2
      <4>2. l \in Keys
        BY <4>1, <2>1 DEF KeyIsItsOwn, Makes, Keys
      <4> QED BY <1>11, <2>1, <4>1, <4>2 DEF CreatesStored
    <3> QED BY <1>2, <3>1, CreatesStoredNext
  <2> QED BY <2>2, <2>3, <2>4, <2>5 DEF RequestOK
<1>13. ASSUME NEW m \in DOMAIN media' PROVE RowIsItsRequests(m)' /\ RowIsStored(m)'
  <2>1. CASE m = r
    <3>1. RowIsItsRequests(m)'
      BY <1>1, <1>2, <1>3, <1>5, <1>8, <2>1 DEF RowIsItsRequests, Written
    <3> PICK l \in Keys : l = key
      BY <1>3
    <3>2. Stored(m, l)'
      BY <1>3, <1>11, <2>1 DEF BlobsInv, RequestOK, CreatesStored
    <3> QED BY <1>5, <2>1, <3>1, <3>2, RowStoredNext
  <2>2. CASE m # r
    <3>1. RowIsItsRequests(m) /\ RowIsStored(m) /\ m \in Requests /\ m \in DOMAIN media
      BY <1>5, <2>2 DEF BlobsInv, RequestsInv, RowsOK
    <3>2. RowIsItsRequests(m)'
      BY <1>2, <1>5, <1>8, <3>1 DEF RowIsItsRequests
    <3> PICK l : l = media[m].key
      OBVIOUS
    <3>3. l \in Keys
      BY <3>1 DEF RowIsItsRequests, BlobsInv, RequestOK, KeyIsItsOwn, Makes, Keys
    <3>4. Stored(m, l)'
      BY <3>1, <3>3, <1>11 DEF RowIsStored
    <3> QED BY <1>5, <3>1, <3>2, <3>4, RowStoredNext
  <2> QED BY <2>1, <2>2
<1>14. ASSUME NEW l \in Presigns PROVE NotSentYet(l)'
  <2>1. NotSentYet(l)
    BY DEF BlobsInv
  <2>2. presigned[l] # "sent" => l # key
    BY <1>3, <2>1 DEF NotSentYet
  <2> QED BY <1>2, <1>3, <1>6, <2>1, <2>2 DEF NotSentYet
<1>15. ASSUME NEW l \in blobs' \ RowKeys' PROVE Explained(l)'
  <2>1. Explained(l) /\ l # key
    BY <1>3, <1>6 DEF BlobsInv
  <2>2. UnderWay(l) => UnderWay(l)'
    BY <1>9, <2>1
  <2> QED BY <1>1, <1>2, <2>1, <2>2 DEF Explained
<1> QED BY <1>7, <1>12, <1>13, <1>14, <1>15 DEF BlobsInv

\* A DELETE deletes the row and takes over its key, for the blob.
LEMMA RemoveRowKeepsBlobs ==
    ASSUME RequestsInv, BlobsInv, NEW r \in Requests, RemoveRow(r), req[r].target \in DOMAIN media
    PROVE  BlobsInv'
<1> PICK t : t = req[r].target
  OBVIOUS
<1> PICK key : key = media[t].key
  OBVIOUS
<1>1. /\ req[r].pc = "remove" /\ req[r].kind = "delete" /\ req[r].key = NoMedia
      /\ req[r] \in RequestType /\ t \in Requests
      /\ UNCHANGED <<blobs, presigned, sessions, freshRequests, edited>>
  BY DEF RemoveRow, BlobsInv, RequestOK, KeyIsItsOwn, RequestsInv, RequestsOK, RowsOK
<1>2. /\ DOMAIN media' = DOMAIN media \ {t}
      /\ \A m \in DOMAIN media' : media'[m].key = media[m].key
  BY DEF RemoveRow
<1>3. Makes(t) /\ Written(t) /\ req[t].key = key
  BY DEF BlobsInv, RowIsItsRequests
<1>4. key \in Keys /\ key # NoMedia
  BY <1>1, <1>3, MediaAssumption DEF BlobsInv, RequestOK, KeyIsItsOwn, Makes, Keys
<1>5. /\ req'[r].pc = "blob" /\ req'[r].key = key /\ req'[r].kind = "delete"
      /\ req'[r].target = t
      /\ \A q \in Requests \ {r} : req'[q] = req[q]
  <2>1. req' = [req EXCEPT ![r] = [req[r] EXCEPT !.pc = "blob", !.key = key]]
    BY DEF RemoveRow
  <2>2. [req[r] EXCEPT !.pc = "blob", !.key = key].pc = "blob"
        /\ [req[r] EXCEPT !.pc = "blob", !.key = key].key = key
        /\ [req[r] EXCEPT !.pc = "blob", !.key = key].kind = "delete"
        /\ [req[r] EXCEPT !.pc = "blob", !.key = key].target = t
    BY <1>1 DEF RequestType
  <2> QED BY <2>1, <2>2 DEF RequestsInv, RequestsOK
<1>6. RowKeys \ {key} \subseteq RowKeys' /\ RowKeys' \subseteq RowKeys
  BY <1>2 DEF RowKeys
<1>7. UnderWay(key)'
  BY <1>5 DEF UnderWay
<1>8. ASSUME NEW l, UnderWay(l) PROVE UnderWay(l)'
  <2>1. PICK q \in Requests : req[q].key = l /\ req[q].pc \in {"create", "blob", "failed"}
    BY <1>8 DEF UnderWay
  <2> QED BY <1>1, <1>5, <2>1 DEF UnderWay
<1>9. ASSUME NEW m, NEW l, Stored(m, l) PROVE Stored(m, l)'
  <2>1. CASE l \in blobs
    BY <1>1, <2>1 DEF Stored
  <2>2. CASE Wiped(m, l)
    <3>1. PICK q, d \in Requests :
            /\ q # m /\ q \notin DOMAIN media
            /\ req[q].kind = "confirm" /\ req[q].key = l
            /\ req[d].kind = "delete" /\ req[d].target = q /\ req[d].key = l
      BY <2>2 DEF Wiped
    <3>2. l # NoMedia
      BY <3>1, MediaAssumption DEF BlobsInv, RequestOK, KeyIsItsOwn, Keys
    <3>3. q # r /\ d # r /\ q \notin DOMAIN media'
      BY <1>1, <1>2, <3>1, <3>2
    <3>4. Wiped(m, l)'
      BY <1>5, <3>1, <3>3 DEF Wiped
    <3> QED BY <3>4 DEF Stored
  <2> QED BY <1>9, <2>1, <2>2 DEF Stored
<1>10. \A q \in Requests : /\ Written(q) => Written(q)'
                           /\ Makes(q) => Makes(q)' /\ req'[q].key = req[q].key
                           /\ Makes(q)' => Makes(q)
  BY <1>1, <1>5 DEF Written, Makes
<1>11. ASSUME NEW q \in Requests PROVE RequestOK(q)'
  <2>1. KeyIsItsOwn(q) /\ RowIsGone(q) /\ Published(q) /\ CreatesStored(q)
    BY DEF BlobsInv, RequestOK
  <2>2. CASE q = r
    <3>1. KeyIsItsOwn(q)'
      BY <1>1, <1>4, <1>5, <2>1, <2>2 DEF KeyIsItsOwn, Makes
    <3>2. t \in Requests \ DOMAIN media' /\ Makes(t)' /\ Written(t)' /\ req'[t].key = key
      BY <1>1, <1>2, <1>3, <1>10
    <3>3. RowIsGone(q)'
      BY <1>5, <2>2, <3>2 DEF RowIsGone, Makes, Written
    <3>4. Published(q)' /\ CreatesStored(q)'
      BY <1>5, <2>2 DEF Published, CreatesStored
    <3> QED BY <3>1, <3>3, <3>4 DEF RequestOK
  <2>3. CASE q # r
    <3>1. req'[q] = req[q]
      BY <1>5, <2>3
    <3>2. KeyIsItsOwn(q)'
      BY <1>1, <2>1, <3>1 DEF KeyIsItsOwn, Makes
    <3>3. RowIsGone(q)'
      <4> SUFFICES ASSUME req[q].kind = "delete", req[q].key # NoMedia
                   PROVE  /\ req[q].target \in Requests \ DOMAIN media'
                          /\ Makes(req[q].target)' /\ Written(req[q].target)'
                          /\ req'[req[q].target].key = req[q].key
        BY <1>1, <2>1, <3>1 DEF RowIsGone, Makes, Written
      <4> PICK u \in Requests : u = req[q].target
        BY <2>1 DEF RowIsGone
      <4>1. u \notin DOMAIN media /\ Makes(u) /\ Written(u) /\ req[u].key = req[q].key
        BY <2>1 DEF RowIsGone
      <4> QED BY <1>2, <1>10, <3>1, <4>1 DEF Makes, Written
    <3>4. Published(q)'
      <4> SUFFICES ASSUME Makes(q), req[q].pc \in {"close", "emit", "done"},
                          req[q].key \notin RowKeys', req[q].key \in blobs
                   PROVE  UnderWay(req[q].key)'
        BY <1>1, <3>1 DEF Published, Makes, UnderWay
      <4> PICK l : l = req[q].key
        OBVIOUS
      <4>1. l = key \/ UnderWay(l)
        BY <1>6, <2>1 DEF Published
      <4>2. UnderWay(l)'
        BY <1>7, <1>8, <4>1 DEF UnderWay
      <4> QED BY <3>1, <4>2 DEF UnderWay
    <3>5. CreatesStored(q)'
      <4> PICK l : l = req[q].key
        OBVIOUS
      <4>1. req[q].pc = "create" => Stored(q, l)'
        BY <1>9, <2>1 DEF CreatesStored
      <4> QED BY <3>1, <4>1, CreatesStoredNext
    <3> QED BY <3>2, <3>3, <3>4, <3>5 DEF RequestOK
  <2> QED BY <2>2, <2>3
<1>12. ASSUME NEW m \in DOMAIN media' PROVE RowIsItsRequests(m)' /\ RowIsStored(m)'
  <2>1. RowIsItsRequests(m) /\ RowIsStored(m) /\ m \in Requests /\ m \in DOMAIN media
    BY <1>2 DEF BlobsInv, RequestsInv, RowsOK
  <2>2. RowIsItsRequests(m)'
    BY <1>2, <1>10, <2>1 DEF RowIsItsRequests
  <2> PICK l : l = media[m].key
    OBVIOUS
  <2>3. Stored(m, l)'
    BY <2>1, <1>9 DEF RowIsStored
  <2> QED BY <1>2, <2>2, <2>3, RowStoredNext
<1>13. ASSUME NEW l \in Presigns PROVE NotSentYet(l)'
  <2>1. NotSentYet(l) /\ key \in RowKeys
    BY DEF BlobsInv, RowKeys
  <2>2. presigned[l] # "sent" => l # key
    BY <2>1 DEF NotSentYet
  <2> QED BY <1>1, <1>5, <1>6, <2>1, <2>2 DEF NotSentYet
<1>14. ASSUME NEW l \in blobs' \ RowKeys' PROVE Explained(l)'
  <2>1. CASE l = key
    BY <1>7, <2>1 DEF Explained
  <2>2. CASE l # key
    <3>1. Explained(l)
      BY <1>1, <1>6, <2>2 DEF BlobsInv
    <3> QED BY <1>5, <1>8, <3>1 DEF Explained
  <2> QED BY <2>1, <2>2
<1>15. StoresOK'
  BY <1>1 DEF BlobsInv, StoresOK
<1> QED BY <1>11, <1>12, <1>13, <1>14, <1>15 DEF BlobsInv

\* The blob goes after its row: another row of the same upload loses it.
LEMMA DeleteBlobKeepsBlobs ==
    ASSUME RequestsInv, BlobsInv, NEW r \in Requests, DeleteBlob(r)
    PROVE  BlobsInv'
<1> PICK t : t = req[r].target
  OBVIOUS
<1> PICK key : key = req[r].key
  OBVIOUS
<1>1. /\ req[r].pc = "blob" /\ Go(r, "emit") /\ blobs' = blobs \ {key}
      /\ UNCHANGED <<media, presigned, sessions, freshRequests, edited>>
  BY DEF DeleteBlob
<1>2. /\ req'[r].pc = "emit"
      /\ \A q \in Requests : /\ req'[q].kind = req[q].kind /\ req'[q].key = req[q].key
                             /\ req'[q].target = req[q].target
                             /\ q # r => req'[q].pc = req[q].pc
  BY <1>1, OthersStay DEF PCs
<1>3. /\ req[r].kind = "delete" /\ key # NoMedia
      /\ t \in Requests \ DOMAIN media /\ Makes(t) /\ Written(t) /\ req[t].key = key
  BY <1>1 DEF BlobsInv, RequestOK, KeyIsItsOwn, RowIsGone
<1>4. ASSUME NEW m \in Requests, m # t, Makes(m), req[m].key = key PROVE Wiped(m, key)'
  <2>1. KeyIsItsOwn(m) /\ KeyIsItsOwn(t)
    BY <1>3 DEF BlobsInv, RequestOK
  <2>2. req[t].kind = "confirm"
    BY <1>3, <1>4, <2>1, MediaAssumption DEF KeyIsItsOwn, Makes
  <2> QED BY <1>1, <1>2, <1>3, <1>4, <2>2 DEF Wiped
<1>5. ASSUME NEW m \in Requests, m # t, Makes(m), Stored(m, req[m].key)
      PROVE  \A l : l = req[m].key => Stored(m, l)'
  <2> SUFFICES ASSUME NEW l, l = req[m].key PROVE Stored(m, l)'
    OBVIOUS
  <2>1. CASE l = key
    BY <1>4, <1>5, <2>1 DEF Stored
  <2>2. CASE l # key /\ l \in blobs
    BY <1>1, <2>2 DEF Stored
  <2>3. CASE Wiped(m, l)
    <3>1. Wiped(m, l)'
      BY <1>1, <1>2, <2>3 DEF Wiped
    <3> QED BY <3>1 DEF Stored
  <2> QED BY <1>5, <2>1, <2>2, <2>3 DEF Stored
<1>6. RowKeys' = RowKeys
  BY <1>1 DEF RowKeys
<1>7. ASSUME NEW l, l # key, UnderWay(l) PROVE UnderWay(l)'
  <2>1. PICK q \in Requests : req[q].key = l /\ req[q].pc \in {"create", "blob", "failed"}
    BY <1>7 DEF UnderWay
  <2> QED BY <1>2, <1>7, <2>1 DEF UnderWay
<1>8. \A q \in Requests : (Written(q) => Written(q)') /\ (Makes(q)' <=> Makes(q))
  BY <1>1, <1>2 DEF Written, Makes
<1>9. ASSUME NEW q \in Requests PROVE RequestOK(q)'
  <2>1. KeyIsItsOwn(q) /\ RowIsGone(q) /\ Published(q) /\ CreatesStored(q)
    BY DEF BlobsInv, RequestOK
  <2>2. KeyIsItsOwn(q)'
    BY <1>1, <1>2, <1>3, <1>8, <2>1 DEF KeyIsItsOwn
  <2>3. RowIsGone(q)'
    BY <1>1, <1>2, <1>8, <2>1 DEF RowIsGone, Makes, Written
  <2>4. Published(q)'
    <3>1. q # r \/ ~Makes(q)
      BY <1>3 DEF Makes
    <3>2. req[q].key # key /\ UnderWay(req[q].key) => UnderWay(req[q].key)'
      BY <1>2, <1>7 DEF UnderWay
    <3> QED BY <1>1, <1>2, <1>6, <1>8, <2>1, <3>1, <3>2 DEF Published, Makes
  <2>5. CreatesStored(q)'
    <3> PICK l : l = req[q].key
      OBVIOUS
    <3>1. req'[q].pc = "create" => Stored(q, l)'
      <4> SUFFICES ASSUME req'[q].pc = "create" PROVE Stored(q, l)'
        OBVIOUS
      <4>1. req[q].pc = "create" /\ Makes(q)
        BY <1>1, <1>2, <2>1 DEF KeyIsItsOwn
      <4>2. q # t
        BY <1>3, <4>1 DEF Written
      <4> QED BY <1>5, <2>1, <4>1, <4>2 DEF CreatesStored
    <3> QED BY <1>2, <3>1, CreatesStoredNext
  <2> QED BY <2>2, <2>3, <2>4, <2>5 DEF RequestOK
<1>10. ASSUME NEW m \in DOMAIN media' PROVE RowIsItsRequests(m)' /\ RowIsStored(m)'
  <2>1. /\ RowIsItsRequests(m) /\ RowIsStored(m) /\ m \in Requests /\ m # t
        /\ media[m].key = req[m].key
    BY <1>1, <1>3 DEF BlobsInv, RequestsInv, RowsOK, RowIsItsRequests
  <2>2. RowIsItsRequests(m)'
    BY <1>1, <1>2, <1>8, <2>1 DEF RowIsItsRequests
  <2> PICK l : l = media[m].key
    OBVIOUS
  <2>3. Stored(m, l)'
    BY <2>1, <1>5 DEF RowIsStored, RowIsItsRequests
  <2> QED BY <1>1, <2>2, <2>3, RowStoredNext
<1>11. ASSUME NEW l \in Presigns PROVE NotSentYet(l)'
  <2>1. NotSentYet(l)
    BY DEF BlobsInv
  <2> QED BY <1>1, <1>2, <1>3, <1>6, <2>1 DEF NotSentYet
<1>12. ASSUME NEW l \in blobs' \ RowKeys' PROVE Explained(l)'
  <2>1. Explained(l) /\ l # key
    BY <1>1, <1>6 DEF BlobsInv
  <2> QED BY <1>2, <1>7, <2>1 DEF Explained
<1>13. StoresOK'
  BY <1>1 DEF BlobsInv, StoresOK
<1> QED BY <1>9, <1>10, <1>11, <1>12, <1>13 DEF BlobsInv

\* The steps of a request at which no store but the sessions changes.
LEMMA QuietKeepsBlobs ==
    ASSUME RequestsInv, BlobsInv, NEW r \in Requests,
           \/ CheckFolder(r) \/ ReadObject(r) \/ CloseSession(r) \/ Update(r) \/ EndScan(r)
           \/ Emitted(r) \/ Fail(r)
    PROVE  BlobsInv'
<1>1. KeyIsItsOwn(r) /\ req[r] \in RequestType
  BY DEF BlobsInv, RequestOK, RequestsInv, RequestsOK
<1>2. UNCHANGED <<blobs, presigned, freshRequests, edited>> /\ sessions' \subseteq sessions
  BY DEF CheckFolder, ReadObject, CloseSession, Update, EndScan, Emitted, Fail
<1>3. StoresOK'
  BY <1>2 DEF BlobsInv, StoresOK
<1>4. StoresStay
  <2>1. CASE UNCHANGED media
    BY <1>2, <2>1 DEF StoresStay
  <2>2. CASE Update(r)
    BY <1>2, <2>2 DEF StoresStay, Update, RequestsInv, RowsOK
  <2> QED BY <2>1, <2>2 DEF CheckFolder, ReadObject, CloseSession, EndScan, Emitted, Fail
<1>5. ASSUME NEW pc \in PCs, Go(r, pc)
      PROVE  req'[r].pc = pc /\ req'[r].kind = req[r].kind /\ req'[r].key = req[r].key
  BY <1>5, OthersStay
<1>6. CASE CheckFolder(r)
  <2> PICK pc : pc = IF Exists(req[r].folder) THEN AfterFolder(req[r].kind) ELSE "refused"
    OBVIOUS
  <2>1. req[r].pc = "folder" /\ Go(r, pc)
    BY <1>6 DEF CheckFolder
  <2>2. req[r].kind \in {"upload", "confirm", "patch"}
    BY <1>1, <2>1 DEF KeyIsItsOwn, RequestType
  <2>3. pc \in {"put", "head", "update", "refused"} /\ pc \in PCs
    BY DEF AfterFolder, PCs
  <2>4. KeyIsItsOwn(r)'
    BY <1>1, <1>2, <1>5, <2>1, <2>2, <2>3 DEF KeyIsItsOwn, Makes, AfterFolder
  <2> QED BY <1>2, <1>3, <1>4, <2>1, <2>3, <2>4, GoKeepsBlobs
<1>7. CASE ReadObject(r)
  <2> PICK pc : pc = IF req[r].key \in blobs THEN "create" ELSE "refused"
    OBVIOUS
  <2>1. req[r].pc = "head" /\ Go(r, pc) /\ pc \in PCs
    BY <1>7 DEF ReadObject, PCs
  <2>2. KeyIsItsOwn(r)'
    BY <1>1, <1>2, <1>5, <2>1 DEF KeyIsItsOwn, Makes
  <2> QED BY <1>2, <1>3, <1>4, <2>1, <2>2, GoKeepsBlobs
<1>8. CASE CloseSession(r)
  <2>1. req[r].pc = "close" /\ Go(r, "emit") /\ "emit" \in PCs
    BY <1>8 DEF CloseSession, PCs
  <2>2. KeyIsItsOwn(r)'
    BY <1>1, <1>2, <1>5, <2>1 DEF KeyIsItsOwn, Makes
  <2> QED BY <1>2, <1>3, <1>4, <2>1, <2>2, GoKeepsBlobs
<1>9. CASE Update(r)
  <2> PICK pc : pc = IF req[r].target \in DOMAIN media THEN "done" ELSE "refused"
    OBVIOUS
  <2>1. req[r].pc = "update" /\ Go(r, pc) /\ pc \in PCs
    BY <1>9 DEF Update, PCs
  <2>2. KeyIsItsOwn(r)'
    BY <1>1, <1>2, <1>5, <2>1 DEF KeyIsItsOwn, Makes
  <2> QED BY <1>2, <1>3, <1>4, <2>1, <2>2, GoKeepsBlobs
<1>10. CASE EndScan(r)
  <2> PICK pc : pc = IF req[r].found = {} THEN "remove" ELSE "refused"
    OBVIOUS
  <2>1. req[r].pc = "scan" /\ Go(r, pc) /\ pc \in PCs
    BY <1>10 DEF EndScan, PCs
  <2>2. KeyIsItsOwn(r)'
    BY <1>1, <1>2, <1>5, <2>1 DEF KeyIsItsOwn, Makes
  <2> QED BY <1>2, <1>3, <1>4, <2>1, <2>2, GoKeepsBlobs
<1>11. CASE Emitted(r)
  <2>1. req[r].pc = "emit" /\ Go(r, "done") /\ "done" \in PCs
    BY <1>11 DEF Emitted, PCs
  <2>2. KeyIsItsOwn(r)'
    BY <1>1, <1>2, <1>5, <2>1 DEF KeyIsItsOwn, Makes
  <2> QED BY <1>2, <1>3, <1>4, <2>1, <2>2, GoKeepsBlobs
<1>12. CASE Fail(r)
  <2>1. Busy(r) /\ Go(r, "failed") /\ "failed" \in PCs
    BY <1>12 DEF Fail, PCs
  <2>2. KeyIsItsOwn(r)'
    BY <1>1, <1>2, <1>5, <2>1 DEF KeyIsItsOwn, Makes, Busy
  <2> QED BY <1>2, <1>3, <1>4, <2>1, <2>2, GoKeepsBlobs
<1> QED BY <1>6, <1>7, <1>8, <1>9, <1>10, <1>11, <1>12

\* An upload, a confirmation, a PATCH or a DELETE begins.
LEMMA StartsKeepBlobs ==
    ASSUME RequestsInv, RequestsInv', BlobsInv, NEW r \in Requests,
           \/ \E f \in Folders \cup {Null} : Upload(r, f)
           \/ \E k \in Presigns, f \in Folders \cup Roots : Confirm(r, k, f)
           \/ EditStep(r)
    PROVE  BlobsInv'
<1>1. UNCHANGED <<media, blobs, presigned, sessions, edited>>
  BY DEF Upload, Confirm, EditStep, Patch, Delete
<1>2. PICK how : /\ Starts(r, how)
                 /\ how.pc \in {"folder", "put", "head", "update", "scan"}
                 /\ \/ how.kind = "upload" /\ how.key = r /\ how.pc \in {"folder", "put"}
                    \/ how.kind = "confirm" /\ how.key \in Presigns /\ how.pc \in {"folder", "head"}
                    \/ how.kind = "patch" /\ how.key = NoMedia /\ how.pc \in {"folder", "update"}
                    \/ how.kind = "delete" /\ how.key = NoMedia /\ how.pc = "scan"
  <2>1. ASSUME NEW f \in Folders \cup {Null}, Upload(r, f)
        PROVE  \E how : /\ Starts(r, how) /\ how.kind = "upload" /\ how.key = r
                        /\ how.pc \in {"folder", "put"}
    BY <2>1 DEF Upload, Request
  <2>2. ASSUME NEW k \in Presigns, NEW f \in Folders \cup Roots, Confirm(r, k, f)
        PROVE  \E how : /\ Starts(r, how) /\ how.kind = "confirm" /\ how.key \in Presigns
                        /\ how.pc \in {"folder", "head"}
    BY <2>2 DEF Confirm, Request
  <2>3. ASSUME NEW m, NEW f \in Folders \cup {Null}, Patch(r, m, f)
        PROVE  \E how : /\ Starts(r, how) /\ how.kind = "patch" /\ how.key = NoMedia
                        /\ how.pc \in {"folder", "update"}
    BY <2>3 DEF Patch, Request
  <2>4. ASSUME NEW m, Delete(r, m)
        PROVE  \E how : /\ Starts(r, how) /\ how.kind = "delete" /\ how.key = NoMedia
                        /\ how.pc = "scan"
    BY <2>4 DEF Delete, Request
  <2> QED BY <2>1, <2>2, <2>3, <2>4 DEF EditStep
<1>3. /\ r \in freshRequests /\ freshRequests' = freshRequests \ {r}
      /\ req'[r] = how /\ \A q \in Requests \ {r} : req'[q] = req[q]
  BY <1>2 DEF Starts, RequestsInv, RequestsOK
<1>4. req[r].kind = "none"
  BY <1>3 DEF BlobsInv, RequestOK, KeyIsItsOwn
<1>5. KeyIsItsOwn(r)'
  BY <1>2, <1>3 DEF KeyIsItsOwn, Makes
<1>6. StoresOK' /\ StoresStay
  BY <1>1, <1>3 DEF BlobsInv, StoresOK, StoresStay
<1>7. \A q \in Requests \ {r} : Stays(q)
  BY <1>3 DEF Stays
<1> QED BY <1>2, <1>3, <1>4, <1>5, <1>6, <1>7, BeginKeepsBlobs DEF RequestsInv

\* The folder routes, the scan of a DELETE, the editors and the presigns change
\* nothing that rows and blobs depend on.
LEMMA FoldersAndEditorsKeepBlobs ==
    ASSUME RequestsInv, BlobsInv,
           \/ UNCHANGED vars
           \/ FolderStep
           \/ \E k \in Presigns : Expire(k)
           \/ \E r \in Requests : Scan(r)
           \/ \E d \in Docs, m \in Requests \cup {NoMedia} : WriteRef(d, m)
    PROVE  BlobsInv'
<1>1. UNCHANGED <<blobs, presigned, freshRequests, edited>> /\ sessions' \subseteq sessions
  BY DEF vars, FolderStep, MakeFolder, EditFolder, DeleteEmptyFolder, ForceDeleteFolder,
         Expire, Scan, WriteRef
<1>2. StoresOK'
  BY <1>1 DEF BlobsInv, StoresOK
<1>3. StoresStay
  <2>1. CASE UNCHANGED media
    BY <1>1, <2>1 DEF StoresStay
  <2>2. ASSUME NEW f \in Folders, ForceDeleteFolder(f) PROVE StoresStay
    BY <1>1, <2>2 DEF StoresStay, ForceDeleteFolder, RequestsInv, RowsOK
  <2> QED BY <2>1, <2>2 DEF vars, FolderStep, MakeFolder, EditFolder, DeleteEmptyFolder,
                            Expire, Scan, WriteRef
<1>4. \A q \in Requests : Stays(q)
  <2>1. CASE UNCHANGED req
    BY <2>1 DEF Stays
  <2>2. ASSUME NEW r \in Requests, Scan(r), NEW q \in Requests PROVE Stays(q)
    <3>1. req[r] \in RequestType /\ req[q] \in RequestType /\ req \in [Requests -> RequestType]
      BY DEF RequestsInv, RequestsOK
    <3> QED BY <2>2, <3>1 DEF Scan, Stays, RequestType
  <2>3. ASSUME NEW d \in Docs, NEW m \in Requests \cup {NoMedia}, WriteRef(d, m),
               NEW q \in Requests
        PROVE  Stays(q)
    <3>1. req[q] \in RequestType
      BY DEF RequestsInv, RequestsOK
    <3> QED BY <2>3, <3>1 DEF WriteRef, Stays, RequestType
  <2> QED BY <2>1, <2>2, <2>3 DEF vars, FolderStep, MakeFolder, EditFolder, DeleteEmptyFolder,
                                  ForceDeleteFolder, Expire
<1> QED BY <1>1, <1>2, <1>3, <1>4, NothingMoves

\* A presign is issued.
LEMMA PresignKeepsBlobs ==
    ASSUME RequestsInv, BlobsInv, NEW k \in Presigns, Presign(k)
    PROVE  BlobsInv'
<1>1. /\ presigned[k] = "none" /\ presigned' = [presigned EXCEPT ![k] = "issued"]
      /\ sessions' = sessions \cup {k}
      /\ UNCHANGED <<media, blobs, req, freshRequests, edited>>
  BY DEF Presign
<1>2. StoresOK'
  BY <1>1 DEF BlobsInv, StoresOK
<1>3. \A l \in Presigns : presigned'[l] # "sent" <=> presigned[l] # "sent"
  BY <1>1 DEF BlobsInv, StoresOK
<1>4. RowKeys' = RowKeys
  BY <1>1 DEF RowKeys
<1>5. \A r \in Requests : RequestOK(r)'
  BY <1>1 DEF BlobsInv, RequestOK, KeyIsItsOwn, RowIsGone, Published, CreatesStored, Makes,
              Written, UnderWay, Stored, Wiped, RowKeys
<1>6. \A m \in DOMAIN media' : RowIsItsRequests(m)' /\ RowIsStored(m)'
  BY <1>1 DEF BlobsInv, RowIsItsRequests, RowIsStored, Makes, Written, Stored, Wiped
<1>7. \A l \in Presigns : NotSentYet(l)'
  BY <1>1, <1>3, <1>4 DEF BlobsInv, NotSentYet
<1>8. \A l \in blobs' \ RowKeys' : Explained(l)'
  BY <1>1, <1>4 DEF BlobsInv, Explained, UnderWay
<1> QED BY <1>2, <1>5, <1>6, <1>7, <1>8 DEF BlobsInv

\* A DELETE that finds the row gone already is done.
LEMMA NothingToRemoveKeepsBlobs ==
    ASSUME RequestsInv, BlobsInv, NEW r \in Requests, RemoveRow(r),
           req[r].target \notin DOMAIN media
    PROVE  BlobsInv'
<1>1. /\ req[r].pc = "remove" /\ req[r].key = NoMedia /\ req[r] \in RequestType
      /\ KeyIsItsOwn(r)
  BY DEF RemoveRow, BlobsInv, RequestOK, KeyIsItsOwn, RequestsInv, RequestsOK
<1>2. UNCHANGED <<blobs, presigned, sessions, freshRequests, edited>>
  BY DEF RemoveRow
<1>3. StoresOK' /\ StoresStay
  BY <1>2 DEF BlobsInv, StoresOK, StoresStay, RemoveRow
<1>4. Go(r, "done")
  <2>1. req' = [req EXCEPT ![r] = [req[r] EXCEPT !.pc = "done", !.key = NoMedia]]
    BY DEF RemoveRow
  <2>2. [req[r] EXCEPT !.pc = "done", !.key = NoMedia] = [req[r] EXCEPT !.pc = "done"]
    BY <1>1 DEF RequestType
  <2> QED BY <2>1, <2>2 DEF Go
<1>5. /\ req'[r].pc = "done" /\ req'[r].kind = req[r].kind /\ req'[r].key = req[r].key
  BY <1>4, OthersStay DEF PCs
<1>6. KeyIsItsOwn(r)'
  BY <1>1, <1>2, <1>5 DEF KeyIsItsOwn, Makes
<1> QED BY <1>1, <1>2, <1>3, <1>4, <1>6, GoKeepsBlobs DEF PCs

\* Every step keeps the rows and the blobs explained.
LEMMA BlobsNext == RequestsInv /\ RequestsInv' /\ BlobsInv /\ [Next]_vars => BlobsInv'
<1> SUFFICES ASSUME RequestsInv, RequestsInv', BlobsInv, [Next]_vars
             PROVE  BlobsInv'
  OBVIOUS
<1>1. CASE UNCHANGED vars \/ FolderStep
  BY <1>1, FoldersAndEditorsKeepBlobs
<1>2. CASE \E k \in Presigns : Presign(k) \/ ClientPuts(k) \/ Expire(k)
  BY <1>2, PresignKeepsBlobs, ClientPutsKeepsBlobs, FoldersAndEditorsKeepBlobs
<1>3. CASE \E r \in Requests : UploadStep(r) \/ EditStep(r)
  BY <1>3, StartsKeepBlobs, PutKeepsBlobs, QuietKeepsBlobs, CreateRowKeepsBlobs DEF UploadStep
<1>4. CASE \E r \in Requests : CheckFolder(r) \/ Update(r) \/ EndScan(r) \/ Emitted(r) \/ Fail(r)
  BY <1>4, QuietKeepsBlobs
<1>5. CASE \E r \in Requests : Scan(r) \/ RemoveRow(r) \/ DeleteBlob(r)
  BY <1>5, FoldersAndEditorsKeepBlobs, RemoveRowKeepsBlobs, NothingToRemoveKeepsBlobs,
     DeleteBlobKeepsBlobs
<1>6. CASE \E d \in Docs, m \in Requests \cup {NoMedia} : WriteRef(d, m)
  BY <1>6, FoldersAndEditorsKeepBlobs
<1> QED BY <1>1, <1>2, <1>3, <1>4, <1>5, <1>6 DEF Next

\* However uploads, confirmations, deletions and failures cross: a row without its blob
\* shared it with a row that was deleted, and a blob without a row belongs to an upload
\* nobody confirmed or to a request that is, or broke off, between the two stores.
THEOREM BlobsStayExplained == Spec => []BlobsAreExplained
<1>1. RequestsInv /\ BlobsInv => BlobsAreExplained
  <2> SUFFICES ASSUME RequestsInv, BlobsInv PROVE BlobLostOnlyToTwin /\ OrphanBlobsAreExplained
    BY DEF BlobsAreExplained
  <2>1. BlobLostOnlyToTwin
    BY DEF BlobsInv, RowIsStored, Stored, Wiped, BlobLostOnlyToTwin, SharedWithDeleted
  <2>2. OrphanBlobsAreExplained
    BY DEF BlobsInv, RowKeys, Explained, UnderWay, OrphanBlobsAreExplained
  <2> QED BY <2>1, <2>2
<1> QED BY RequestsInit, RequestsNext, BlobsInit, BlobsNext, <1>1, PTL DEF Spec

\* The variables keep their types: no request, row, blob or reference is ever
\* of another kind than the ones the store holds.
THEOREM MediaTypesStay == Spec => []TypeOK
<1>1. PathsInv /\ RequestsInv /\ BlobsInv => TypeOK
  <2> SUFFICES ASSUME PathsInv, RequestsInv, BlobsInv PROVE TypeOK
    OBVIOUS
  <2>1. ASSUME NEW m \in DOMAIN media
        PROVE  media[m] \in [key : Keys, folder : Folders \cup Roots]
    <3>1. /\ media[m] \in [key : Keys \cup {NoMedia}, folder : Folders \cup Roots]
          /\ m \in Requests /\ RowIsItsRequests(m)
      BY DEF RequestsInv, RowsOK, BlobsInv
    <3>2. req[m].key \in Keys
      BY <3>1 DEF BlobsInv, RequestOK, KeyIsItsOwn, RowIsItsRequests, Makes, Keys
    <3> QED BY <3>1, <3>2 DEF RowIsItsRequests
  <2> QED BY <2>1 DEF PathsInv, RequestsInv, RequestsOK, RowsOK, BlobsInv, StoresOK, TypeOK
<1> QED BY PathsInit, PathsNext, RequestsInit, RequestsNext, BlobsInit, BlobsNext, <1>1, PTL
        DEF Spec
=============================================================================
