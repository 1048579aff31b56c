---------------------------- MODULE MediaFolders ----------------------------
(***************************************************************************)
(* The folder tree of the media plugin, as MemoryMediaFolderStore keeps    *)
(* it: a map from folder ids to a name, a parent and a path derived from   *)
(* both.  Every operation runs without an await, so it is one step; one    *)
(* that throws changes nothing and is no step here.                        *)
(*                                                                         *)
(* A name stands for itself up to case.  A parent is a folder, or `null`,  *)
(* or the empty string, which no check looks at either: the store takes it *)
(* for a parent of its own, different from `null`.                         *)
(***************************************************************************)
EXTENDS Sequences, FiniteSets

CONSTANTS
    Folders,    \* the ids a folder may be given
    Names,      \* the folder names
    Null,       \* the parent `null`
    Blank       \* the parent ""

Roots == {Null, Blank}

ASSUME FoldersAssumption == Null \notin Folders /\ Blank \notin Folders

VARIABLES
    folder,         \* the map: id -> [name, parent, path]
    freshFolders    \* the ids not given yet

Exists(f) == f \in DOMAIN folder

\* A set of folders that contains, with a folder, its parent.
UpwardClosed(S) == \A f \in S \cap DOMAIN folder :
                     folder[f].parent \in DOMAIN folder => folder[f].parent \in S

\* The walk from f to the root passes through g: every upward closed set with
\* f has g.
IsDescendant(g, f) == \A S \in SUBSET DOMAIN folder : f \in S /\ UpwardClosed(S) => g \in S

Descendants(f) == {g \in DOMAIN folder \ {f} : IsDescendant(f, g)}

NameTaken(n, p, others) == \E g \in others : folder[g].parent = p /\ folder[g].name = n

BuildPath(p, n) == IF p \in DOMAIN folder THEN Append(folder[p].path, n) ELSE <<n>>

\* Mutant of CreateFolder: an id may be given again.
CreateFolderIdStaysFresh(f, n, p) ==
    /\ f \in freshFolders
    /\ p \in DOMAIN folder \cup Roots
    /\ ~NameTaken(n, p, DOMAIN folder)
    /\ folder' = [g \in DOMAIN folder \cup {f} |->
                    IF g = f THEN [name |-> n, parent |-> p, path |-> BuildPath(p, n)]
                             ELSE folder[g]]
    /\ UNCHANGED freshFolders

CreateFolder(f, n, p) ==
    /\ f \in freshFolders
    /\ p \in DOMAIN folder \cup Roots
    /\ ~NameTaken(n, p, DOMAIN folder)
    /\ folder' = [g \in DOMAIN folder \cup {f} |->
                    IF g = f THEN [name |-> n, parent |-> p, path |-> BuildPath(p, n)]
                             ELSE folder[g]]
    /\ freshFolders' = freshFolders \ {f}

\* Mutant of CanMove: the folder is kept out of its own children only.
CanMoveShallow(f, p) == /\ p \in (DOMAIN folder \cup Roots) \ {f}
                        /\ p \in DOMAIN folder => folder[p].parent # f

CanMove(f, p) == /\ p \in (DOMAIN folder \cup Roots) \ {f}
                 /\ p \in DOMAIN folder => ~IsDescendant(f, p)

\* Mutant of NewPaths: only the folder itself and its children are renamed.
NewPathsShallow(f, n, p) ==
    [g \in DOMAIN folder |->
       IF g = f THEN BuildPath(p, n)
       ELSE IF folder[g].parent = f THEN Append(BuildPath(p, n), folder[g].name)
       ELSE folder[g].path]

\* The paths once f has name n and parent p: those of its descendants are
\* built anew, downwards, the others stay.
NewPaths(f, n, p) ==
    LET P[g \in DOMAIN folder] ==
          IF g = f THEN BuildPath(p, n)
          ELSE IF g \in Descendants(f) THEN Append(P[folder[g].parent], folder[g].name)
          ELSE folder[g].path
    IN  P

\* A rename, a move, or both.
UpdateFolder(f, n, p) ==
    /\ Exists(f)
    /\ CanMove(f, p)
    /\ ~NameTaken(n, p, DOMAIN folder \ {f})
    /\ folder' = [g \in DOMAIN folder |->
                    [name |-> IF g = f THEN n ELSE folder[g].name,
                     parent |-> IF g = f THEN p ELSE folder[g].parent,
                     path |-> NewPaths(f, n, p)[g]]]
    /\ UNCHANGED freshFolders

RemoveFolders(S) == /\ folder' = [g \in DOMAIN folder \ S |-> folder[g]]
                    /\ UNCHANGED freshFolders

-----------------------------------------------------------------------------
(* Properties. *)

FoldersTypeOK == /\ DOMAIN folder \subseteq Folders \ freshFolders
                 /\ freshFolders \subseteq Folders
                 /\ \A f \in DOMAIN folder :
                      folder[f] \in [name : Names, parent : Folders \cup Roots, path : Seq(Names)]

\* Any sequence of creations, moves and deletions leaves a forest: every
\* parent exists, and no set of folders hangs on itself.
ParentsExist == \A f \in DOMAIN folder : folder[f].parent \in DOMAIN folder \cup Roots

Acyclic == ~\E S \in SUBSET DOMAIN folder : S # {} /\ \A f \in S : folder[f].parent \in S

Forest == ParentsExist /\ Acyclic

\* No folder has two children of one name.
SiblingsDiffer ==
    \A f, g \in DOMAIN folder :
      folder[f].parent = folder[g].parent /\ folder[f].name = folder[g].name => f = g

\* What the tree is drawn from: every walk up ends, and a name finds one folder.
TreeIsSound == Forest /\ SiblingsDiffer

\* The stored path is the one the stored names and parents spell.
PathsAreTrue == \A f \in DOMAIN folder : folder[f].path = BuildPath(folder[f].parent, folder[f].name)
=============================================================================
