------------------------------ MODULE MakePatch ------------------------------
(***************************************************************************)
(* PatchTools/make_patch.py: two trees of files are walked, the old one    *)
(* first, and what an installation needs to go from one to the other is    *)
(* put in a zip file with the list of the files to delete.  A file is      *)
(* installed under another name than its path: see dirmap().               *)
(***************************************************************************)
EXTENDS FiniteSets

CONSTANTS
  Path,          \* paths in a tree
  Dest,          \* [Path -> names in an installation], dirmap() of the directory
  Kept,          \* names should_skip() leaves out, release.py among them
  Log,           \* paths in the directory ServerLog itself
  ReleasePath, Release,  \* Server/release.py and its name
  Content        \* contents of files, but for the date in the version

ASSUME PatchAssumption ==
  /\ ReleasePath \in Path \ Log /\ Dest[ReleasePath] = Release
  /\ Release \in Kept

VARIABLES
  oldTree, newTree, \* [paths -> Content]
  newDirs,       \* paths that are directories of the new tree
  walk,          \* "old", "new", "end", "done" or "failed"
  left,          \* the paths of the tree that is walked not looked at yet
  seen, deleted, \* names
  zip,           \* [names -> contents], the last one written under a name
  folders        \* names written as directories

patchVars == <<oldTree, newTree, newDirs, walk, left, seen, deleted, zip, folders>>

Tree == UNION {[paths -> Content] : paths \in SUBSET Path}

PatchStart(o, n, dirs) ==
  /\ dirs \cap DOMAIN n = {}
  /\ oldTree = o /\ newTree = n /\ newDirs = dirs
  /\ walk = "old" /\ left = DOMAIN o \ Log
  /\ seen = {} /\ deleted = {} /\ folders = {}
  /\ zip = [d \in {} |-> CHOOSE c \in Content : TRUE]

Write(d, c) == zip' = [x \in DOMAIN zip \cup {d} |-> IF x = d THEN c ELSE zip[x]]

trees == <<oldTree, newTree, newDirs>>

\* mutant: files that are gone are left in place
WalkOld_Seen ==
  /\ walk = "old"
  /\ \E p \in left :
       /\ left' = left \ {p}
       /\ IF Dest[p] \in Kept \/ p \notin DOMAIN newTree
          THEN UNCHANGED <<seen, zip>>
          ELSE /\ seen' = seen \cup {Dest[p]}
               /\ IF newTree[p] # oldTree[p] THEN Write(Dest[p], newTree[p]) ELSE UNCHANGED zip
  /\ UNCHANGED <<trees, walk, deleted, folders>>

\* A file of the old tree is deleted, written if its content changed, and seen.
\* A directory of that name exists, differs from any file, and is written as an
\* entry without content.
WalkOld ==
  /\ walk = "old"
  /\ \E p \in left :
       /\ left' = left \ {p}
       /\ IF Dest[p] \in Kept THEN UNCHANGED <<seen, deleted, zip, folders>>
          ELSE /\ seen' = seen \cup {Dest[p]}
               /\ deleted' = IF p \in DOMAIN newTree \cup newDirs THEN deleted
                             ELSE deleted \cup {Dest[p]}
               /\ folders' = IF p \in newDirs THEN folders \cup {Dest[p]} ELSE folders
               /\ IF p \in DOMAIN newTree /\ newTree[p] # oldTree[p]
                  THEN Write(Dest[p], newTree[p]) ELSE UNCHANGED zip
  /\ UNCHANGED <<trees, walk>>

WalkedOld ==
  /\ walk = "old" /\ left = {}
  /\ walk' = "new" /\ left' = DOMAIN newTree \ Log
  /\ UNCHANGED <<trees, seen, deleted, zip, folders>>

\* A file of the new tree is added unless its name was seen.
WalkNew ==
  /\ walk = "new"
  /\ \E p \in left :
       /\ left' = left \ {p}
       /\ IF Dest[p] \in Kept \cup seen THEN UNCHANGED zip
          ELSE Write(Dest[p], newTree[p])
  /\ UNCHANGED <<trees, walk, seen, deleted, folders>>

WalkedNew ==
  /\ walk = "new" /\ left = {}
  /\ walk' = IF ReleasePath \in DOMAIN newTree THEN "end" ELSE "failed"
  /\ UNCHANGED <<trees, left, seen, deleted, zip, folders>>

\* release.py gets a version with a date, unless it had one; then delete.txt
AddRelease ==
  /\ walk = "end" /\ walk' = "done"
  /\ Write(Release, newTree[ReleasePath])
  /\ UNCHANGED <<trees, left, seen, deleted, folders>>

PatchNext == WalkOld \/ WalkedOld \/ WalkNew \/ WalkedNew \/ AddRelease

\* of any two trees
PatchSpec == (\E o, n \in Tree, dirs \in SUBSET Path : PatchStart(o, n, dirs)) /\ [][PatchNext]_patchVars

-----------------------------------------------------------------------------
\* what an installation made from a tree holds, and after the patch
Installed(tree) ==
  [d \in {Dest[p] : p \in DOMAIN tree \ Log} |->
     tree[CHOOSE p \in DOMAIN tree \ Log : Dest[p] = d]]

Patched(files) ==
  [d \in (DOMAIN files \ deleted) \cup DOMAIN zip |->
     IF d \in DOMAIN zip THEN zip[d] ELSE files[d]]

\* No two paths of the trees have one name.
OneName ==
  \A p, q \in (DOMAIN oldTree \cup DOMAIN newTree) \ Log : Dest[p] = Dest[q] => p = q

\* An installation of the old tree that gets the patch is one of the new tree,
\* but for the files make_patch.py keeps out, whichever way the patch is applied
\* (nothing is both deleted and written), and for one kind of leftover: a file
\* that became a directory is still there, and the patch has a directory of its
\* name.
PatchUpgrades ==
  walk = "done" /\ OneName =>
    /\ deleted \cap (DOMAIN zip \cup folders) = {}
    /\ LET got == Patched(Installed(oldTree))
           want == Installed(newTree)
       IN /\ DOMAIN got \ Kept = (DOMAIN want \ Kept) \cup folders
          /\ folders = {Dest[p] : p \in (DOMAIN oldTree \ Log) \cap newDirs} \ Kept
          /\ \A d \in DOMAIN want \ Kept : got[d] = want[d]
          /\ got[Release] = want[Release]
=============================================================================
