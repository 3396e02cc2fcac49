---------------------------- MODULE FileConfig -----------------------------
(***************************************************************************)
(* The file-backed config store client (src/models/file/file.go): List and *)
(* ListWithValues over a config directory whose contents change under it,  *)
(* as a mounted Kubernetes ConfigMap does (the "..data" link to a          *)
(* timestamped directory, the file links, and a new directory on every    *)
(* update).  A directory entry is a model value with a kind.               *)
(***************************************************************************)
EXTENDS FiniteSets

CONSTANTS
    Names,      \* entry names
    DataLink    \* the name "..data"

Kinds == {"file", "dir", "link_to_dir"}

VARIABLES
    dir,     \* dir[n]: the kind of entry n, or "absent"
    loaded   \* the last load: [done, ok, names] (names read when ok)

vars == <<dir, loaded>>

Present == {n \in Names : dir[n] # "absent"}

\* os.ReadFile of an entry succeeds on a file and on a link to a file;
\* a directory, or a link to one, gives "is a directory".
Readable(n) == dir[n] = "file"

\* List: the entries that are not directories and not named "..data"
\* (an entry that is a link reports IsDir false).
List == {n \in Present : dir[n] # "dir" /\ n # DataLink}

\* ListWithValues: os.ReadFile of every entry, in order, returning the first
\* error; the map of every entry otherwise.
ListWithValues ==
    IF \A n \in Present : Readable(n)
    THEN [done |-> TRUE, ok |-> TRUE, names |-> Present]
    ELSE [done |-> TRUE, ok |-> FALSE, names |-> {}]

Init ==
    /\ dir \in [Names -> Kinds \cup {"absent"}]
    /\ loaded = [done |-> FALSE, ok |-> FALSE, names |-> {}]

\* The directory changes (the kubelet swaps ..data, adds or drops entries).
Change ==
    /\ \E n \in Names, k \in Kinds \cup {"absent"} : dir' = [dir EXCEPT ![n] = k]
    /\ UNCHANGED loaded

\* A load of the namespaces through ListWithValues.
Load ==
    /\ loaded' = ListWithValues
    /\ UNCHANGED dir

Next == Change \/ Load

Spec == Init /\ [][Next]_vars

\* The two listings of the store interface agree: ListWithValues returns a
\* value for exactly the entries List returns, so a directory List can
\* serve is one ListWithValues can load.
ListingsAgree == loaded.done => loaded.ok /\ loaded.names = List

=============================================================================
