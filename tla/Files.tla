-------------------------------- MODULE Files --------------------------------
(***************************************************************************)
(* The files of an interpreter sprite (the map FS of internal/sprite) and  *)
(* what can be done to them: the scripted commands of exec.go and the file *)
(* operations of config.go.                                                *)
(*                                                                         *)
(* A path is the sequence of the names in it, so that a path lies under    *)
(* another one when it extends it; a file system is a function from the    *)
(* paths that exist to contents.  There are no directories of their own.   *)
(***************************************************************************)
EXTENDS Naturals, SequencesExt

CONSTANTS
    Path,       \* sequences of names
    Content,
    Blank,      \* the empty string
    Output,     \* "/work/output"
    Corrupt     \* "partial-corrupt"

ASSUME FilesAssumption ==
    /\ Output \in Path
    /\ Blank \in Content /\ Corrupt \in Content

Tree == UNION {[S -> Content] : S \in SUBSET Path}

Empty == [p \in {} |-> Blank]

Put(t, p, v) == [q \in DOMAIN t \cup {p} |-> IF q = p THEN v ELSE t[q]]

Drop(t, gone) == [q \in DOMAIN t \ gone |-> t[q]]

\* Reading a key a Go map does not have gives the empty string.
Read(t, p) == IF p \in DOMAIN t THEN t[p] ELSE Blank

(***************************************************************************)
(* The segments of a command line, by the form they match.  What they      *)
(* print is left out; `other` stands for the ones that change nothing      *)
(* (echo, cat, true, false and the unknown commands).                      *)
(***************************************************************************)
Segment ==
    [op : {"copy"}, from : Path, to : Path]         \* cat FROM > TO
        \cup [op : {"write"}, text : Content, to : Path]    \* echo TEXT > TO
        \cup [op : {"rm"}, to : Path]
        \cup [op : {"risky", "other"}]              \* ./risky.sh

Do(t, s) ==
    CASE s.op = "copy"  -> Put(t, s.to, Read(t, s.from))
      [] s.op = "write" -> Put(t, s.to, s.text)
      [] s.op = "rm"    -> Drop(t, {s.to})
      [] s.op = "risky" -> Put(t, Output, Corrupt)
      [] OTHER          -> t

\* execInto: the segments in order, whatever their exit codes.
Run(t, cmd) == FoldLeft(Do, t, cmd)

(***************************************************************************)
(* Remove with `recursive`: the path itself and every path under it.       *)
(***************************************************************************)
Below(p) == {q \in Path : IsPrefix(p, q)}
=============================================================================
