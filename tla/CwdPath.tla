------------------------------ MODULE CwdPath ------------------------------
(***************************************************************************)
(* The path of the working directory, as fs_chdir of src/src/fs.c keeps    *)
(* it.  A path is [abs, names]: whether it begins with a separator, and    *)
(* its names.  cwd is the sequence of names in cwdpath.                    *)
(***************************************************************************)
EXTENDS Integers, Sequences, SequencesExt

\* characters, names being one character long
PathLen(path) ==
    IF path.abs THEN (IF path.names = << >> THEN 1 ELSE 2 * Len(path.names))
    ELSE 2 * Len(path.names) - 1
Absolute(names) == [abs |-> TRUE, names |-> names]

\* ".." is the working directory's path less its last name, opened from the root
Target(cwd, path, up) == IF path = up THEN Absolute(Front(cwd)) ELSE path
Fits(cwd, path, up, size) == path = up \/ PathLen(Absolute(cwd)) + PathLen(path) <= size

\* Broken: an absolute path is appended as well.
NewCwd_append(cwd, path, up) == cwd \o path.names
NewCwd(cwd, path, up) ==
    IF path = up THEN Front(cwd)
    ELSE IF path.abs THEN path.names ELSE cwd \o path.names
=============================================================================
