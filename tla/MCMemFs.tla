------------------------------ MODULE MCMemFs ------------------------------
EXTENDS MemFs

P(abs, names) == [abs |-> abs, names |-> names]
LowerCase == [n \in {"", "a", "A", "b", "c"} |-> IF n = "A" THEN "a" ELSE n]
OpenPaths == {P(TRUE, <<>>), P(TRUE, <<"a">>), P(TRUE, <<"a", "..", "b">>)}
MakePaths == {P(TRUE, <<"A">>), P(FALSE, <<"b">>)}
ChdirPaths == {P(TRUE, <<"a">>), Up}

Files == {"open", "create", "close", "remove", "rmdir", "chdir", "seek", "read", "write"}
Trees == {"open", "mkdir", "rmdir", "rename", "readdir"}
Mounts == {"open", "close", "mkdir", "rmdir", "chdir", "mount", "reuse"}
AllPrograms == {Files, Trees, Mounts}
SeekBy == {-1, 0, 1}
Symmetric == Permutations(Opens) \union Permutations(Bytes)
=============================================================================
