--------------------------- MODULE MCHostExecution ---------------------------
EXTENDS HostExecution

ws == <<"ws">>
MCWorld == [p \in {<<>>, ws, <<"w">>, <<"w", "e">>, <<"w", "d">>, <<"w", "e", "f">>,
                   <<"o">>, <<"o", "f">>} |->
              CASE p = ws -> Link(<<"w">>)
                [] p = <<"w", "d">> -> Link(<<"w", "e">>)
                [] p \in {<<"w", "e", "f">>, <<"o", "f">>} -> File
                [] OTHER -> Dir]
\* The link may end in a sibling, outside, in itself or in nothing.
MCLinkTo == [p \in {ws, <<"w", "d">>} |->
               IF p = ws THEN {<<"w">>, <<"o">>}
               ELSE {<<"w", "e">>, <<"w">>, <<"o">>, <<"w", "d">>, <<"w", "n">>}]

Do(kind, op, cwd, target, to) ==
  [kind |-> kind, op |-> op, cwd |-> cwd, target |-> target, to |-> to]
d == <<"ws", "d">>
MCAction ==
  {Do("filesystem", op, Nothing, d \o <<"f">>, Nothing) : op \in {"read", "create", "write", "mkdir", "delete"}}
  \cup {Do("filesystem", op, d, <<".", "f">>, Nothing) : op \in {"write", "stat"}}
  \cup {Do("filesystem", op, Nothing, d, Nothing) : op \in {"write", "delete"}}
  \cup {Do("filesystem", "move", Nothing, d \o <<"f">>, ws \o <<"e", "g">>),
        Do("filesystem", "move", Nothing, ws \o <<"e", "f">>, d \o <<"g">>)}
  \cup {Do("shell", "run", cwd, Nothing, Nothing) : cwd \in {d, Nothing}}
  \cup {Do("git", op, d, Nothing, Nothing) : op \in {"status", "commit"}}
  \cup {Do("http", op, Nothing, <<"url">>, Nothing) : op \in {"read", "raw_credential"}}
  \cup {Do("mcp", "call", Nothing, <<"server", "tool">>, Nothing)}
=============================================================================
