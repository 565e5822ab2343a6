--------------------------- MODULE MCFtpNavigator ---------------------------
EXTENDS FtpNavigator

\* Three levels of directories; c exists under a only.
TreeDirs == {<<>>, <<"a">>, <<"b">>, <<"a", "b">>, <<"a", "c">>, <<"b", "a">>,
             <<"a", "b", "a">>}

Slash(parts) == [root |-> "/", parts |-> parts]

\* Every directory of the tree, and two that do not exist.
PlainPaths == {Slash(d) : d \in TreeDirs \cup {<<"c">>, <<"b", "c">>}}

\* The same tree on two drives, and with the plain paths others on the drives, a
\* relative one and one with a trailing slash.
DriveDirs == TreeDirs \cup {<<drive>> \o d : drive \in Drives, d \in TreeDirs}
AllPaths == PlainPaths \cup
              {[root |-> "", parts |-> <<"a">>], [root |-> "C:", parts |-> <<"a">>],
               [root |-> "C:", parts |-> <<"b", "a">>],
               [root |-> "C:", parts |-> <<"a", "">>],
               [root |-> "D:", parts |-> <<"a">>], Slash(<<"a", "">>)}

=============================================================================
