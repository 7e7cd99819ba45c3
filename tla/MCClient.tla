------------------------------ MODULE MCClient ------------------------------
EXTENDS ClientPages, ClientTables

\* The dialogs of all pages with what their calls' answers do; without the one
\* for bookmarks, whose fields stay when it is opened for another bookmark.
MCRows ==
    { [call |-> d.call, how |-> d.how,
       ends |-> UNION {w.ends : w \in {v \in AllWrites : v.call = d.call}}]
      : d \in {e \in AllDialogs : e.call # "bookmarks.update"} }

Input(name, type) == [name |-> name, type |-> type]

Script(s, name, in) == [service |-> s, script |-> name, inputs |-> in]

MCScripts ==
    { Script("web", "deploy", {}), Script("web", "status", {}), Script("db", "deploy", {}),
      Script("web", "load", {Input("dump", "file"), Input("extra", "multi_file"),
                             Input("hosts", "list")}),
      Script("db", "keys", {Input("who", "ssh_key_select"), Input("note", "text"),
                            Input("extra", "multi_file")}) }

MCLibrary == <<"l1", "l2">>

MCAnnounced == <<"s1", "s2">>

MCSections == <<"stats", "health">>

(* Only is SelectSeq, which the provers do not expand.                        *)
ASSUME OnlyIsSelectSeq ==
    \A s \in BoundedSeq({1, 2, 3}, 5), S \in SUBSET {1, 2, 3} :
        LET Test(x) == x \in S IN Only(s, S) = SelectSeq(s, Test)
=============================================================================
