----------------------------- MODULE MCConfigStore -----------------------------
(***************************************************************************)
(* ConfigStore with two backends: "claude", which needs no key, and "a",   *)
(* which has one.  The edits drop a backend, reorder them, clear a key,    *)
(* move the default, fill the empty profile of Copilot, and are refused    *)
(* when they come in the wrong order.                                      *)
(***************************************************************************)
EXTENDS ConfigStore

MCFirstConfig ==
    [EmptyConfig EXCEPT
        !.claude = [backends |-> <<"claude", "a">>, active |-> "claude",
                    keys |-> {"a"}, claude_settings |-> 0]]

Put(target, backends, active, given, cleared) ==
    [op |-> "put", target |-> target, backends |-> backends, active |-> active,
     given |-> given, cleared |-> cleared]

MCEdits ==
    { Put("claude", <<"claude">>, "claude", {}, {}),
      Put("claude", <<"a", "claude">>, "claude", {}, {}),
      Put("claude", <<"claude", "a">>, "claude", {}, {"a"}),
      [op |-> "copy", source |-> "claude", name |-> "a",
       target |-> "copilot", new_name |-> "a"],
      [op |-> "active", target |-> "claude", name |-> "a"] }

OneEdit == {Put("claude", <<"claude">>, "claude", {}, {})}
=============================================================================
