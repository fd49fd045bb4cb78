----------------------------- MODULE ToolSchema -----------------------------
(***************************************************************************)
(* The frozen v0 tool schema as far as calls are validated against it: the *)
(* required and the optional parameters of the five tools                  *)
(* (docs/phases/tool_schema.v0.json, src/sutradhar/toolcalls.py).  A call  *)
(* is [tool, arguments], its arguments a function of their names.          *)
(***************************************************************************)

ToolParams ==
    [resolve_title  |-> [required |-> {"title"}, optional |-> {"language"}],
     search_by_plot |-> [required |-> {"description"}, optional |-> {"top_k"}],
     get_work       |-> [required |-> {"work_id"}, optional |-> {}],
     get_versions   |-> [required |-> {"work_id"}, optional |-> {"scope", "include_sequels"}],
     refine_filter  |-> [required |-> {"version_set", "by"}, optional |-> {}]]

ValidCall(call) ==
    /\ call.tool \in DOMAIN ToolParams
    /\ ToolParams[call.tool].required \subseteq DOMAIN call.arguments
    /\ DOMAIN call.arguments \subseteq
           ToolParams[call.tool].required \cup ToolParams[call.tool].optional
=============================================================================
