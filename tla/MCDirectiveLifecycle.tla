------------------------ MODULE MCDirectiveLifecycle ------------------------
(* DirectiveLifecycle on the files of Directives.cfg. *)
EXTENDS DirectiveLifecycle
=============================================================================
