--------------------------- MODULE MCAuditViewer ----------------------------
(* One event, which a viewer of the kind "a" does not list.                *)
EXTENDS AuditViewer

MCOtherKind == <<"b">>
=============================================================================
