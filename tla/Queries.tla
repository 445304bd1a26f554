------------------------------- MODULE Queries -------------------------------
(***************************************************************************)
(* What clients read: the queries of src/app/domain/cidr/services.py and   *)
(* the handlers of src/app/domain/cidr/controllers.py.  Each is one        *)
(* statement over the committed tables, so an expression over them.  The   *)
(* filter by tags, which narrows the lists as a list_id does, is left out. *)
(***************************************************************************)
EXTENDS Database

SelectEnabledByType(user, type) == RowsOf(cidr, EnabledLists(user, type))

SelectEnabledByTypeAndId(user, type, id) ==
    RowsOf(cidr, EnabledLists(user, type) \cap {id})

\* get_cidr_records, for get_cidrs: list_id is {id}, or {} when the request gives
\* none.  Rows that have expired are among the answer until they are deleted.
GetCidrRecords(user, type, list_id) ==
    IF list_id = {} THEN SelectEnabledByType(user, type)
    ELSE UNION {SelectEnabledByTypeAndId(user, type, id) : id \in list_id}

\* get_collapsed_cidrs and get_collapsed_by_version_cidrs.
GetCollapsed(user, type, list_id) ==
    Collapsed(Cover({k[1] : k \in GetCidrRecords(user, type, list_id)}))

\* The addresses a client is told to block or to let pass.
Answered(user, type, list_id) == Cover(GetCollapsed(user, type, list_id))
=============================================================================
