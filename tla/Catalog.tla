------------------------------ MODULE Catalog ------------------------------
(***************************************************************************)
(* The tables of groups, clients, rules, lists, services and schedules,    *)
(* and the statements of their repositories                                *)
(* (crates/infrastructure/src/repositories).                               *)
(*                                                                         *)
(* `db` is a record of tables, a table a function from ids to rows.  A     *)
(* repository method is one statement or one transaction: it takes db and  *)
(* answers the db it leaves and an error or the id it wrote.  Ids are      *)
(* AUTOINCREMENT, so none is handed out twice.  Comments and timestamps    *)
(* are left out, as are the columns no rule reads.                         *)
(***************************************************************************)
EXTENDS Naturals, FiniteSetsExt, SequencesExt

DEFAULT_GROUP_ID == 1
NULL == 0  \* no group, no service, no id

\* An answer, and what its caller does next.
Ok(db, id) == [db |-> db, err |-> "", id |-> id, more |-> <<>>]
Err(db, e) == [db |-> db, err |-> e, id |-> NULL, more |-> <<>>]
Then(db, steps) == [db |-> db, err |-> "", id |-> NULL, more |-> steps]

\* A row with the fields an update names replaced: COALESCE(?, column).
Patch(row, update) == [f \in DOMAIN row |-> IF f \in DOMAIN update THEN update[f] ELSE row[f]]

Insert(db, table, row) ==
    Ok([db EXCEPT ![table] = @ @@ (db.seq + 1 :> row), !.seq = @ + 1], db.seq + 1)

Keep(rows, ids) == [i \in ids |-> rows[i]]
Without(rows, ids) == Keep(rows, DOMAIN rows \ ids)
Where(rows, field, v) == {i \in DOMAIN rows : rows[i][field] = v}

Drop(db, table, id, missing) ==
    IF id \notin DOMAIN db[table] THEN Err(db, missing)
    ELSE Ok([db EXCEPT ![table] = Without(@, {id})], id)

Change(db, table, id, update, missing) ==
    IF id \notin DOMAIN db[table] THEN Err(db, missing)
    ELSE Ok([db EXCEPT ![table][id] = Patch(@, update)], id)

\* Another row has the name an insert or update writes.
NameTaken(rows, name, except) == Where(rows, "name", name) \ {except} # {}

GroupExists(db, g) == g \in DOMAIN db.groups
NewGroupExists(db, update) == "group" \in DOMAIN update => GroupExists(db, update.group)

(***************************************************************************)
(* Groups.  Deleting one deletes what references it, and leaves its        *)
(* clients without a group.                                                *)
(***************************************************************************)
GroupRepoCreate(db, row) ==
    IF NameTaken(db.groups, row.name, NULL) THEN Err(db, "AlreadyExists")
    ELSE Insert(db, "groups", [row EXCEPT !.default = FALSE])

GroupRepoUpdate(db, id, update) ==
    IF "name" \in DOMAIN update /\ NameTaken(db.groups, update.name, id)
    THEN Err(db, "AlreadyExists")
    ELSE Change(db, "groups", id, update, "GroupNotFound")

\* The foreign keys on groups(id).
Cascade(db, g) ==
    LET NotIn(rows) == Without(rows, Where(rows, "group", g))
        Off(rows) == [i \in DOMAIN rows |-> [rows[i] EXCEPT !.groups = @ \ {g}]]
    IN  [db EXCEPT !.clients = [c \in DOMAIN @ |->
                        [@[c] EXCEPT !.group = IF @ = g THEN NULL ELSE @]],
                   !.subnets = NotIn(@), !.managed = NotIn(@), !.regexes = NotIn(@),
                   !.blocked = NotIn(@), !.safeSearch = NotIn(@), !.assigned = NotIn(@),
                   !.blocklists = Off(@), !.whitelists = Off(@)]

GroupRepoDelete(db, id) ==
    IF ~GroupExists(db, id) THEN Err(db, "GroupNotFound")
    ELSE Ok([Cascade(db, id) EXCEPT !.groups = Without(@, {id})], id)

ClientsInGroup(db, g) == Where(db.clients, "group", g)

count_clients_in_group(db, g) == Cardinality(ClientsInGroup(db, g))

\* Default group first; each with the clients it has.
GroupsWithCounts(db) == [g \in DOMAIN db.groups |-> count_clients_in_group(db, g)]

(***************************************************************************)
(* Clients                                                                 *)
(***************************************************************************)
NewClient(ip) ==
    [ip |-> ip, group |-> NULL, host |-> "", hostFrom |-> "", hostOld |-> FALSE, mac |-> FALSE, recent |-> TRUE]

ByIp(db, ip) == Where(db.clients, "ip", ip)

\* The client table's writer: a query from an address makes or touches its row.
track_loop(db, ip) ==
    IF ByIp(db, ip) = {} THEN Insert(db, "clients", NewClient(ip))
    ELSE Ok([db EXCEPT !.clients = [c \in DOMAIN @ |->
                IF @[c].ip = ip THEN [@[c] EXCEPT !.recent = TRUE] ELSE @[c]]], NULL)

get_or_create(db, ip) ==
    IF ByIp(db, ip) = {} THEN Insert(db, "clients", NewClient(ip))
    ELSE Ok(db, CHOOSE c \in ByIp(db, ip) : TRUE)

SetByIp(db, ip, update) ==
    Ok([db EXCEPT !.clients = [c \in DOMAIN @ |->
            IF @[c].ip = ip THEN Patch(@[c], update) ELSE @[c]]], NULL)

update_mac_address(db, ip) == SetByIp(db, ip, [mac |-> TRUE])

\* One transaction over the addresses the ARP table knows.
batch_update_mac_addresses(db, ips) ==
    Ok([db EXCEPT !.clients = [c \in DOMAIN @ |->
            IF @[c].ip \in ips THEN [@[c] EXCEPT !.mac = TRUE] ELSE @[c]]], NULL)

\* An automatic source replaces no name set by hand, and a PTR lookup no name
\* from mDNS that is less than a day old.
MayRename(client, source) ==
    CASE source = "Manual" -> TRUE
      [] source = "Mdns" -> client.hostFrom # "Manual"
      [] source = "Ptr" -> \/ client.hostFrom \in {"", "Ptr"}
                           \/ client.hostFrom = "Mdns" /\ client.hostOld

update_hostname(db, ip, host, source) ==
    Ok([db EXCEPT !.clients = [c \in DOMAIN @ |->
            IF @[c].ip = ip /\ MayRename(@[c], source)
            THEN [@[c] EXCEPT !.host = host, !.hostFrom = source, !.hostOld = FALSE] ELSE @[c]]], NULL)

\* Clients no query has come from for the retention period.
delete_older_than(db) ==
    Ok([db EXCEPT !.clients = Without(@, Where(@, "recent", FALSE))], NULL)

assign_group(db, id, g) ==
    IF ~GroupExists(db, g) /\ id \in DOMAIN db.clients THEN Err(db, "GroupNotFound")
    ELSE Change(db, "clients", id, [group |-> g], "NotFound")

ClientRepoDelete(db, id) == Drop(db, "clients", id, "NotFound")

(***************************************************************************)
(* Client subnets                                                          *)
(***************************************************************************)
SubnetExists(db, cidr) == Where(db.subnets, "cidr", cidr) # {}

SubnetRepoCreate(db, cidr, g) ==
    CASE SubnetExists(db, cidr) -> Err(db, "SubnetConflict")
      [] ~GroupExists(db, g) -> Err(db, "GroupNotFound")
      [] OTHER -> Insert(db, "subnets", [cidr |-> cidr, group |-> g])

SubnetRepoUpdate(db, id, g) ==
    IF id \in DOMAIN db.subnets /\ ~GroupExists(db, g) THEN Err(db, "GroupNotFound")
    ELSE Change(db, "subnets", id, [group |-> g], "SubnetNotFound")

SubnetRepoDelete(db, id) == Drop(db, "subnets", id, "SubnetNotFound")

(***************************************************************************)
(* Managed domains and regex filters                                       *)
(***************************************************************************)
\* Managed names are unique in their group.
ManagedTaken(db, name, g, except) ==
    \E i \in DOMAIN db.managed \ {except} : db.managed[i].name = name /\ db.managed[i].group = g

ManagedRepoCreate(db, row) ==
    CASE ManagedTaken(db, row.name, row.group, NULL) -> Err(db, "AlreadyExists")
      [] ~GroupExists(db, row.group) -> Err(db, "GroupNotFound")
      [] OTHER -> Insert(db, "managed", [row EXCEPT !.service = ""])

ManagedRepoUpdate(db, id, update) ==
    LET row == Patch(db.managed[id], update)
    IN  CASE id \notin DOMAIN db.managed -> Err(db, "ManagedDomainNotFound")
          [] ManagedTaken(db, row.name, row.group, id) -> Err(db, "AlreadyExists")
          [] ~NewGroupExists(db, update) -> Err(db, "GroupNotFound")
          [] OTHER -> Change(db, "managed", id, update, "ManagedDomainNotFound")

ManagedRepoDelete(db, id) == Drop(db, "managed", id, "ManagedDomainNotFound")

\* A rule of a service is named after what the service is called, not after its id.
RuleName(called, rule) == [by |-> called, rule |-> rule]

Collides(db, called, g, domains) == {d \in domains : ManagedTaken(db, RuleName(called, d), g, NULL)}

\* One rule per domain of a service, in one transaction; one whose name the group has is ignored.
bulk_create_for_service(db, service, called, g, domains) ==
    LET names == SetToSeq(domains \ Collides(db, called, g, domains))
        row(d) == [name |-> RuleName(called, d), rule |-> d, action |-> "Deny",
                   group |-> g, enabled |-> TRUE, service |-> service]
        new == [i \in db.seq + 1 .. db.seq + Len(names) |-> row(names[i - db.seq])]
    IN  IF domains # {} /\ ~GroupExists(db, g) THEN Err(db, "DatabaseError")
        ELSE Ok([db EXCEPT !.managed = @ @@ new, !.seq = @ + Len(names)], NULL)

delete_by_service(db, service, g) ==
    Ok([db EXCEPT !.managed =
            Without(@, Where(@, "service", service) \cap Where(@, "group", g))], NULL)

delete_all_by_service(db, service) ==
    Ok([db EXCEPT !.managed = Without(@, Where(@, "service", service))], NULL)

\* `valid`: the patterns that compile.
RegexRepoCreate(db, row, valid) ==
    CASE row.pattern \notin valid -> Err(db, "InvalidRegexFilter")
      [] NameTaken(db.regexes, row.name, NULL) -> Err(db, "AlreadyExists")
      [] ~GroupExists(db, row.group) -> Err(db, "GroupNotFound")
      [] OTHER -> Insert(db, "regexes", row)

RegexRepoUpdate(db, id, update, valid) ==
    CASE "pattern" \in DOMAIN update /\ update.pattern \notin valid -> Err(db, "InvalidRegexFilter")
      [] id \notin DOMAIN db.regexes -> Err(db, "RegexFilterNotFound")
      [] "name" \in DOMAIN update /\ NameTaken(db.regexes, update.name, id) -> Err(db, "AlreadyExists")
      [] ~NewGroupExists(db, update) -> Err(db, "GroupNotFound")
      [] OTHER -> Change(db, "regexes", id, update, "RegexFilterNotFound")

RegexRepoDelete(db, id) == Drop(db, "regexes", id, "RegexFilterNotFound")

(***************************************************************************)
(* Lists: `table` is "blocklists" or "whitelists"                          *)
(***************************************************************************)
SourceNotFound(table) ==
    IF table = "blocklists" THEN "BlocklistSourceNotFound" ELSE "WhitelistSourceNotFound"

\* The row and the groups it is assigned to, in one transaction.
SourceRepoCreate(db, table, row) ==
    CASE NameTaken(db[table], row.name, NULL) -> Err(db, "AlreadyExists")
      [] ~(row.groups \subseteq DOMAIN db.groups) -> Err(db, "DatabaseError")
      [] OTHER -> Insert(db, table, [row EXCEPT !.status = "none"])

SourceRepoUpdate(db, table, id, update) ==
    CASE "name" \in DOMAIN update /\ NameTaken(db[table], update.name, id) -> Err(db, "AlreadyExists")
      [] id \notin DOMAIN db[table] -> Err(db, SourceNotFound(table))
      [] "groups" \in DOMAIN update /\ ~(update.groups \subseteq DOMAIN db.groups) ->
            Err(db, "DatabaseError")
      [] OTHER -> Change(db, table, id, update, SourceNotFound(table))

SourceRepoDelete(db, table, id) == Drop(db, table, id, SourceNotFound(table))

\* How each download a rebuild tried went; only one that came is a sync.
record_downloads(db, table, statuses) ==
    [db EXCEPT ![table] = [s \in DOMAIN @ |->
        IF s \in DOMAIN statuses THEN [@[s] EXCEPT !.status = statuses[s]] ELSE @[s]]]

(***************************************************************************)
(* Services, schedules, safe search                                        *)
(***************************************************************************)
BlockedRows(db, service, g) ==
    Where(db.blocked, "service", service) \cap Where(db.blocked, "group", g)

BlockedRepoBlock(db, service, g) ==
    CASE BlockedRows(db, service, g) # {} -> Err(db, "BlockedServiceAlreadyExists")
      [] ~GroupExists(db, g) -> Err(db, "GroupNotFound")
      [] OTHER -> Insert(db, "blocked", [service |-> service, group |-> g])

BlockedRepoUnblock(db, service, g) ==
    IF BlockedRows(db, service, g) = {} THEN Err(db, "NotFound")
    ELSE Ok([db EXCEPT !.blocked = Without(@, BlockedRows(db, service, g))], NULL)

delete_all_for_service(db, service) ==
    Ok([db EXCEPT !.blocked = Without(@, Where(@, "service", service))], NULL)

CustomRow(db, service) == Where(db.custom, "service", service)

CustomRepoCreate(db, service, name, domains) ==
    IF CustomRow(db, service) # {} THEN Err(db, "CustomServiceAlreadyExists")
    ELSE Insert(db, "custom", [service |-> service, name |-> name, domains |-> domains])

CustomRepoUpdate(db, service, update) ==
    IF CustomRow(db, service) = {} THEN Err(db, "CustomServiceNotFound")
    ELSE Change(db, "custom", CHOOSE i \in CustomRow(db, service) : TRUE, update, "")

CustomRepoDelete(db, service) ==
    IF CustomRow(db, service) = {} THEN Err(db, "CustomServiceNotFound")
    ELSE Ok([db EXCEPT !.custom = Without(@, CustomRow(db, service))], NULL)

ProfileRepoCreate(db, row) ==
    IF NameTaken(db.profiles, row.name, NULL) THEN Err(db, "DuplicateScheduleProfileName")
    ELSE Insert(db, "profiles", row)

ProfileRepoUpdate(db, id, update) ==
    IF "name" \in DOMAIN update /\ NameTaken(db.profiles, update.name, id)
    THEN Err(db, "DuplicateScheduleProfileName")
    ELSE Change(db, "profiles", id, update, "ScheduleProfileNotFound")

\* The profile's slots and assignments go with it.
ProfileRepoDelete(db, id) ==
    IF id \notin DOMAIN db.profiles THEN Err(db, "ScheduleProfileNotFound")
    ELSE Ok([db EXCEPT !.profiles = Without(@, {id}),
                       !.slots = Without(@, Where(@, "profile", id)),
                       !.assigned = Without(@, Where(@, "profile", id))], NULL)

get_slots(db, profile) == {db.slots[i] : i \in Where(db.slots, "profile", profile)}

SlotRepoAdd(db, slot) ==
    IF slot.profile \notin DOMAIN db.profiles THEN Err(db, "ScheduleProfileNotFound")
    ELSE Insert(db, "slots", slot)

SlotRepoDelete(db, id) == Drop(db, "slots", id, "TimeSlotNotFound")

\* One profile per group: a second assignment replaces the first.
assign_to_group(db, g, profile) ==
    LET old == Where(db.assigned, "group", g)
        row == [group |-> g, profile |-> profile]
    IN  CASE ~GroupExists(db, g) \/ profile \notin DOMAIN db.profiles -> Err(db, "DatabaseError")
          [] old # {} -> Ok([db EXCEPT !.assigned = [i \in DOMAIN @ |-> IF i \in old THEN row ELSE @[i]]], NULL)
          [] OTHER -> Insert(db, "assigned", row)

unassign_from_group(db, g) ==
    Ok([db EXCEPT !.assigned = Without(@, Where(@, "group", g))], NULL)

\* One row per group and engine.
SafeSearchUpsert(db, row) ==
    LET old == Where(db.safeSearch, "group", row.group) \cap Where(db.safeSearch, "engine", row.engine)
    IN  CASE ~GroupExists(db, row.group) -> Err(db, "GroupNotFound")
          [] old # {} -> Ok([db EXCEPT !.safeSearch =
                                [i \in DOMAIN @ |-> IF i \in old THEN row ELSE @[i]]], NULL)
          [] OTHER -> Insert(db, "safeSearch", row)

SafeSearchDelete(db, g) ==
    Ok([db EXCEPT !.safeSearch = Without(@, Where(@, "group", g))], NULL)

============================================================================
