------------------------------ MODULE AdminApi ------------------------------
(***************************************************************************)
(* The administration handlers of the REST API (crates/api/src/handlers)   *)
(* and of the Pi-hole API (crates/api-pihole/src/handlers).                *)
(*                                                                         *)
(* A handler answers a request q with a task: items, each the steps of one *)
(* use case, done in order; the status when all goes well; and what an     *)
(* error does.  A REST handler has one item and its error is the answer.   *)
(* A Pi-hole write records the items that fail and goes on, its delete     *)
(* stops at the first.  Optional fields of a request are absent from its   *)
(* domain.                                                                 *)
(***************************************************************************)
EXTENDS UseCases

CONSTANTS
    UnsafeItems,   \* the items with a line break, or a blank where none may be
    Ips, Cidrs     \* the items that parse as an address, and as a subnet

Task(items, kind, ok) == [todo |-> items, kind |-> kind, ok |-> ok, good |-> 0, bad |-> 0,
                           wrote |-> FALSE]
Rest(steps, ok) == Task(<<steps>>, "rest", ok)
Refuse(status) == Task(<<>>, "rest", status)

Given(q, field, default) == IF field \in DOMAIN q THEN q[field] ELSE default
Only(q, fields) == [f \in DOMAIN q \cap fields |-> q[f]]

(***************************************************************************)
(* Errors                                                                  *)
(***************************************************************************)
NotFoundErrors ==
    {"NotFound", "GroupNotFound", "BlocklistSourceNotFound", "WhitelistSourceNotFound",
     "ManagedDomainNotFound", "RegexFilterNotFound", "CustomServiceNotFound", "ClientNotFound",
     "SubnetNotFound", "ServiceNotFoundInCatalog", "ScheduleProfileNotFound", "TimeSlotNotFound",
     "GroupHasNoSchedule", "ApiTokenNotFound", "UserNotFound"}

ConflictErrors ==
    {"MfaAlreadyEnabled", "DuplicateApiTokenName", "DuplicateUsername", "PasswordAlreadyConfigured",
     "DuplicateScheduleProfileName", "BlockedServiceAlreadyExists", "CustomServiceAlreadyExists",
     "SubnetConflict", "GroupHasAssignedClients", "GroupRoutedByPool", "AlreadyExists"}

BadRequestErrors ==
    {"MfaNotConfigured", "WebauthnNotConfigured", "WebauthnError", "InvalidUsername",
     "InvalidPassword", "InvalidInput", "InvalidIpAddress", "InvalidCidr",
     "InvalidSafeSearchEngine", "InvalidTimeSlot", "InvalidScheduleProfile",
     "InvalidBlocklistSource", "InvalidWhitelistSource", "InvalidManagedDomain",
     "InvalidRegexFilter", "InvalidGroupName", "ProtectedGroupCannotBeDisabled",
     "ProtectedGroupCannotBeDeleted"}

UnauthorizedErrors == {"InvalidCredentials", "AuthRequired", "InvalidMfaCode", "MfaChallengeExpired"}

\* The status of an error that both APIs answer alike; 500 is everything else.
CommonStatus(e) ==
    CASE e \in NotFoundErrors -> 404
      [] e \in ConflictErrors -> 409
      [] e \in BadRequestErrors -> 400
      [] e \in UnauthorizedErrors -> 401
      [] e = "ProtectedUser" -> 403
      [] e \in {"RateLimited", "DnsRateLimited", "DnsRateLimitedSlip"} -> 429
      [] OTHER -> 500

status_code(e) ==
    CASE e = "SessionNotFound" -> 404
      [] e \in {"Blocked", "DnsTunnelingDetected"} -> 403
      [] OTHER -> CommonStatus(e)

pihole_status_and_key(e) == IF e = "SessionNotFound" THEN 401 ELSE CommonStatus(e)

is_server_error(e) == pihole_status_and_key(e) = 500

\* What an error of an item does: to a REST request it is the answer, a Pi-hole
\* write goes on unless the server failed, a Pi-hole delete stops.  "Absent" is
\* no error: a delete that found nothing.
Failed(task, e) ==
    LET t == [task EXCEPT !.wrote = FALSE]
        answer(status) == [t EXCEPT !.todo = <<>>, !.kind = "rest", !.ok = status]
    IN  CASE task.kind = "rest" -> answer(status_code(e))
          [] task.kind = "delete" /\ e = "Absent" -> [t EXCEPT !.todo = Tail(@)]
          [] task.kind = "delete" /\ ~is_server_error(e) -> answer(400)
          [] task.kind = "record" /\ ~is_server_error(e) ->
                [t EXCEPT !.todo = Tail(@), !.bad = @ + 1]
          [] OTHER -> answer(pihole_status_and_key(e))

\* A write of which nothing was done is an error.
write_status(task) == IF task.good = 0 /\ task.bad > 0 THEN 400 ELSE task.ok

delete_reply(task) == IF task.good > 0 THEN 204 ELSE 404

Reply(task) ==
    CASE task.kind = "record" -> write_status(task)
      [] task.kind = "delete" -> delete_reply(task)
      [] OTHER -> task.ok

(***************************************************************************)
(* REST                                                                    *)
(***************************************************************************)
create_group(q) ==
    Rest(<<[do |-> "CreateGroup", row |-> [name |-> q.name, enabled |-> Given(q, "enabled", TRUE),
                malware |-> Given(q, "malware", TRUE), default |-> FALSE]]>>, 201)

update_group(q) ==
    Rest(<<[do |-> "UpdateGroup", id |-> q.id, update |-> Only(q, {"name", "enabled", "malware"})]>>, 200)

delete_group(q) == Rest(<<[do |-> "DeleteGroup", id |-> q.id]>>, 204)

assign_client_to_group(q) ==
    Rest(<<[do |-> "AssignClientGroup", id |-> q.id, group |-> q.group]>>, 200)

create_manual_client(q) ==
    IF q.ip = "" THEN Refuse(400)
    ELSE Rest(<<[do |-> "CreateManualClient", ip |-> q.ip, group |-> Given(q, "group", NULL),
                 host |-> Given(q, "host", "")]>>, 201)

update_manual_client(q) ==
    Rest(<<[do |-> "UpdateClient", id |-> q.id, group |-> Given(q, "group", NULL),
            host |-> Given(q, "host", "")]>>, 200)

delete_manual_client(q) == Rest(<<[do |-> "DeleteClient", id |-> q.id]>>, 204)

create_subnet(q) ==
    Rest(<<[do |-> "CreateClientSubnet", cidr |-> q.cidr, group |-> q.group]>>, 201)

delete_subnet(q) == Rest(<<[do |-> "DeleteClientSubnet", id |-> q.id]>>, 204)

create_managed_domain(q) ==
    Rest(<<[do |-> "CreateManagedDomain",
            row |-> [name |-> q.name, rule |-> q.rule, action |-> q.action, service |-> "",
                     group |-> Given(q, "group", DEFAULT_GROUP_ID),
                     enabled |-> Given(q, "enabled", TRUE)]]>>, 201)

update_managed_domain(q) ==
    Rest(<<[do |-> "UpdateManagedDomain", id |-> q.id,
            update |-> Only(q, {"name", "rule", "action", "group", "enabled"})]>>, 200)

delete_managed_domain(q) == Rest(<<[do |-> "DeleteManagedDomain", id |-> q.id]>>, 204)

create_regex_filter(q) ==
    Rest(<<[do |-> "CreateRegexFilter",
            row |-> [name |-> q.name, pattern |-> q.pattern, action |-> q.action,
                     group |-> Given(q, "group", DEFAULT_GROUP_ID),
                     enabled |-> Given(q, "enabled", TRUE)]]>>, 201)

update_regex_filter(q) ==
    Rest(<<[do |-> "UpdateRegexFilter", id |-> q.id,
            update |-> Only(q, {"name", "pattern", "action", "group", "enabled"})]>>, 200)

delete_regex_filter(q) == Rest(<<[do |-> "DeleteRegexFilter", id |-> q.id]>>, 204)

\* group_ids unless empty, else the one group of an older client, else the default.
create_group_ids(q) ==
    IF Given(q, "groups", {}) # {} THEN q.groups ELSE {Given(q, "group", DEFAULT_GROUP_ID)}

\* group_ids even when empty, else the one group of an older client.
update_group_ids(q) ==
    CASE "groups" \in DOMAIN q -> [groups |-> q.groups]
      [] "group" \in DOMAIN q -> [groups |-> {q.group}]
      [] OTHER -> <<>>

SourceRow(q) ==
    [name |-> q.name, url |-> Given(q, "url", ""), groups |-> create_group_ids(q),
     enabled |-> Given(q, "enabled", TRUE), status |-> "none"]

create_blocklist_source(q) ==
    Rest(<<[do |-> "CreateBlocklistSource", row |-> SourceRow(q)]>>, 201)

update_blocklist_source(q) ==
    Rest(<<[do |-> "UpdateBlocklistSource", id |-> q.id,
            update |-> Only(q, {"name", "url", "enabled"}) @@ update_group_ids(q)]>>, 200)

delete_blocklist_source(q) == Rest(<<[do |-> "DeleteBlocklistSource", id |-> q.id]>>, 204)

\* 202 when it started a download, 409 when one was under way.
sync_blocklist_source(q) ==
    Rest(<<[do |-> "RequireBlocklistSource", id |-> q.id], [do |-> "sync"]>>, 202)

create_whitelist_source(q) ==
    Rest(<<[do |-> "CreateWhitelistSource", row |-> SourceRow(q)]>>, 201)

update_whitelist_source(q) ==
    Rest(<<[do |-> "UpdateWhitelistSource", id |-> q.id,
            update |-> Only(q, {"name", "url", "enabled"}) @@ update_group_ids(q)]>>, 200)

delete_whitelist_source(q) == Rest(<<[do |-> "DeleteWhitelistSource", id |-> q.id]>>, 204)

create_custom_service(q) ==
    Rest(<<[do |-> "CreateCustomService", name |-> q.name, domains |-> q.domains]>>, 201)

update_custom_service(q) ==
    Rest(<<[do |-> "UpdateCustomService", service |-> q.service, update |-> Only(q, {"name", "domains"})]>>, 200)

delete_custom_service(q) == Rest(<<[do |-> "DeleteCustomService", service |-> q.service]>>, 204)

block_service(q) ==
    Rest(<<[do |-> "BlockService", service |-> q.service, group |-> q.group]>>, 201)

unblock_service(q) ==
    Rest(<<[do |-> "UnblockService", service |-> q.service, group |-> q.group]>>, 204)

create_profile(q) == Rest(<<[do |-> "CreateScheduleProfile", row |-> [name |-> q.name]]>>, 201)

update_profile(q) ==
    Rest(<<[do |-> "UpdateScheduleProfile", id |-> q.id, update |-> Only(q, {"name"})]>>, 200)

delete_profile(q) == Rest(<<[do |-> "DeleteScheduleProfile", id |-> q.id]>>, 204)

add_slot(q) ==
    IF q.action \notin {"BlockAll", "AllowAll"} THEN Refuse(400)
    ELSE Rest(<<[do |-> "AddTimeSlot", slot |-> [profile |-> q.id, start |-> q.start,
                                                 end |-> q.end, action |-> q.action]]>>, 201)

\* The slot must be one of the profile in the path.
delete_slot(q) ==
    Rest(<<[do |-> "SlotOfProfile", id |-> q.slot, profile |-> q.id],
           [do |-> "SlotRepoDelete", id |-> q.slot]>>, 204)

assign_schedule(q) ==
    Rest(<<[do |-> "AssignProfile", group |-> q.id, profile |-> q.profile]>>, 200)

unassign_schedule(q) == Rest(<<[do |-> "UnassignProfile", group |-> q.id]>>, 204)

toggle_config(q) ==
    Rest(<<[do |-> "ToggleSafeSearch",
            row |-> [group |-> q.group, engine |-> q.engine, enabled |-> q.enabled]]>>, 200)

delete_configs_by_group(q) ==
    Rest(<<[do |-> "DeleteSafeSearchConfigs", group |-> q.group]>>, 204)

\* A file that does not parse, or of another version, restores nothing.
import_config(q) ==
    IF q.backup.version # SUPPORTED_VERSION THEN Refuse(400) ELSE Rest(ImportConfig(q.backup), 200)

(***************************************************************************)
(* Pi-hole.  Group 0 is the default group there.                           *)
(***************************************************************************)
Record(items, ok) == Task(items, "record", ok)
DeleteEach(steps) == Task([i \in DOMAIN steps |-> <<steps[i]>>], "delete", 204)

from_ftl_group_id(g) == IF g = 0 THEN DEFAULT_GROUP_ID ELSE g

first_group(q, default) ==
    IF Given(q, "groups", <<>>) = <<>> THEN default ELSE from_ftl_group_id(Head(q.groups))

FtlGroups(q) == {from_ftl_group_id(g) : g \in Range(q.groups)}

\* No item, an empty one or an unsafe one refuses the whole request.
AcceptItems(items, task) ==
    IF items = <<>> \/ "" \in Range(items) \/ Range(items) \cap UnsafeItems # {}
    THEN Refuse(400) ELSE task

EachOf(items, Of(_)) == [i \in DOMAIN items |-> <<Of(items[i])>>]

Present(item) == [do |-> "Fail", err |-> "AlreadyExists"]

(* Domains: a list is an action and a kind, "exact" or "regex". *)
Precise(list) == list.action \in {"Allow", "Deny"} /\ list.kind \in {"exact", "regex"}

stored_entries(db, list) ==
    LET rows == IF list.kind = "exact" THEN db.managed ELSE db.regexes
    IN  Where(rows, "action", list.action)

EntryItem(db, kind, i) == IF kind = "exact" THEN db.managed[i].rule ELSE db.regexes[i].pattern

find_entry(db, item, list) == {i \in stored_entries(db, list) : EntryItem(db, list.kind, i) = item}

create_entry(item, list, group, enabled) ==
    IF list.kind = "exact"
    THEN [do |-> "CreateManagedDomain",
          row |-> [name |-> [by |-> "", rule |-> item], rule |-> item, action |-> list.action,
                   group |-> group, enabled |-> enabled, service |-> ""]]
    ELSE [do |-> "CreateRegexFilter",
          row |-> [name |-> [by |-> "", rule |-> item], pattern |-> item, action |-> list.action, group |-> group,
                   enabled |-> enabled]]

delete_entry(kind, id) ==
    [do |-> IF kind = "exact" THEN "DeleteManagedDomain" ELSE "DeleteRegexFilter", id |-> id]

\* An item that is empty, has a line break or is no domain name is an item
\* without a name.  An expression is only checked when it is stored.
prepare_item(item, kind) == item.name # <<>>

\* An item already on the list, under any group, is an error of that item.
create_domain(db, q) ==
    LET present == {EntryItem(db, q.list.kind, i) : i \in stored_entries(db, q.list)}
        One(item) == IF item \in present THEN Present(item)
                      ELSE create_entry(item, q.list, first_group(q, DEFAULT_GROUP_ID),
                                        Given(q, "enabled", TRUE))
    IN  IF Precise(q.list) /\ q.items # <<>> /\ \A i \in DOMAIN q.items : prepare_item(q.items[i], q.list.kind)
        THEN Record(EachOf(q.items, One), 201) ELSE Refuse(400)

update_domain(q) ==
    IF Precise(q.list) /\ prepare_item(q.item, q.list.kind)
    THEN Record(<<<<q @@ [do |-> "replace_entry"]>>>>, 200) ELSE Refuse(400)

\* The list the entry is moved from: the one in the path unless the body names it.
previous_list(s) == Given(s, "from", s.list)

\* Rewrites the entry, moving it from one list to another when asked; a domain
\* that becomes an expression is created and then deleted.  None: created.
replace_entry(db, s) ==
    LET from == previous_list(s)
        found == find_entry(db, s.item, from)
        id == Min(found)
        enabled == Given(s, "enabled", TRUE)
        rows == IF from.kind = "exact" THEN db.managed ELSE db.regexes
        update == [action |-> s.list.action, enabled |-> enabled]
                    @@ (IF Given(s, "groups", <<>>) = <<>> THEN <<>>
                        ELSE [group |-> first_group(s, NULL)])
        absent == If(from # s.list, <<[do |-> "EntryAbsent", item |-> s.item, list |-> s.list]>>)
    IN  CASE ~Precise(from) -> Err(db, "InvalidInput")
          [] found = {} ->
                Then(db, <<create_entry(s.item, from, first_group(s, DEFAULT_GROUP_ID), enabled)>>)
          [] from.kind = s.list.kind ->
                Then(db, absent \o <<[do |-> IF from.kind = "exact" THEN "UpdateManagedDomain"
                                             ELSE "UpdateRegexFilter", id |-> id, update |-> update]>>)
          [] OTHER ->
                Then(db, absent \o <<create_entry(s.item, s.list, first_group(s, rows[id].group), enabled),
                                     delete_entry(from.kind, id)>>)

EntryAbsent(db, s) ==
    IF find_entry(db, s.item, s.list) = {} THEN Ok(db, NULL) ELSE Err(db, "AlreadyExists")

\* Every stored entry that is one of the targets, of a path or of a batch.
delete_entries(db, q) ==
    LET Of(kind) == SetToSeq(UNION {find_entry(db, t.item, t.list) :
                                t \in {x \in q.targets : x.list.kind = kind}})
        Steps(kind) == [i \in DOMAIN Of(kind) |-> delete_entry(kind, Of(kind)[i])]
    IN  IF \A t \in q.targets : Precise(t.list)
        THEN DeleteEach(Steps("exact") \o Steps("regex")) ELSE Refuse(400)

(* Lists: a type is a table; a key is an id or an address. *)
find_lists(db, table, q) ==
    IF "id" \in DOMAIN q THEN {q.id} \cap DOMAIN db[table] ELSE Where(db[table], "url", q.address)

add_list(table, address, groups, enabled) ==
    [do |-> IF table = "blocklists" THEN "CreateBlocklistSource" ELSE "CreateWhitelistSource",
     row |-> [name |-> address, url |-> address, groups |-> groups, enabled |-> enabled, status |-> "none"]]

ListGroups(q, default) == IF "groups" \in DOMAIN q THEN FtlGroups(q) ELSE default

create_list(db, q) ==
    LET present == {r.url : r \in Range(db[q.table])}
        One(a) == IF a \in present THEN Present(a)
                   ELSE add_list(q.table, a, ListGroups(q, {DEFAULT_GROUP_ID}), Given(q, "enabled", TRUE))
    IN  AcceptItems(q.items, Record(EachOf(q.items, One), 201))

update_list(q) ==
    LET item == Given(q, "address", "id")
    IN  AcceptItems(<<item>>, Record(<<<<q @@ [do |-> "replace_list"]>>>>, 200))

\* Every list with the address; one that is not there is added, unless it was named by id.
replace_list(db, s) ==
    LET found == SetToSeq(find_lists(db, s.table, s))
        update == [enabled |-> Given(s, "enabled", TRUE)]
                    @@ (IF "groups" \in DOMAIN s THEN [groups |-> FtlGroups(s)] ELSE <<>>)
        op == IF s.table = "blocklists" THEN "UpdateBlocklistSource" ELSE "UpdateWhitelistSource"
    IN  CASE found # <<>> ->
                Then(db, [i \in DOMAIN found |-> [do |-> op, id |-> found[i], update |-> update]])
          [] "id" \in DOMAIN s -> Err(db, "NotFound")
          [] OTHER -> Then(db, <<add_list(s.table, s.address, ListGroups(s, {DEFAULT_GROUP_ID}),
                                          Given(s, "enabled", TRUE))>>)

delete_lists(db, q) ==
    LET ids == SetToSeq(find_lists(db, q.table, q))
        op == IF q.table = "blocklists" THEN "DeleteBlocklistSource" ELSE "DeleteWhitelistSource"
    IN  DeleteEach([i \in DOMAIN ids |-> [do |-> op, id |-> ids[i]]])

(* Groups *)
pihole_create_group(q) ==
    LET One(n) == [do |-> "CreateGroup", row |-> [name |-> n, enabled |-> Given(q, "enabled", TRUE),
                                                   malware |-> TRUE, default |-> FALSE]]
    IN  AcceptItems(q.items, Record(EachOf(q.items, One), 201))

pihole_update_group(q) ==
    AcceptItems(<<q.name>>, Record(<<<<q @@ [do |-> "replace_group"]>>>>, 200))

\* Creates the group when there is none, unless it was to be renamed.
replace_group(db, s) ==
    LET found == Where(db.groups, "name", s.name)
        enabled == Given(s, "enabled", TRUE)
        rename == Given(s, "rename", "")
    IN  CASE found = {} /\ rename # "" -> Ok(db, NULL)
          [] found = {} -> Then(db, <<[do |-> "CreateGroup", row |-> [name |-> s.name, enabled |-> enabled,
                                                        malware |-> TRUE, default |-> FALSE]]>>)
          [] OTHER -> Then(db, <<[do |-> "UpdateGroup", id |-> Min(found),
                                  update |-> [enabled |-> enabled]
                                    @@ (IF rename = "" THEN <<>> ELSE [name |-> rename])]>>)

delete_groups(db, q) ==
    LET ids == SetToSeq({g \in DOMAIN db.groups : db.groups[g].name \in q.names})
    IN  DeleteEach([i \in DOMAIN ids |-> [do |-> "DeleteGroup", id |-> ids[i]]])

(* Clients: an item is an address or a subnet. *)
create_client(q) ==
    LET One(item) == [do |-> "write_client", item |-> item, group |-> first_group(q, NULL), write |-> "Create"]
    IN  AcceptItems(q.items, Record(EachOf(q.items, One), 201))

update_client(q) ==
    AcceptItems(<<q.item>>,
        Record(<<<<[do |-> "write_client", item |-> q.item, group |-> first_group(q, NULL),
                    write |-> "Replace"]>>>>, 200))

write_client(db, s) ==
    LET found == Where(db.subnets, "cidr", s.item)
    IN  CASE s.item \in Ips ->
                Then(db, <<[do |-> "CreateManualClient", ip |-> s.item, group |-> s.group, host |-> ""],
                           [do |-> "set_comment", ip |-> s.item]>>)
          [] s.item \notin Cidrs -> Err(db, "InvalidInput")
          [] found # {} /\ s.write = "Create" -> Err(db, "AlreadyExists")
          [] found # {} ->
                Then(db, <<[do |-> "UpdateClientSubnet", id |-> Min(found),
                            group |-> IF s.group = NULL THEN db.subnets[Min(found)].group ELSE s.group]>>)
          [] OTHER ->
                Then(db, <<[do |-> "CreateClientSubnet", cidr |-> s.item,
                            group |-> IF s.group = NULL THEN DEFAULT_GROUP_ID ELSE s.group]>>)

set_comment(db, s) == IF ByIp(db, s.ip) = {} THEN Err(db, "NotFound") ELSE Ok(db, NULL)

\* Each item is looked up when its turn comes; one that is not there counts for nothing.
delete_clients(q) ==
    Task([i \in DOMAIN q.items |-> <<[do |-> "delete_client_item", item |-> q.items[i]]>>], "delete", 204)

delete_client_item(db, s) ==
    LET nets == Where(db.subnets, "cidr", s.item)
    IN  CASE ByIp(db, s.item) # {} -> Then(db, <<[do |-> "DeleteClient", id |-> Min(ByIp(db, s.item))]>>)
          [] nets # {} -> Then(db, <<[do |-> "DeleteClientSubnet", id |-> Min(nets)]>>)
          [] OTHER -> Err(db, "Absent")

(***************************************************************************)
(* Routing of requests, and one step of a request                          *)
(***************************************************************************)
Handle(db, q) ==
    CASE q.op = "create_group" -> create_group(q)
      [] q.op = "update_group" -> update_group(q)
      [] q.op = "delete_group" -> delete_group(q)
      [] q.op = "assign_client_to_group" -> assign_client_to_group(q)
      [] q.op = "create_manual_client" -> create_manual_client(q)
      [] q.op = "update_manual_client" -> update_manual_client(q)
      [] q.op = "delete_manual_client" -> delete_manual_client(q)
      [] q.op = "create_subnet" -> create_subnet(q)
      [] q.op = "delete_subnet" -> delete_subnet(q)
      [] q.op = "create_managed_domain" -> create_managed_domain(q)
      [] q.op = "update_managed_domain" -> update_managed_domain(q)
      [] q.op = "delete_managed_domain" -> delete_managed_domain(q)
      [] q.op = "create_regex_filter" -> create_regex_filter(q)
      [] q.op = "update_regex_filter" -> update_regex_filter(q)
      [] q.op = "delete_regex_filter" -> delete_regex_filter(q)
      [] q.op = "create_blocklist_source" -> create_blocklist_source(q)
      [] q.op = "update_blocklist_source" -> update_blocklist_source(q)
      [] q.op = "delete_blocklist_source" -> delete_blocklist_source(q)
      [] q.op = "sync_blocklist_source" -> sync_blocklist_source(q)
      [] q.op = "create_whitelist_source" -> create_whitelist_source(q)
      [] q.op = "update_whitelist_source" -> update_whitelist_source(q)
      [] q.op = "delete_whitelist_source" -> delete_whitelist_source(q)
      [] q.op = "create_custom_service" -> create_custom_service(q)
      [] q.op = "update_custom_service" -> update_custom_service(q)
      [] q.op = "delete_custom_service" -> delete_custom_service(q)
      [] q.op = "block_service" -> block_service(q)
      [] q.op = "unblock_service" -> unblock_service(q)
      [] q.op = "create_profile" -> create_profile(q)
      [] q.op = "update_profile" -> update_profile(q)
      [] q.op = "delete_profile" -> delete_profile(q)
      [] q.op = "add_slot" -> add_slot(q)
      [] q.op = "delete_slot" -> delete_slot(q)
      [] q.op = "assign_schedule" -> assign_schedule(q)
      [] q.op = "unassign_schedule" -> unassign_schedule(q)
      [] q.op = "toggle_config" -> toggle_config(q)
      [] q.op = "delete_configs_by_group" -> delete_configs_by_group(q)
      [] q.op = "create_domain" -> create_domain(db, q)
      [] q.op = "update_domain" -> update_domain(q)
      [] q.op = "delete_entries" -> delete_entries(db, q)
      [] q.op = "create_list" -> create_list(db, q)
      [] q.op = "update_list" -> update_list(q)
      [] q.op = "delete_lists" -> delete_lists(db, q)
      [] q.op = "pihole_create_group" -> pihole_create_group(q)
      [] q.op = "pihole_update_group" -> pihole_update_group(q)
      [] q.op = "delete_groups" -> delete_groups(db, q)
      [] q.op = "create_client" -> create_client(q)
      [] q.op = "update_client" -> update_client(q)
      [] q.op = "delete_clients" -> delete_clients(q)
      [] q.op = "import_config" -> import_config(q)
      [] q.op = "job" -> Rest(<<q.step>>, 200)  \* a background job's use case

Step(db, catalog, s) ==
    CASE s.do = "Fail" -> Err(db, s.err)
      [] s.do = "RequireBlocklistSource" ->
            IF s.id \in DOMAIN db.blocklists THEN Ok(db, s.id) ELSE Err(db, "BlocklistSourceNotFound")
      [] s.do = "SlotOfProfile" ->
            IF s.id \in Where(db.slots, "profile", s.profile) THEN Ok(db, s.id) ELSE Err(db, "TimeSlotNotFound")
      [] s.do = "replace_entry" -> replace_entry(db, s)
      [] s.do = "EntryAbsent" -> EntryAbsent(db, s)
      [] s.do = "replace_list" -> replace_list(db, s)
      [] s.do = "replace_group" -> replace_group(db, s)
      [] s.do = "write_client" -> write_client(db, s)
      [] s.do = "set_comment" -> set_comment(db, s)
      [] s.do = "delete_client_item" -> delete_client_item(db, s)
      [] s.do \in ImportSteps -> ImportStep(db, s)
      [] OTHER -> Exec(db, catalog, s)

=============================================================================
