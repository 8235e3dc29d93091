------------------------------ MODULE UseCases ------------------------------
(***************************************************************************)
(* The administration use cases over the catalog                           *)
(* (crates/application/src/use_cases).                                     *)
(*                                                                         *)
(* A use case is the statements it awaits, in order.  Its operator is the  *)
(* first of them: it reads db, and answers an error or the steps that      *)
(* follow.  A step is a record, its `do` the statement or the reload it    *)
(* is; between two steps other tasks run.  A read and the validation       *)
(* around it are one step.                                                 *)
(***************************************************************************)
EXTENDS Catalog

CONSTANTS
    ValidPatterns,   \* the expressions that compile
    Builtin,         \* service -> its definition in the built-in catalog
    Slugs,           \* what a custom service is called -> its id, "custom_" and the name in letters
    Unstarred,       \* a label that starts with `*`, as in `*ads.com` -> the label without it
    RoutedGroups     \* the groups an upstream pool routes

\* Reloads of what is held in memory; their errors are logged.
Reload == [do |-> "reload"]                  \* BlockFilterEngine::reload
LoadClientGroups == [do |-> "client_groups"] \* BlockFilterEngine::load_client_groups
ReloadExemptions == [do |-> "exemptions"]    \* GroupMalwareExemptions::reload
ReloadCatalog == [do |-> "catalog"]          \* reload_catalog
ReloadSafeSearch == [do |-> "safe_search"]   \* SafeSearchEnforcer::reload

If(cond, steps) == IF cond THEN steps ELSE <<>>

require_group(db, g, steps) ==
    IF GroupExists(db, g) THEN Then(db, steps) ELSE Err(db, "GroupNotFound")

(***************************************************************************)
(* Groups                                                                  *)
(***************************************************************************)
CreateGroup(db, s) ==
    IF s.row.name = "" THEN Err(db, "InvalidGroupName")
    ELSE [GroupRepoCreate(db, s.row) EXCEPT !.more = If(~s.row.malware, <<ReloadExemptions>>)]

UpdateGroup(db, s) ==
    CASE ~GroupExists(db, s.id) -> Err(db, "GroupNotFound")
      [] "name" \in DOMAIN s.update /\ s.update.name = "" -> Err(db, "InvalidGroupName")
      [] /\ "enabled" \in DOMAIN s.update /\ ~s.update.enabled
         /\ db.groups[s.id].default -> Err(db, "ProtectedGroupCannotBeDisabled")
      [] OTHER -> Then(db, <<[do |-> "GroupRepoUpdate", id |-> s.id, update |-> s.update]>>
                            \o If("malware" \in DOMAIN s.update, <<ReloadExemptions>>))

\* Refused for the default group, one with clients and one a pool routes.
DeleteGroup(db, s) ==
    CASE ~GroupExists(db, s.id) -> Err(db, "GroupNotFound")
      [] db.groups[s.id].default -> Err(db, "ProtectedGroupCannotBeDeleted")
      [] OTHER -> Then(db, <<[do |-> "GroupUnused", id |-> s.id],
                             [do |-> "GroupRepoDelete", id |-> s.id], Reload>>
                            \o If(~db.groups[s.id].malware, <<ReloadExemptions>>))

GroupUnused(db, s) ==
    CASE count_clients_in_group(db, s.id) > 0 -> Err(db, "GroupHasAssignedClients")
      [] s.id \in RoutedGroups -> Err(db, "GroupRoutedByPool")
      [] OTHER -> Ok(db, NULL)

AssignClientGroup(db, s) ==
    require_group(db, s.group, <<[do |-> "ClientById", id |-> s.id, err |-> "NotFound"],
                                 [do |-> "assign_group", id |-> s.id, group |-> s.group],
                                 [do |-> "ClientById", id |-> s.id, err |-> "NotFound"],
                                 LoadClientGroups>>)

ClientById(db, s) == IF s.id \in DOMAIN db.clients THEN Ok(db, s.id) ELSE Err(db, s.err)

(***************************************************************************)
(* Clients                                                                 *)
(***************************************************************************)
CreateManualClient(db, s) ==
    LET row == <<[s EXCEPT !.do = "ManualClientRow"]>>
    IN  IF s.group = NULL THEN Then(db, row) ELSE require_group(db, s.group, row)

ManualClientRow(db, s) ==
    LET r == get_or_create(db, s.ip)
    IN  [r EXCEPT !.more =
            If(s.host # "", <<[do |-> "update_hostname", ip |-> s.ip, host |-> s.host, from |-> "Manual"]>>)
            \o If(s.group # NULL, <<[do |-> "assign_group", id |-> r.id, group |-> s.group]>>)
            \o <<[do |-> "get_or_create", ip |-> s.ip]>>
            \o If(s.group # NULL, <<LoadClientGroups>>)]

\* The engine loads the groups again only if the group differs from the one read here.
UpdateClient(db, s) ==
    LET c == db.clients[s.id]
    IN  IF s.id \notin DOMAIN db.clients THEN Err(db, "ClientNotFound")
        ELSE Then(db,
            If(s.host \notin {"", c.host},
               <<[do |-> "update_hostname", ip |-> c.ip, host |-> s.host, from |-> "Manual"]>>)
            \o If(s.group # NULL, <<[do |-> "RequireGroup", group |-> s.group],
                                    [do |-> "assign_group", id |-> s.id, group |-> s.group, was |-> c.group]>>)
            \o <<[do |-> "ClientById", id |-> s.id, err |-> "ClientNotFound"]>>
            \o If(s.group \notin {NULL, c.group}, <<LoadClientGroups>>))

\* Mutant of DeleteClient: the engine is not told.
DeleteClientOnly(db, s) ==
    IF s.id \notin DOMAIN db.clients THEN Err(db, "ClientNotFound")
    ELSE Then(db, <<[do |-> "ClientRepoDelete", id |-> s.id, was |-> db.clients[s.id].group]>>)

\* The groups are loaded again if the client read here has one.
DeleteClient(db, s) ==
    IF s.id \notin DOMAIN db.clients THEN Err(db, "ClientNotFound")
    ELSE Then(db, <<[do |-> "ClientRepoDelete", id |-> s.id, was |-> db.clients[s.id].group]>>
                   \o If(db.clients[s.id].group # NULL, <<LoadClientGroups>>))

CleanupOldClients(db, s) == delete_older_than(db)

\* Each announced name of a client that has a row.
RecordMdnsHostnames(db, s) ==
    IF ByIp(db, s.ip) = {} THEN Ok(db, NULL)
    ELSE Then(db, <<[do |-> "update_hostname", ip |-> s.ip, host |-> s.host, from |-> "Mdns"]>>)

SyncArpCache(db, s) == batch_update_mac_addresses(db, s.ips)

\* The clients whose name a PTR lookup may set, each looked up and written.
SyncHostnames(db, s) ==
    LET due == {c \in DOMAIN db.clients : MayRename(db.clients[c], "Ptr") /\ db.clients[c].recent}
        ips == SetToSeq({db.clients[c].ip : c \in due})
    IN  Then(db, [i \in DOMAIN ips |->
                    [do |-> "update_hostname", ip |-> ips[i], host |-> s.host, from |-> "Ptr"]])

(***************************************************************************)
(* Subnets                                                                 *)
(***************************************************************************)
CreateClientSubnet(db, s) ==
    CASE s.cidr = "" -> Err(db, "InvalidCidr")
      [] ~GroupExists(db, s.group) -> Err(db, "GroupNotFound")
      [] SubnetExists(db, s.cidr) -> Err(db, "SubnetConflict")
      [] OTHER -> Then(db, <<[do |-> "SubnetRepoCreate", cidr |-> s.cidr, group |-> s.group],
                             LoadClientGroups>>)

UpdateClientSubnet(db, s) ==
    require_group(db, s.group, <<[do |-> "SubnetRepoUpdate", id |-> s.id, group |-> s.group],
                                 LoadClientGroups>>)

DeleteClientSubnet(db, s) ==
    IF s.id \notin DOMAIN db.subnets THEN Err(db, "SubnetNotFound")
    ELSE Then(db, <<[do |-> "SubnetRepoDelete", id |-> s.id], LoadClientGroups>>)

(***************************************************************************)
(* Rules                                                                   *)
(***************************************************************************)
CreateManagedDomain(db, s) ==
    IF s.row.rule.name = <<>> THEN Err(db, "InvalidManagedDomain")
    ELSE require_group(db, s.row.group, <<[do |-> "ManagedRepoCreate", row |-> s.row], Reload>>)

UpdateManagedDomain(db, s) ==
    CASE s.id \notin DOMAIN db.managed -> Err(db, "ManagedDomainNotFound")
      [] "rule" \in DOMAIN s.update /\ s.update.rule.name = <<>> -> Err(db, "InvalidManagedDomain")
      [] ~NewGroupExists(db, s.update) -> Err(db, "GroupNotFound")
      [] OTHER -> Then(db, <<[do |-> "ManagedRepoUpdate", id |-> s.id, update |-> s.update], Reload>>)

DeleteManagedDomain(db, s) ==
    IF s.id \notin DOMAIN db.managed THEN Err(db, "ManagedDomainNotFound")
    ELSE Then(db, <<[do |-> "ManagedRepoDelete", id |-> s.id], Reload>>)

CreateRegexFilter(db, s) ==
    IF s.row.pattern.name = <<>> THEN Err(db, "InvalidRegexFilter")
    ELSE require_group(db, s.row.group, <<[do |-> "RegexRepoCreate", row |-> s.row], Reload>>)

UpdateRegexFilter(db, s) ==
    CASE s.id \notin DOMAIN db.regexes -> Err(db, "RegexFilterNotFound")
      [] "pattern" \in DOMAIN s.update /\ s.update.pattern.name = <<>> -> Err(db, "InvalidRegexFilter")
      [] ~NewGroupExists(db, s.update) -> Err(db, "GroupNotFound")
      [] OTHER -> Then(db, <<[do |-> "RegexRepoUpdate", id |-> s.id, update |-> s.update], Reload>>)

DeleteRegexFilter(db, s) ==
    IF s.id \notin DOMAIN db.regexes THEN Err(db, "RegexFilterNotFound")
    ELSE Then(db, <<[do |-> "RegexRepoDelete", id |-> s.id], Reload>>)

(***************************************************************************)
(* Lists                                                                   *)
(***************************************************************************)
InvalidSource(table) ==
    IF table = "blocklists" THEN "InvalidBlocklistSource" ELSE "InvalidWhitelistSource"

ValidSource(db, table, fields, steps) ==
    CASE "name" \in DOMAIN fields /\ fields.name = "" -> Err(db, InvalidSource(table))
      [] "groups" \in DOMAIN fields /\ ~(fields.groups \subseteq DOMAIN db.groups) ->
            Err(db, "GroupNotFound")
      [] OTHER -> Then(db, steps)

\* What a backup import calls for each source: no reload of its own.
PersistBlocklistSource(db, s) ==
    ValidSource(db, "blocklists", s.row, <<[do |-> "SourceRepoCreate", table |-> "blocklists", row |-> s.row]>>)

CreateBlocklistSource(db, s) ==
    LET r == PersistBlocklistSource(db, s)
    IN  IF r.err # "" THEN r ELSE [r EXCEPT !.more = Append(@, Reload)]

CreateWhitelistSource(db, s) ==
    ValidSource(db, "whitelists", s.row,
                <<[do |-> "SourceRepoCreate", table |-> "whitelists", row |-> s.row], Reload>>)

SourceUpdate(db, table, s) ==
    IF s.id \notin DOMAIN db[table] THEN Err(db, SourceNotFound(table))
    ELSE ValidSource(db, table, s.update,
            <<[do |-> "SourceRepoUpdate", table |-> table, id |-> s.id, update |-> s.update], Reload>>)

UpdateBlocklistSource(db, s) == SourceUpdate(db, "blocklists", s)
UpdateWhitelistSource(db, s) == SourceUpdate(db, "whitelists", s)

SourceDelete(db, table, s) ==
    IF s.id \notin DOMAIN db[table] THEN Err(db, SourceNotFound(table))
    ELSE Then(db, <<[do |-> "SourceRepoDelete", table |-> table, id |-> s.id], Reload>>)

DeleteBlocklistSource(db, s) == SourceDelete(db, "blocklists", s)
DeleteWhitelistSource(db, s) == SourceDelete(db, "whitelists", s)

(***************************************************************************)
(* Services.  A definition is what a service is called and the lines of    *)
(* its rules; `catalog` holds the definitions of the custom services last  *)
(* loaded.  A line is [form, rule], its form "adblock" when it is written  *)
(* `||name^`.                                                              *)
(***************************************************************************)
custom_to_definition(row) ==
    [name |-> row.name, rules |-> {[form |-> "adblock", rule |-> d] : d \in row.domains}]

\* What reload_catalog reads.
CustomServices(db) ==
    [v \in {db.custom[i].service : i \in DOMAIN db.custom} |->
        custom_to_definition(db.custom[CHOOSE i \in CustomRow(db, v) : TRUE])]

KnownServices(catalog) == DOMAIN Builtin \cup DOMAIN catalog

get_by_id(catalog, service) ==
    IF service \in DOMAIN Builtin THEN Builtin[service] ELSE catalog[service]

\* The rule of a line, if it has one: a name blocked with all that is below it is
\* `*.name`, also where its dot is left out; other lines and the empty name are dropped.
normalize_rule(line) ==
    LET d == line.rule
    IN  IF line.form # "adblock" \/ (~d.star /\ d.name = <<>>) THEN {}
        ELSE IF ~d.star /\ Last(d.name) \in DOMAIN Unstarred
        THEN {[star |-> TRUE, name |-> Append(Front(d.name), Unstarred[Last(d.name)])]}
        ELSE {d}

normalized_rules_for(catalog, service) ==
    IF service \notin KnownServices(catalog) THEN {}
    ELSE UNION {normalize_rule(line) : line \in get_by_id(catalog, service).rules}

\* The row first, then the rules the catalog names when that is written.
BlockService(db, s, catalog) ==
    IF s.service \notin KnownServices(catalog) THEN Err(db, "ServiceNotFoundInCatalog")
    ELSE require_group(db, s.group, <<[do |-> "BlockedRepoBlock", service |-> s.service, group |-> s.group],
                                      [do |-> "BulkRules", service |-> s.service, group |-> s.group,
                                       called |-> get_by_id(catalog, s.service).name],
                                      Reload>>)

\* The rules a step is to write: the normalized ones, or the domains as they were typed.
RulesToWrite(catalog, s) == IF s.do = "BulkRules" THEN normalized_rules_for(catalog, s.service) ELSE s.domains

BulkRules(db, s, catalog) ==
    bulk_create_for_service(db, s.service, s.called, s.group, RulesToWrite(catalog, s))

UnblockService(db, s) ==
    [BlockedRepoUnblock(db, s.service, s.group) EXCEPT !.more =
        <<[do |-> "delete_by_service", service |-> s.service, group |-> s.group], Reload>>]

CreateCustomService(db, s, catalog) ==
    CASE s.name = "" \/ s.domains = {} -> Err(db, "InvalidInput")
      [] s.name # "" /\ s.domains # {} /\ Slugs[s.name] \in KnownServices(catalog) ->
            Err(db, "CustomServiceAlreadyExists")
      [] OTHER -> [CustomRepoCreate(db, Slugs[s.name], s.name, s.domains) EXCEPT !.more = <<ReloadCatalog>>]

\* The row as it is now is what the rules are written from.
UpdateCustomService(db, s) ==
    LET r == CustomRepoUpdate(db, s.service, s.update)
        row == r.db.custom[r.id]
    IN  CASE s.service \in DOMAIN Builtin -> Err(db, "CustomServiceNotFound")
          [] s.service \notin DOMAIN Builtin /\ r.err # "" -> r
          [] OTHER -> [r EXCEPT !.more =
                If("domains" \in DOMAIN s.update,
                   <<[do |-> "RebuildManaged", service |-> s.service, called |-> row.name, domains |-> row.domains]>>)
                \o <<ReloadCatalog>>]

\* Mutant of RebuildManaged: the rules of the old definition stay.
RebuildManagedAdds(db, s) ==
    LET groups == SetToSeq({db.blocked[i].group : i \in Where(db.blocked, "service", s.service)})
    IN  Then(db, [i \in DOMAIN groups |-> [do |-> "BulkDomains", group |-> groups[i]] @@ s] \o <<Reload>>)

\* Every group that blocks the service, its rules deleted and written again.
RebuildManaged(db, s) ==
    LET groups == SetToSeq({db.blocked[i].group : i \in Where(db.blocked, "service", s.service)})
        Of(g) == <<[do |-> "delete_by_service", service |-> s.service, group |-> g],
                   [do |-> "BulkDomains", group |-> g] @@ s>>
    IN  Then(db, FlattenSeq([i \in DOMAIN groups |-> Of(groups[i])]) \o <<Reload>>)

DeleteCustomService(db, s) ==
    IF s.service \in DOMAIN Builtin THEN Err(db, "CustomServiceNotFound")
    ELSE [delete_all_for_service(db, s.service) EXCEPT !.more =
            <<[do |-> "delete_all_by_service", service |-> s.service],
              [do |-> "CustomRepoDelete", service |-> s.service], ReloadCatalog, Reload>>]

(***************************************************************************)
(* Schedules and safe search                                               *)
(***************************************************************************)
AssignProfile(db, s) ==
    require_group(db, s.group, <<[do |-> "ProfileById", id |-> s.profile],
                                 [do |-> "assign_to_group", group |-> s.group, profile |-> s.profile]>>)

UnassignProfile(db, s) ==
    require_group(db, s.group, <<[do |-> "unassign_from_group", group |-> s.group]>>)

ProfileById(db, s) ==
    IF s.id \in DOMAIN db.profiles THEN Ok(db, s.id) ELSE Err(db, "ScheduleProfileNotFound")

CreateScheduleProfile(db, s) ==
    IF s.row.name = "" THEN Err(db, "InvalidScheduleProfile") ELSE ProfileRepoCreate(db, s.row)

UpdateScheduleProfile(db, s) ==
    CASE s.id \notin DOMAIN db.profiles -> Err(db, "ScheduleProfileNotFound")
      [] "name" \in DOMAIN s.update /\ s.update.name = "" -> Err(db, "InvalidScheduleProfile")
      [] OTHER -> Then(db, <<[do |-> "ProfileRepoUpdate", id |-> s.id, update |-> s.update]>>)

DeleteScheduleProfile(db, s) ==
    IF s.id \notin DOMAIN db.profiles THEN Err(db, "ScheduleProfileNotFound")
    ELSE Then(db, <<[do |-> "ProfileRepoDelete", id |-> s.id]>>)

validate_time_range(slot) == slot.start < slot.end

AddTimeSlot(db, s) ==
    CASE s.slot.profile \notin DOMAIN db.profiles -> Err(db, "ScheduleProfileNotFound")
      [] ~validate_time_range(s.slot) -> Err(db, "InvalidTimeSlot")
      [] OTHER -> Then(db, <<[do |-> "SlotRepoAdd", slot |-> s.slot]>>)

ToggleSafeSearch(db, s) ==
    require_group(db, s.row.group, <<[do |-> "SafeSearchUpsert", row |-> s.row], ReloadSafeSearch>>)

DeleteSafeSearchConfigs(db, s) ==
    require_group(db, s.group, <<[do |-> "SafeSearchDelete", group |-> s.group], ReloadSafeSearch>>)

(***************************************************************************)
(* One step of a use case                                                  *)
(***************************************************************************)
Exec(db, catalog, s) ==
    CASE s.do = "CreateGroup" -> CreateGroup(db, s)
      [] s.do = "UpdateGroup" -> UpdateGroup(db, s)
      [] s.do = "GroupRepoUpdate" -> GroupRepoUpdate(db, s.id, s.update)
      [] s.do = "DeleteGroup" -> DeleteGroup(db, s)
      [] s.do = "GroupUnused" -> GroupUnused(db, s)
      [] s.do = "GroupRepoDelete" -> GroupRepoDelete(db, s.id)
      [] s.do = "AssignClientGroup" -> AssignClientGroup(db, s)
      [] s.do = "RequireGroup" -> require_group(db, s.group, <<>>)
      [] s.do = "ClientById" -> ClientById(db, s)
      [] s.do = "assign_group" -> assign_group(db, s.id, s.group)
      [] s.do = "CreateManualClient" -> CreateManualClient(db, s)
      [] s.do = "ManualClientRow" -> ManualClientRow(db, s)
      [] s.do = "get_or_create" -> get_or_create(db, s.ip)
      [] s.do = "update_hostname" -> update_hostname(db, s.ip, s.host, s.from)
      [] s.do = "UpdateClient" -> UpdateClient(db, s)
      [] s.do = "DeleteClient" -> DeleteClient(db, s)
      [] s.do = "ClientRepoDelete" -> ClientRepoDelete(db, s.id)
      [] s.do = "CleanupOldClients" -> CleanupOldClients(db, s)
      [] s.do = "RecordMdnsHostnames" -> RecordMdnsHostnames(db, s)
      [] s.do = "SyncArpCache" -> SyncArpCache(db, s)
      [] s.do = "SyncHostnames" -> SyncHostnames(db, s)
      [] s.do = "CreateClientSubnet" -> CreateClientSubnet(db, s)
      [] s.do = "SubnetRepoCreate" -> SubnetRepoCreate(db, s.cidr, s.group)
      [] s.do = "UpdateClientSubnet" -> UpdateClientSubnet(db, s)
      [] s.do = "SubnetRepoUpdate" -> SubnetRepoUpdate(db, s.id, s.group)
      [] s.do = "DeleteClientSubnet" -> DeleteClientSubnet(db, s)
      [] s.do = "SubnetRepoDelete" -> SubnetRepoDelete(db, s.id)
      [] s.do = "CreateManagedDomain" -> CreateManagedDomain(db, s)
      [] s.do = "ManagedRepoCreate" -> ManagedRepoCreate(db, s.row)
      [] s.do = "UpdateManagedDomain" -> UpdateManagedDomain(db, s)
      [] s.do = "ManagedRepoUpdate" -> ManagedRepoUpdate(db, s.id, s.update)
      [] s.do = "DeleteManagedDomain" -> DeleteManagedDomain(db, s)
      [] s.do = "ManagedRepoDelete" -> ManagedRepoDelete(db, s.id)
      [] s.do = "CreateRegexFilter" -> CreateRegexFilter(db, s)
      [] s.do = "RegexRepoCreate" -> RegexRepoCreate(db, s.row, ValidPatterns)
      [] s.do = "UpdateRegexFilter" -> UpdateRegexFilter(db, s)
      [] s.do = "RegexRepoUpdate" -> RegexRepoUpdate(db, s.id, s.update, ValidPatterns)
      [] s.do = "DeleteRegexFilter" -> DeleteRegexFilter(db, s)
      [] s.do = "RegexRepoDelete" -> RegexRepoDelete(db, s.id)
      [] s.do = "CreateBlocklistSource" -> CreateBlocklistSource(db, s)
      [] s.do = "PersistBlocklistSource" -> PersistBlocklistSource(db, s)
      [] s.do = "CreateWhitelistSource" -> CreateWhitelistSource(db, s)
      [] s.do = "SourceRepoCreate" -> SourceRepoCreate(db, s.table, s.row)
      [] s.do = "UpdateBlocklistSource" -> UpdateBlocklistSource(db, s)
      [] s.do = "UpdateWhitelistSource" -> UpdateWhitelistSource(db, s)
      [] s.do = "SourceRepoUpdate" -> SourceRepoUpdate(db, s.table, s.id, s.update)
      [] s.do = "DeleteBlocklistSource" -> DeleteBlocklistSource(db, s)
      [] s.do = "DeleteWhitelistSource" -> DeleteWhitelistSource(db, s)
      [] s.do = "SourceRepoDelete" -> SourceRepoDelete(db, s.table, s.id)
      [] s.do = "BlockService" -> BlockService(db, s, catalog)
      [] s.do = "BlockedRepoBlock" -> BlockedRepoBlock(db, s.service, s.group)
      [] s.do \in {"BulkRules", "BulkDomains"} -> BulkRules(db, s, catalog)
      [] s.do = "UnblockService" -> UnblockService(db, s)
      [] s.do = "delete_by_service" -> delete_by_service(db, s.service, s.group)
      [] s.do = "delete_all_by_service" -> delete_all_by_service(db, s.service)
      [] s.do = "CreateCustomService" -> CreateCustomService(db, s, catalog)
      [] s.do = "UpdateCustomService" -> UpdateCustomService(db, s)
      [] s.do = "RebuildManaged" -> RebuildManaged(db, s)
      [] s.do = "DeleteCustomService" -> DeleteCustomService(db, s)
      [] s.do = "CustomRepoDelete" -> CustomRepoDelete(db, s.service)
      [] s.do = "AssignProfile" -> AssignProfile(db, s)
      [] s.do = "UnassignProfile" -> UnassignProfile(db, s)
      [] s.do = "ProfileById" -> ProfileById(db, s)
      [] s.do = "assign_to_group" -> assign_to_group(db, s.group, s.profile)
      [] s.do = "unassign_from_group" -> unassign_from_group(db, s.group)
      [] s.do = "CreateScheduleProfile" -> CreateScheduleProfile(db, s)
      [] s.do = "UpdateScheduleProfile" -> UpdateScheduleProfile(db, s)
      [] s.do = "ProfileRepoUpdate" -> ProfileRepoUpdate(db, s.id, s.update)
      [] s.do = "DeleteScheduleProfile" -> DeleteScheduleProfile(db, s)
      [] s.do = "ProfileRepoDelete" -> ProfileRepoDelete(db, s.id)
      [] s.do = "AddTimeSlot" -> AddTimeSlot(db, s)
      [] s.do = "SlotRepoAdd" -> SlotRepoAdd(db, s.slot)
      [] s.do = "SlotRepoDelete" -> SlotRepoDelete(db, s.id)
      [] s.do = "ToggleSafeSearch" -> ToggleSafeSearch(db, s)
      [] s.do = "SafeSearchUpsert" -> SafeSearchUpsert(db, s.row)
      [] s.do = "DeleteSafeSearchConfigs" -> DeleteSafeSearchConfigs(db, s)
      [] s.do = "SafeSearchDelete" -> SafeSearchDelete(db, s.group)

(***************************************************************************)
(* ImportConfig: the groups, malware switches and blocklist sources of a   *)
(* backup.  Its config section and its local records are in ConfigStore.   *)
(*                                                                         *)
(* A backup is [version, groups, sources].  A group is [id, name, default, *)
(* switch], its id NULL in an older backup and its switch "none" when it   *)
(* carries none; a source is a row whose groups are ids of the server that *)
(* exported it.  An error of one group, switch or source is noted, and the *)
(* import goes on.                                                         *)
(***************************************************************************)
SUPPORTED_VERSION == "1"

\* The steps from the i-th group, the switches `todo` and the i-th source on.
GroupsFrom(b, i) == If(i <= Len(b.groups), <<[do |-> "ImportGroup", b |-> b, i |-> i]>>)

SwitchesLeft(todo, changed) ==
    IF todo = <<>> THEN If(changed, <<ReloadExemptions>>)
    ELSE <<[do |-> "ImportSwitch", todo |-> todo, changed |-> changed]>>

\* One reload after all the sources, if any was imported.
SourcesFrom(b, here, i, any) ==
    IF i > Len(b.sources) THEN If(any, <<Reload>>)
    ELSE <<[do |-> "ImportSource", b |-> b, here |-> here, i |-> i, any |-> any]>>

\* The group here that a group of the backup is: the default one whatever its name.
LocalGroups(db, g) ==
    {id \in DOMAIN db.groups :
        IF g.default THEN db.groups[id].default ELSE db.groups[id].name = g.name}

HasIds(b) == \E i \in DOMAIN b.groups : b.groups[i].id # NULL

\* The steps whose error is noted, and what follows it.
Soft == {"ImportGroup", "restore_malware_switches", "ImportSwitch", "ImportSource", "ImportSourceRow"}

Skipped(s) ==
    CASE s.do = "ImportGroup" -> GroupsFrom(s.b, s.i + 1)
      [] s.do = "restore_malware_switches" -> <<>>
      [] s.do = "ImportSwitch" -> SwitchesLeft(Tail(s.todo), s.changed)
      [] OTHER -> SourcesFrom(s.b, s.here, s.i + 1, s.any)

\* The reloads that the steps after this one owe for what is imported already.
Due(s) ==
    CASE s.do \in {"ImportSource", "ImportSourceRow"} -> IF s.any THEN {"reload"} ELSE {}
      [] s.do = "ImportSwitch" -> IF s.changed THEN {"exemptions"} ELSE {}
      [] OTHER -> {s.do}

\* Groups first, since sources name them; an older backup's ids are used as they are.
ImportConfig(b) ==
    LET named == UNION {b.sources[i].groups : i \in DOMAIN b.sources}
    IN  GroupsFrom(b, 1) \o <<[do |-> "restore_malware_switches", b |-> b]>>
            \o (IF HasIds(b) THEN <<[do |-> "map_group_ids", b |-> b]>>
                ELSE SourcesFrom(b, [g \in named |-> g], 1, FALSE))

\* create_group: a group that exists is skipped, one restored is enabled.
ImportGroup(db, s) ==
    LET g == s.b.groups[s.i]
        r == CreateGroup(db, [row |-> [name |-> g.name, enabled |-> TRUE, default |-> FALSE,
                                       malware |-> g.switch # "off"]])
    IN  IF r.err # "" THEN Then(db, Skipped(s)) ELSE [r EXCEPT !.more = @ \o Skipped(s)]

\* The switches of the groups found here that differ from the backup's.
restore_malware_switches(db, s) ==
    LET Differs(g) == /\ g.switch # "none" /\ LocalGroups(db, g) # {}
                      /\ db.groups[CHOOSE id \in LocalGroups(db, g) : TRUE].malware # (g.switch = "on")
        due == SelectSeq(s.b.groups, Differs)
    IN  Then(db, SwitchesLeft([i \in DOMAIN due |-> [id |-> CHOOSE id \in LocalGroups(db, due[i]) : TRUE,
                                                     on |-> due[i].switch = "on"]], FALSE))

ImportSwitch(db, s) ==
    LET r == GroupRepoUpdate(db, Head(s.todo).id, [malware |-> Head(s.todo).on])
    IN  IF r.err # "" THEN Then(db, Skipped(s)) ELSE [r EXCEPT !.more = SwitchesLeft(Tail(s.todo), TRUE)]

\* The exporting server's id of each group found here -> its id here.
map_group_ids(db, s) ==
    LET known == {i \in DOMAIN s.b.groups : s.b.groups[i].id # NULL /\ LocalGroups(db, s.b.groups[i]) # {}}
        here == [id \in {s.b.groups[i].id : i \in known} |->
                    CHOOSE g \in UNION {LocalGroups(db, s.b.groups[i]) : i \in {j \in known : s.b.groups[j].id = id}} : TRUE]
    IN  Then(db, SourcesFrom(s.b, here, 1, FALSE))

\* A source that names a group not found here is skipped.
translate_group_ids(ids, here) == IF ids \subseteq DOMAIN here THEN {{here[g] : g \in ids}} ELSE {}

ImportSource(db, s) ==
    LET source == s.b.sources[s.i]
        rows == {[source EXCEPT !.groups = ids] : ids \in translate_group_ids(source.groups, s.here)}
    IN  IF \A row \in rows : PersistBlocklistSource(db, [row |-> row]).err # "" THEN Then(db, Skipped(s))
        ELSE Then(db, <<[row |-> CHOOSE row \in rows : TRUE] @@ [s EXCEPT !.do = "ImportSourceRow"]>>)

ImportSourceRow(db, s) ==
    LET r == SourceRepoCreate(db, "blocklists", s.row)
    IN  IF r.err # "" THEN Then(db, Skipped(s)) ELSE [r EXCEPT !.more = SourcesFrom(s.b, s.here, s.i + 1, TRUE)]

ImportSteps == Soft \cup {"map_group_ids"}

ImportStep(db, s) ==
    CASE s.do = "ImportGroup" -> ImportGroup(db, s)
      [] s.do = "restore_malware_switches" -> restore_malware_switches(db, s)
      [] s.do = "ImportSwitch" -> ImportSwitch(db, s)
      [] s.do = "map_group_ids" -> map_group_ids(db, s)
      [] s.do = "ImportSource" -> ImportSource(db, s)
      [] s.do = "ImportSourceRow" -> ImportSourceRow(db, s)

=============================================================================
