-------------------------- MODULE MCAdministration --------------------------
(* Two groups, three names, two lists; one family of requests per mix. *)
EXTENDS Administration

Ads == <<"com", "ads">>
Tracker == <<"com", "ads", "x">>
Good == <<"com", "ok">>
MCNames == {Ads, Tracker, Good}

Rule(name) == [star |-> FALSE, name |-> name]
Star(name) == [star |-> TRUE, name |-> name]
Line(form, arg, star) == [form |-> form, arg |-> arg, star |-> star]

MCHits == (Ads :> {Ads, Tracker}) @@ (<<"x">> :> {Tracker})
MCValid == {Rule(p) : p \in DOMAIN MCHits}
MCUnstarred == ("*ads" :> "ads")
Glued == Rule(<<"com", "*ads">>)  \* `*ads.com`
AdLine(rule) == [form |-> "adblock", rule |-> rule]
MCBuiltin == ("tube" :> [name |-> "Tube", rules |-> {AdLine(Rule(Ads)), AdLine(Glued),
                                                    [form |-> "other", rule |-> Rule(Good)]}])
MCSlugs == ("Mine" :> "custom_mine") @@ ("Tube" :> "custom_tube") @@ ("mine" :> "custom_mine")

U1 == "u1"
U2 == "u2"
Text1 == {Line("adblock", Ads, FALSE), Line("comment", Ads, FALSE)}
Text1b == {Line("plain", Good, FALSE), Line("pattern", <<"x">>, FALSE)}
Text2 == {Line("star", Ads, FALSE), Line("hosts", Good, FALSE)}
Web == (U1 :> Text1) @@ (U2 :> Text2)
Web2 == (U1 :> Text1b) @@ (U2 :> Text2)

Group(name, default) == [name |-> name, enabled |-> TRUE, malware |-> TRUE, default |-> default]
Managed(rule, action, g) ==
    [name |-> [by |-> "", rule |-> rule], rule |-> rule, action |-> action, group |-> g,
     enabled |-> TRUE, service |-> ""]
Regex(pattern, action, g) ==
    [name |-> [by |-> "", rule |-> pattern], pattern |-> pattern, action |-> action, group |-> g,
     enabled |-> TRUE]
Source(url, gs) == [name |-> url, url |-> url, groups |-> gs, enabled |-> TRUE, status |-> "none"]

Empty ==
    [groups |-> (1 :> Group("Default", TRUE)) @@ (2 :> Group("kids", FALSE)),
     clients |-> <<>>, subnets |-> <<>>, managed |-> <<>>, regexes |-> <<>>,
     blocklists |-> <<>>, whitelists |-> <<>>, blocked |-> <<>>, custom |-> <<>>,
     profiles |-> <<>>, slots |-> <<>>, assigned |-> <<>>, safeSearch |-> <<>>,
     blocklist |-> {}, whitelist |-> {}, seq |-> 9]

Mix(tables, asks, admins, each) ==
    [db |-> tables, web |-> Web, web2 |-> Web, asks |-> asks, admins |-> admins, each |-> each,
     troubles |-> 1, booted |-> TRUE, held |-> <<>>, scheduled |-> FALSE]

List(action, kind) == [action |-> action, kind |-> kind]

RulesMix ==
    Mix([Empty EXCEPT !.managed = (3 :> Managed(Rule(Ads), "Deny", 1)),
                      !.regexes = (4 :> Regex(Rule(<<"x">>), "Allow", 1)),
                      !.blocklist = {Rule(Good)}],
        <<[op |-> "create_managed_domain", name |-> [by |-> "r", rule |-> Star(Ads)],
           rule |-> Star(Ads), action |-> "Deny"],
          [op |-> "create_managed_domain", name |-> [by |-> "r", rule |-> Rule(<<>>)],
           rule |-> Rule(<<>>), action |-> "Deny"],
          [op |-> "update_managed_domain", id |-> 3, action |-> "Allow"],
          [op |-> "update_managed_domain", id |-> 3, group |-> 2],
          [op |-> "delete_managed_domain", id |-> 3],
          [op |-> "create_regex_filter", name |-> [by |-> "r", rule |-> Rule(Ads)],
           pattern |-> Rule(Ads), action |-> "Deny"],
          [op |-> "update_regex_filter", id |-> 4, enabled |-> FALSE],
          [op |-> "update_regex_filter", id |-> 4, pattern |-> Rule(Good)],
          [op |-> "delete_regex_filter", id |-> 4],
          [op |-> "create_domain", list |-> List("Deny", "exact"), items |-> <<Rule(Ads), Rule(Tracker)>>],
          [op |-> "create_domain", list |-> List("Deny", "regex"), items |-> <<Rule(Good)>>],
          [op |-> "update_domain", list |-> List("Deny", "regex"), item |-> Rule(Ads),
           from |-> List("Deny", "exact")],
          [op |-> "update_domain", list |-> List("Allow", "exact"), item |-> Rule(Tracker), groups |-> <<0>>],
          [op |-> "delete_entries", targets |-> {[item |-> Rule(Ads), list |-> List("Deny", "exact")],
                                                 [item |-> Rule(<<"x">>), list |-> List("Allow", "regex")]}]>>,
        {"a1", "a2"}, 1)

\* One request while the first build and a refresh run, and the list servers change;
\* then two of a few while they do not.
ListsDb ==
    [Empty EXCEPT !.blocklists = (5 :> Source(U1, {1})), !.whitelists = (6 :> Source(U2, {2}))]

Unbooted(asks, each) ==
    [Mix(ListsDb, asks, {"a1"}, each) EXCEPT !.web2 = Web2, !.booted = FALSE, !.troubles = 0]

ListsMix ==
    Unbooted(
        <<[op |-> "create_blocklist_source", name |-> "", url |-> U2],
          [op |-> "update_blocklist_source", id |-> 5, groups |-> {1, 2}],
          [op |-> "delete_blocklist_source", id |-> 5],
          [op |-> "create_whitelist_source", name |-> "allow", url |-> U1, groups |-> {3}],
          [op |-> "update_whitelist_source", id |-> 6, group |-> 1],
          [op |-> "delete_whitelist_source", id |-> 6],
          [op |-> "create_list", table |-> "blocklists", items |-> <<U1, U2>>],
          [op |-> "update_list", table |-> "whitelists", address |-> U1, groups |-> <<0, 2>>],
          [op |-> "update_list", table |-> "blocklists", id |-> 7],
          [op |-> "delete_lists", table |-> "blocklists", address |-> U1]>>, 1)

SyncsMix ==
    [Unbooted(
        <<[op |-> "create_blocklist_source", name |-> "two", url |-> U2],
          [op |-> "update_blocklist_source", id |-> 5, enabled |-> FALSE],
          [op |-> "sync_blocklist_source", id |-> 5]>>, 2) EXCEPT !.web2 = Web]

\* The server that exported them numbers its groups otherwise, and has one more.
Backup(gs, sources) == [version |-> "1", groups |-> gs, sources |-> sources]
Saved(id, name, default, switch) == [id |-> id, name |-> name, default |-> default, switch |-> switch]
SavedList(name, url, gs) == [Source(url, gs) EXCEPT !.name = name]

Full == Backup(<<Saved(1, "Main", TRUE, "off"), Saved(5, "kids", FALSE, "none"), Saved(2, "lab", FALSE, "off")>>,
               <<SavedList("two", U2, {5}), SavedList("lost", U1, {1, 7}), SavedList("one", U1, {2, 1})>>)
Old == Backup(<<Saved(NULL, "kids", FALSE, "off")>>, <<SavedList("two", U2, {2})>>)

ClientsMix ==
    [Mix([Empty EXCEPT !.clients = (7 :> [NewClient("i1") EXCEPT !.group = 2])
                                    @@ (8 :> [NewClient("i2") EXCEPT !.recent = FALSE, !.hostFrom = "Mdns",
                                                                     !.host = "m"]),
                      !.subnets = (9 :> [cidr |-> "c1", group |-> 2])],
        <<[op |-> "create_group", name |-> "lab", malware |-> FALSE],
          [op |-> "create_group", name |-> "kids"],
          [op |-> "update_group", id |-> 2, malware |-> FALSE],
          [op |-> "update_group", id |-> 1, enabled |-> FALSE],
          [op |-> "delete_group", id |-> 2],
          [op |-> "delete_group", id |-> 1],
          [op |-> "assign_client_to_group", id |-> 8, group |-> 2],
          [op |-> "assign_client_to_group", id |-> 7, group |-> 1],
          [op |-> "create_manual_client", ip |-> "i3", group |-> 2, host |-> "h"],
          [op |-> "update_manual_client", id |-> 8, group |-> 1, host |-> "h"],
          [op |-> "delete_manual_client", id |-> 7],
          [op |-> "create_subnet", cidr |-> "c2", group |-> 1],
          [op |-> "delete_subnet", id |-> 9],
          [op |-> "pihole_create_group", items |-> <<"kids", "new">>],
          [op |-> "pihole_update_group", name |-> "kids", rename |-> "teens"],
          [op |-> "delete_groups", names |-> {"kids"}],
          [op |-> "create_client", items |-> <<"i1", "c1", "junk">>, groups |-> <<0>>],
          [op |-> "update_client", item |-> "c1", groups |-> <<0>>],
          [op |-> "delete_clients", items |-> <<"i1", "c1", "i9">>],
          [op |-> "import_config", backup |-> Backup(Full.groups, <<>>)],
          [op |-> "job", step |-> [do |-> "CleanupOldClients"]],
          [op |-> "job", step |-> [do |-> "RecordMdnsHostnames", ip |-> "i1", host |-> "n"]],
          [op |-> "job", step |-> [do |-> "SyncArpCache", ips |-> {"i2"}]],
          [op |-> "job", step |-> [do |-> "SyncHostnames", host |-> "p"]]>>,
        {"a1"}, 3) EXCEPT !.troubles = 0]

Custom(name, domains) == [service |-> MCSlugs[name], name |-> name, domains |-> domains]
Owned(id, called, rule, g) == [Managed(rule, "Deny", g) EXCEPT !.name = RuleName(called, rule), !.service = id]

\* A custom service that is called what a built-in one is, or becomes it; domains
\* with their dot left out and empty ones; rules of a service edited by hand.
ServicesMix ==
    [Mix([Empty EXCEPT !.custom = (3 :> Custom("Mine", {Rule(Good)})),
                      !.blocked = (4 :> [service |-> "custom_mine", group |-> 1]),
                      !.managed = (5 :> Owned("custom_mine", "Mine", Rule(Good), 1))],
        <<[op |-> "create_custom_service", name |-> "Tube", domains |-> {Rule(Ads), Glued, Rule(<<>>)}],
          [op |-> "create_custom_service", name |-> "mine", domains |-> {Rule(Tracker)}],
          [op |-> "update_custom_service", service |-> "custom_mine", domains |-> {Glued, Rule(<<>>)}],
          [op |-> "update_custom_service", service |-> "custom_mine", domains |-> {Rule(Ads), Star(Ads)},
           name |-> "Tube"],
          [op |-> "update_custom_service", service |-> "custom_mine", name |-> "mine"],
          [op |-> "delete_custom_service", service |-> "custom_mine"],
          [op |-> "block_service", service |-> "tube", group |-> 1],
          [op |-> "block_service", service |-> "custom_mine", group |-> 2],
          [op |-> "block_service", service |-> "custom_tube", group |-> 1],
          [op |-> "unblock_service", service |-> "custom_mine", group |-> 1],
          [op |-> "unblock_service", service |-> "tube", group |-> 1],
          [op |-> "create_managed_domain", name |-> RuleName("Tube", Rule(Ads)), rule |-> Rule(Ads),
           action |-> "Allow"],
          [op |-> "update_managed_domain", id |-> 5, group |-> 2],
          [op |-> "delete_managed_domain", id |-> 5],
          [op |-> "delete_group", id |-> 2]>>,
        {"a1"}, 3) EXCEPT !.troubles = 0]

\* What a statement that fails or a lost connection leaves of two of them.
Failing(m) == [m EXCEPT !.troubles = 1, !.each = 2]

\* Two requests at once over what is loaded into memory.
RacesMix ==
    Mix([Empty EXCEPT !.clients = (7 :> [NewClient("i1") EXCEPT !.group = 2])
                                    @@ (8 :> [NewClient("i2") EXCEPT !.group = 1, !.recent = FALSE]),
                      !.subnets = (9 :> [cidr |-> "c1", group |-> 2]),
                      !.safeSearch = (6 :> [group |-> 2, engine |-> "g", enabled |-> TRUE])],
        <<[op |-> "assign_client_to_group", id |-> 7, group |-> 1],
          [op |-> "update_manual_client", id |-> 7, group |-> 2],
          [op |-> "update_manual_client", id |-> 8, group |-> 2],
          [op |-> "delete_manual_client", id |-> 7],
          [op |-> "delete_manual_client", id |-> 8],
          [op |-> "create_manual_client", ip |-> "i3", group |-> 2],
          [op |-> "job", step |-> [do |-> "CleanupOldClients"]],
          [op |-> "delete_subnet", id |-> 9],
          [op |-> "create_subnet", cidr |-> "c2", group |-> 2],
          [op |-> "update_group", id |-> 2, malware |-> FALSE],
          [op |-> "toggle_config", group |-> 2, engine |-> "g", enabled |-> FALSE],
          [op |-> "toggle_config", group |-> 1, engine |-> "g", enabled |-> TRUE],
          [op |-> "create_custom_service", name |-> "Mine", domains |-> {Rule(Ads)}],
          [op |-> "delete_group", id |-> 2]>>,
        {"a1", "a2"}, 1)

SchedulesMix ==
    [Mix([Empty EXCEPT !.profiles = (3 :> [name |-> "night"]),
                       !.slots = (4 :> [profile |-> 3, start |-> 0, end |-> 1, action |-> "BlockAll"]),
                       !.assigned = (5 :> [group |-> 1, profile |-> 3]),
                       !.safeSearch = (6 :> [group |-> 2, engine |-> "g", enabled |-> TRUE])],
        <<[op |-> "create_profile", name |-> "day"],
          [op |-> "update_profile", id |-> 3, name |-> "late"],
          [op |-> "delete_profile", id |-> 3],
          [op |-> "add_slot", id |-> 3, start |-> 0, end |-> 2, action |-> "AllowAll"],
          [op |-> "add_slot", id |-> 3, start |-> 1, end |-> 1, action |-> "AllowAll"],
          [op |-> "delete_slot", id |-> 3, slot |-> 4],
          [op |-> "assign_schedule", id |-> 2, profile |-> 3],
          [op |-> "unassign_schedule", id |-> 1],
          [op |-> "toggle_config", group |-> 2, engine |-> "g", enabled |-> FALSE],
          [op |-> "toggle_config", group |-> 1, engine |-> "g", enabled |-> TRUE],
          [op |-> "delete_configs_by_group", group |-> 2],
          [op |-> "delete_group", id |-> 2]>>,
        {"a1"}, 2) EXCEPT !.scheduled = TRUE]

ImportsMix ==
    [Mix([Empty EXCEPT !.blocklists = (5 :> [Source(U1, {2}) EXCEPT !.status = "Updated"])],
        <<[op |-> "import_config", backup |-> Full],
          [op |-> "import_config", backup |-> Old],
          [op |-> "import_config", backup |-> [Old EXCEPT !.version = "2"]],
          [op |-> "delete_group", id |-> 2],
          [op |-> "create_blocklist_source", name |-> "two", url |-> U2]>>,
        {"a1", "a2"}, 1) EXCEPT !.held = (U1 :> Text1)]

MCMixes == <<RulesMix, ListsMix, SyncsMix, ClientsMix, Failing(ClientsMix), ServicesMix, Failing(ServicesMix), RacesMix,
             SchedulesMix, ImportsMix>>

=============================================================================
