----------------------------- MODULE MCCIProbe -----------------------------
\* Model checking of CIProbe: four CIs of which the first is asked for.
EXTENDS CIProbe, TLC

CONSTANTS ci1, ci2, ci3, ci4, noNumber

MCCIs == {ci1, ci2, ci3, ci4}

\* Tables a CI is shown in: a server's, those of network gear shown as hardware or not,
\* and of tables that are no candidates.
Server == {"cmdb_ci_server", "cmdb_ci_computer", "cmdb_ci_hardware", "cmdb_ci"}
Switch == {"cmdb_ci_network_gear", "cmdb_ci_hardware", "cmdb_ci"}
Gear == {"cmdb_ci_network_gear", "cmdb_ci"}
Rack == {"cmdb_ci_rack", "cmdb_ci"}
MCLineages == {Server, Switch, Gear, Rack, Server \cup {"cmdb_ci_linux_server"}}

MCFirst ==
    {ci1 :> l @@ ci2 :> Server \cup {"cmdb_ci_linux_server"} @@ ci3 :> Rack @@ ci4 :> Rack : l \in {Server, Switch, Rack}}

\* One location and one status are stored as they are displayed, of the others the
\* display differs.  A text fits where it is the value; as a name or a location also
\* where it is a part of it.
MCDisplay ==
    [v \in {"", "web1", "web", "10.0.0.1", "lab", "site7", "retired", "1"} |->
        CASE v = "site7" -> "Berlin" [] v = "1" -> "Operational" [] OTHER -> v]
MCFitting ==
    {<<a, v, v>> : a \in Attributes, v \in DOMAIN MCDisplay} \cup {<<"name", "web", "web1">>}

Stored(location, status) ==
    [name |-> "web1", ip_address |-> "10.0.0.1", location |-> location, operational_status |-> status]
Nothing == [a \in Attributes |-> ""]

\* The others share attributes of the first, or it has none.
Values(a, b) == ci1 :> a @@ ci2 :> b @@ ci3 :> Stored("lab", "retired") @@ ci4 :> Stored("lab", "retired")
Alike == Values(Stored("lab", "retired"), Stored("lab", "retired"))
Unlike == Values(Stored("lab", ""), Stored("site7", "retired"))
Bare == Values(Nothing, Stored("lab", "retired"))
Displayed == Values(Stored("lab", "1"), Stored("lab", "1"))

Scene(tool, ci, type, given, value, fails) ==
    [tool : {tool}, ci : {ci}, type : {type}, given : {given}, value : value, first : MCFirst, failing : fails]

MCScenes ==
    Scene("details", ci1, "", Nothing, {Alike}, BOOLEAN)
    \cup Scene("details", ci1, "cmdb_ci_hardware", Nothing, {Alike}, BOOLEAN)
    \cup Scene("details", noNumber, "", Nothing, {Alike}, {FALSE})
    \cup Scene("similar", ci1, "", Nothing, {Alike, Unlike, Bare, Displayed}, {FALSE})
    \cup UNION {Scene("byType", ci1, t, Nothing, {Alike}, BOOLEAN) : t \in {"", "cmdb_ci_server"}}
    \cup UNION {Scene("search", ci1, t, [Nothing EXCEPT !.name = "web", !.location = "lab"], {Alike, Unlike}, BOOLEAN) :
                   t \in {"", "cmdb_ci_rack", "cmdb_ci_server"}}
    \cup Scene("search", ci1, "", Nothing, {Alike}, {FALSE})
    \cup Scene("quick", ci1, "", [Nothing EXCEPT !.name = "10.0.0.1", !.ip_address = "10.0.0.1"], {Alike}, BOOLEAN)
=============================================================================
