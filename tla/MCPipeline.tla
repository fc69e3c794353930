------------------------------ MODULE MCPipeline ------------------------------
(* The site on small instances: many hosts for the rules on hosts, three   *)
(* of them on machines that are edited and serve requests.                 *)
EXTENDS Pipeline

Hosts(names, ports, caps) == [labels : names, port : ports, caps : caps]

MainHosts ==
    Hosts({<<"site", "org">>, <<"ana", "org">>}, {None}, {FALSE})
        \cup Hosts({<<"site", "org">>}, {443}, {TRUE})

\* Names up to two levels below org, among them the page of "ana" under each.
ManyHosts ==
    Hosts({<<"org">>, <<"site", "org">>, <<"ana", "org">>, <<"ana", "site", "org">>,
           <<"www", "site", "org">>, <<"ana", "ana", "site", "org">>},
          {None, 80, 443, 8080}, BOOLEAN)
===============================================================================
