------------------------------ MODULE MCRunner ------------------------------
(***************************************************************************)
(* Small instances of Runner for TLC.                                      *)
(***************************************************************************)
EXTENDS Runner

\* A strict and a relaxed container that share a volume, an internal static
\* container and a dynamic one with a volume of another.
MixedKind    == <<"body", "body", "internal", "dynamic">>
MixedPolicy  == <<"Strict", "Relaxed", "Relaxed", "Relaxed">>
MixedHandle  == <<"db", "web", "cache", "proxy">>
MixedInject  == <<{}, {"db"}, {}, {}>>
MixedVolumes == <<{"data"}, {"data", "log"}, {}, {"log"}>>
MixedLogs    == <<"OnError", "OnStartupError", "Always", "None">>
MixedImages  == <<"postgres", "app", "redis", "nginx">>
MixedSource  == <<"DockerHub", "Local", "DockerLogin", "Local">>
MixedPull    == <<"IfNotPresent", "IfNotPresent", "Always", "Never">>

\* Two compositions of one image without names, the same container twice as an
\* external and once as a dynamic one, and a strict container between them.
TwiceKind    == <<"body", "external", "body", "body", "external", "dynamic">>
TwicePolicy  == <<"Relaxed", "Relaxed", "Strict", "Relaxed", "Relaxed", "Relaxed">>
TwiceHandle  == <<"web", "proxy", "db", "web", "proxy", "proxy">>
TwiceInject  == <<{"db"}, {}, {}, {}, {}, {}>>
TwiceVolumes == <<{"data"}, {}, {"data", "log"}, {}, {}, {}>>

\* One image that one of its compositions may pull and the other may not, and
\* one that is always pulled again.
TwiceLogs    == <<"OnError", "Always", "Always", "OnStartupError", "OnError", "None">>
TwiceImages  == <<"app", "nginx", "postgres", "app", "nginx", "nginx">>
TwiceSource  == <<"Credentials", "Local", "DockerLogin", "DockerHub", "Local", "Local">>
TwicePull    == <<"IfNotPresent", "Never", "Always", "Never", "IfNotPresent", "Never">>

\* Two strict containers around a relaxed one.
OwnKind    == <<"body", "body", "body">>
OwnPolicy  == <<"Strict", "Relaxed", "Strict">>
OwnHandle  == <<"db", "web", "queue">>
OwnInject  == <<{}, {"db", "queue"}, {}>>
OwnVolumes == <<{"data"}, {"data", "log"}, {}>>
OwnLogs    == <<"OnError", "OnError", "OnError">>
OwnImages  == <<"postgres", "app", "rabbit">>
OwnSource  == <<"Local", "Local", "Local">>
OwnPull    == <<"IfNotPresent", "IfNotPresent", "IfNotPresent">>
=============================================================================
