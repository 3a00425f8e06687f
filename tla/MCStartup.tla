------------------------------ MODULE MCStartup ------------------------------
(***************************************************************************)
(* A model-checking instance of Startup: the options of logon.conf.dist,   *)
(* the overrides and mistakes a logon.conf may contain, and two modules.   *)
(***************************************************************************)
EXTENDS Startup

Info(text) == <<"LoginDatabaseInfo", "=", "quote">> \o text \o <<"quote">>
Tcp == Info(<<"db", ";", "3506", ";", "root", ";", "pw", ";", "mpool">>)
Option(k, v) == <<k, "=", v>>

AppDist == <<Option("ServerPort", "1234"), Tcp,
             Option("WorkerThreads", "1"), Option("SynchThreads", "1")>>

AppConfs ==
    {<<Info(<<".", ";", "sock", ";", "root", ";", "pw", ";", "mpool">>)>>,
     <<Info(<<"db", ";", "3506", ";", "root", ";", ";", "mpool", ";", "ssl">>)>>,
     <<Info(<<"db", ";", "3506", ";", "root", ";", "p", "#", "w", ";", "mpool">>)>>,
     <<Info(<<"db", ";", "3506", ";", "root", ";", "pw", ";", "my", "#", "pool">>)>>,
     <<Tcp \o <<"#", "see", ";", "=">> >>,
     <<Info(<<".", ";", "3506", ";", "root", ";", "pw", ";", "mpool">>)>>,
     <<Info(<<"db", ";", "-1", ";", "root", ";", "pw", ";", "mpool">>)>>,
     <<Info(<<"db", ";", ";", "3506", ";", "root", ";", "pw", ";", "mpool">>)>>,
     <<Info(<<>>)>>,
     <<Info(<<".", ";", "sock", ";", "root", ";", "pw", ";", "mpool">>),
       Option("SynchThreads", "0")>>,
     <<Option("WorkerThreads", "0")>>,
     <<Option("WorkerThreads", "33")>>,
     <<Option("WorkerThreads", "x"), Option("SynchThreads", "258")>>,
     <<Option("WorkerThreads", "2"), Option("WorkerThreads", "33")>>,
     <<Option("SynchThreads", "0") \o <<"#", "0">>, Option("Database.Reconnect.Attempts", "0")>>,
     <<Option("ServerPort", "65536")>>,
     <<Option("ServerPort", "-1")>>,
     << <<"[", "section", "]">>, <<"#", "=", "1">>, <<"junk">> >>}

MCContents ==
    [f \in {Dist(App), Conf(App)} \cup {Dist(<<m>>) : m \in {"m1", "m2"}}
                                  \cup {Conf(<<m>>) : m \in {"m1", "m2"}} |->
       CASE f = Dist(App) -> {Missing, <<>>, AppDist}
         [] f = Conf(App) -> {Missing} \cup AppConfs
         [] f = Dist(<<"m1">>) -> {Missing, <<Option("A", "1"), Option("SynchThreads", "2")>>}
         [] f = Conf(<<"m1">>) -> {Missing, <<Option("A", "2"), Option("B", "2")>>}
         [] f = Dist(<<"m2">>) -> {Missing, <<Option("B", "1")>>}
         [] f = Conf(<<"m2">>) -> {Missing}]

MCModuleLists == {<<>>, <<"m1">>, <<"m2", ",">>, <<"m2", ",", ",", "m1">>}

MCNumerals == [n \in {"-1", "0", "1", "2", "33", "258", "1234", "3506", "65536"} |->
    CASE n = "-1" -> -1 [] n = "0" -> 0 [] n = "1" -> 1 [] n = "2" -> 2 [] n = "33" -> 33
      [] n = "258" -> 258 [] n = "1234" -> 1234 [] n = "3506" -> 3506 [] n = "65536" -> 65536]

Version(mariadb, major, minor, patch) ==
    [mariadb |-> mariadb, major |-> major, minor |-> minor, patch |-> patch]
MCVersions == {Version(FALSE, 5, 6, 51), Version(FALSE, 5, 7, 0), Version(FALSE, 8, 0, 35),
               Version(TRUE, 5, 5, 68), Version(TRUE, 10, 4, 2), Version(TRUE, 10, 11, 2)}
=============================================================================
