------------------------------ MODULE Startup ------------------------------
(***************************************************************************)
(* From main to the game loop: CServerConfig reads ServerConfig.json into   *)
(* its two maps, CGameService::Init looks its own entry up, and             *)
(* CNetManager::Start makes the sessions, the acceptor and the io thread.   *)
(* It runs on the main thread alone, until the io thread starts.            *)
(***************************************************************************)
EXTENDS Integers, Sequences

CONSTANTS
    Members,      \* names of the members of "root" in the file
    ServerNames,  \* values of ServerName; "GatWay" is what Init looks for
    ServerIds, Counts,    \* values of ServerId and MaxConct
    MaxEntries    \* bound: members of "root"

ASSUME StartupAssumption == "GatWay" \in ServerNames /\ Counts \subseteq Nat

ServerConfigInfo ==
    [ServerId : ServerIds, ServerName : ServerNames, Ip : {"usable", "unusable"},
     MaxConct : Counts]

\* ServerConfigInfo{}; an empty address is none from_string accepts.
ConfigInfo0 == [ServerId |-> 0, ServerName |-> "", Ip |-> "unusable", MaxConct |-> 0]

VARIABLES
    hasRoot,      \* the file is there, with a member "root" and all the fields read
    root,         \* the members of "root"
    DocIter,
    m_ServerConfigInfo, m_strServerConfigInfo,
    main,         \* "load", "init", "start", "run" or "dead"
    sClf,         \* the entry of this server
    sessions,     \* how many sessions have been made
    accepting,    \* async_accept has been called
    ioThread      \* "none", "running", or "ended": run found nothing to do

config == <<hasRoot, root, DocIter, m_ServerConfigInfo, m_strServerConfigInfo>>
net == <<sClf, sessions, accepting, ioThread>>
vars == <<config, main, net>>

Init ==
    /\ hasRoot \in BOOLEAN
    /\ root \in UNION {[1 .. n -> Members \X ServerConfigInfo] : n \in 0 .. MaxEntries}
    /\ DocIter = 1
    /\ m_ServerConfigInfo = [i \in ServerIds |-> ConfigInfo0]
    /\ m_strServerConfigInfo = [n \in ServerNames |-> ConfigInfo0]
    /\ main = "load"
    /\ sClf = ConfigInfo0
    /\ sessions = 0
    /\ accepting = FALSE
    /\ ioThread = "none"

-----------------------------------------------------------------------------
\* rapidjson asserts that document["root"], and every field, is there.
LoadFails ==
    /\ main = "load" /\ ~hasRoot
    /\ main' = "dead"
    /\ UNCHANGED <<config, net>>

\* DocRoot[DocIter->name]: the first member of that name.
Value(iter) ==
    LET same == {j \in DOMAIN root : root[j][1] = root[iter][1]}
    IN  root[CHOOSE j \in same : \A k \in same : j <= k][2]

\* Deliberately wrong: the id map keeps the first entry of an id.
ById_First(V) ==
    IF m_ServerConfigInfo[V.ServerId] = ConfigInfo0 THEN [m_ServerConfigInfo EXCEPT ![V.ServerId] = V]
    ELSE m_ServerConfigInfo

ById(V) == [m_ServerConfigInfo EXCEPT ![V.ServerId] = V]

LoadEntry ==
    /\ main = "load" /\ hasRoot /\ DocIter <= Len(root)
    /\ m_ServerConfigInfo' = ById(Value(DocIter))
    /\ m_strServerConfigInfo' =
          [m_strServerConfigInfo EXCEPT ![Value(DocIter).ServerName] = Value(DocIter)]
    /\ DocIter' = DocIter + 1
    /\ UNCHANGED <<hasRoot, root, main, net>>

LoadEnd ==
    /\ main = "load" /\ hasRoot /\ DocIter > Len(root)
    /\ main' = "init"
    /\ UNCHANGED <<config, net>>

\* What a find does not find is ConfigInfo{}, like what the maps begin with here.
GetServerInfoByServerId(nId) == m_ServerConfigInfo[nId]
GetServerInfoByServerName(ServrName) == m_strServerConfigInfo[ServrName]

\* CGameService::Init; then Start runs InitConnectionList.
GameInit ==
    /\ main = "init"
    /\ sClf' = GetServerInfoByServerName("GatWay")
    /\ sessions' = sClf'.MaxConct
    /\ main' = "start"
    /\ UNCHANGED <<config, accepting, ioThread>>

\* from_string throws, or the acceptor cannot bind the port.
StartThrows ==
    /\ main = "start"
    /\ main' = "dead"
    /\ UNCHANGED <<config, net>>

\* Deliberately wrong: Start does not wait for a connection.
WaitForConnet_Skipped == FALSE

\* WaitForConnet's result, which Start ignores.
WaitForConnet == sessions > 0

\* The acceptor, WaitForConnet and the io thread; Init returns true.
Start ==
    /\ main = "start" /\ sClf.Ip = "usable"
    /\ accepting' = WaitForConnet
    /\ ioThread' = "running"
    /\ main' = "run"
    /\ UNCHANGED <<config, sClf, sessions>>

\* io_service::run returns when nothing is outstanding.
IoThreadEnds ==
    /\ ioThread = "running" /\ ~accepting
    /\ ioThread' = "ended"
    /\ UNCHANGED <<config, main, sClf, sessions, accepting>>

Next == LoadFails \/ LoadEntry \/ LoadEnd \/ GameInit \/ StartThrows \/ Start \/ IoThreadEnds

Spec == Init /\ [][Next]_vars /\ WF_vars(Next)

-----------------------------------------------------------------------------
(***************************************************************************)
(* Both maps answer with the last entry that has the id, or the name, and   *)
(* with nothing of another server: an entry is what its id gives, and what  *)
(* its name gives, unless a later one has the same.  (In the shipped file   *)
(* ClientTest hides GatWay, which has the same id.)                         *)
(***************************************************************************)
EntriesFound ==
    main \notin {"load", "dead"} =>
        \A j \in DOMAIN root :
            /\ \/ GetServerInfoByServerId(Value(j).ServerId) = Value(j)
               \/ \E k \in (j + 1) .. Len(root) : Value(k).ServerId = Value(j).ServerId
            /\ \/ GetServerInfoByServerName(Value(j).ServerName) = Value(j)
               \/ \E k \in (j + 1) .. Len(root) : Value(k).ServerName = Value(j).ServerName

(***************************************************************************)
(* Start either ends the process or leads to the game loop with an accept   *)
(* waiting; the one exception is a configuration with MaxConct 0, with      *)
(* which Init returns true, the io thread ends and the loop runs for        *)
(* nobody.                                                                  *)
(***************************************************************************)
StartedListens ==
    <>(\/ main = "dead"
       \/ main = "run" /\ (accepting \/ (sClf.MaxConct = 0 /\ ioThread = "ended")))
=============================================================================
