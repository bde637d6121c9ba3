---------------------------- MODULE ServerLogins ----------------------------
(***************************************************************************)
(* older/lib_nagios.py and the checks over it, older/check_svn.py and      *)
(* older/check_vnc.py, and older/check_sftp.py, written before it.  Each   *)
(* starts a client program once and judges its exit code and output.       *)
(*                                                                         *)
(* A world is what the client will meet: whether it is installed, whether  *)
(* it gets in, and what it prints ("list", "text" or "").  python is the   *)
(* version that runs the plugin: str() of no output is "b''" for 3.        *)
(***************************************************************************)
EXTENDS PluginStep

Clients == {"works", "absent", "not executable"}
LoginWorlds ==
    [client : Clients, login : BOOLEAN, output : {"text", ""}, python : {2, 3},
     entries : {{}}, password : {"readable", "absent", "secret"}]
SftpWorlds ==
    [client : {"works"}, login : BOOLEAN, output : {"text"}, python : {2},
     entries : SUBSET {<<"pub", "d">>, <<"motd", "-">>}, password : {"readable", "absent"}]
LoginChanges(w) == {[w EXCEPT !.login = ~w.login]}

LoginOptions ==
    [server : {"host", "none", "no name"}, timeout : {10, 70000}, port : {NoLimit, 3690, 65536},
     http : BOOLEAN, https : BOOLEAN, passwdfile : BOOLEAN, verbosity : {0}]
SftpOptions ==
    [server : {"host"}, timeout : {30}, port : {22}, files : SUBSET {"motd"}, dirs : SUBSET {"pub"},
     sshkey : BOOLEAN]
    \cup [server : {"host", "none"}, timeout : {30, 3601}, port : {22, 0, 65536}, files : {{}},
          dirs : {{}}, sshkey : {FALSE}]

LoginTimeout == "CRITICAL"

-----------------------------------------------------------------------------
(* older/lib_nagios.py *)

Which(w) == w.client = "works"
ValidHost(o) == o.server = "host"
ValidTimeout(o) == o.timeout \in 1..65535

LibRun(w) ==
    CASE w.output = "" /\ w.python = 2 -> Fatal("UNKNOWN")
      [] OTHER -> [code |-> IF w.login THEN 0 ELSE 1, output |-> w.output # "" \/ w.python = 3]

-----------------------------------------------------------------------------
(* older/check_svn.py *)

SvnProtocol(o) == ~(o.http /\ o.https)
SvnPort(o) == o.port = NoLimit \/ o.port \in 1..65535
SvnValid(o) == ValidHost(o) /\ SvnProtocol(o) /\ SvnPort(o) /\ ValidTimeout(o)

\* Both clients are judged alike.
ClientVerdict(a) ==
    CASE a.code # 0 -> Exit("CRITICAL")
      [] ~a.output -> Exit("WARNING")
      [] OTHER -> Exit("OK")

TestSvn(seen) == IF IsFatal(seen[1]) THEN Exit(seen[1].fatal) ELSE ClientVerdict(seen[1])

SvnStep(o, seen, w) ==
    CASE ~SvnValid(o) \/ ~Which(w) -> Exit("UNKNOWN")
      [] seen = <<>> -> Ask("svn ls")
      [] OTHER -> TestSvn(seen)

-----------------------------------------------------------------------------
(* older/check_vnc.py *)

VncPasswdfile(o, w) == o.passwdfile /\ w.password = "readable"
VncValid(o, w) == ValidHost(o) /\ VncPasswdfile(o, w) /\ ValidTimeout(o)

TestVnc(seen) == IF IsFatal(seen[1]) THEN Exit(seen[1].fatal) ELSE ClientVerdict(seen[1])

VncStep(o, seen, w) ==
    CASE ~VncValid(o, w) \/ ~Which(w) -> Exit("UNKNOWN")
      [] seen = <<>> -> Ask("vncsnapshot")
      [] OTHER -> TestVnc(seen)

-----------------------------------------------------------------------------
(* older/check_sftp.py *)

SftpWhich(w) == w.client # "absent"
SftpValid(o, w) ==
    /\ o.timeout \in 1..3600
    /\ o.server = "host" /\ o.port \in 1..65335
    /\ o.sshkey => w.password = "readable"

\* Of files and of directories alike a line is wanted that starts with "d".
TestItems(a, items) == \A i \in items : <<i, "d">> \in a.entries

SftpRun(w) == [code |-> IF w.login THEN 0 ELSE 255, entries |-> IF w.login THEN w.entries ELSE {}]

TestSftp(o, a) ==
    Exit(If(a.code # 0 \/ ~TestItems(a, o.files) \/ ~TestItems(a, o.dirs), "CRITICAL"))

SftpStep(o, seen, w) ==
    CASE ~SftpValid(o, w) \/ ~SftpWhich(w) \/ w.client = "not executable" -> Exit("UNKNOWN")
      [] seen = <<>> -> Ask("sftp")
      [] OTHER -> TestSftp(o, seen[1])

\* What OK vouches for.
SftpClaims(o) == {"login"} \cup o.files \cup o.dirs
LoginHolds(c, o, w) ==
    CASE c = "login" -> w.login
      [] c = "output" -> w.output # "" \/ w.python = 3
      [] OTHER -> \E e \in w.entries : e[1] = c

\* A file is never found: only lines of directories are looked at.
SftpExcuses(o) == o.files # {}
=============================================================================
