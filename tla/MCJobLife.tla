----------------------------- MODULE MCJobLife -----------------------------
(***************************************************************************)
(* Instances of JobLife for TLC: two Sosreports in two namespaces, and     *)
(* three nodes of which the first two have the same short name once it is  *)
(* cut to the length that is left by the limit.                            *)
(***************************************************************************)
EXTENDS JobLife, TLC

CONSTANTS x1, x2, a, b, c

MCCharacters == {"-", "1", "2", "e", "k", "m", "n", "r", "s", "t", "w"}
MCNamespace == (x1 :> "p") @@ (x2 :> "q")
MCName      == (x1 :> <<"s">>) @@ (x2 :> <<"s", "-", "t">>)
MCHostname  == (a :> <<<<"w", "r", "k", "-", "1">>, <<"n", "e", "t">>>>)
            @@ (b :> <<<<"w", "r", "k", "-", "2">>, <<"n", "e", "t">>>>)
            @@ (c :> <<<<"m">>>>)

Taint(key)      == [key |-> key, value |-> "", effect |-> "NoSchedule"]
Toleration(key) == [key |-> key, operator |-> "Exists", value |-> "",
                    effect |-> ""]

(* a and b are tolerated by x1, b by x2; c has a taint that nobody         *)
(* tolerates after one that all do.                                        *)
MCTaints == (a :> <<Taint("master")>>) @@ (b :> <<>>)
         @@ (c :> <<Taint("infra"), Taint("gpu")>>)
MCTolerations == (x1 :> <<Toleration("infra"), Toleration("master")>>)
              @@ (x2 :> <<Toleration("infra")>>)

-----------------------------------------------------------------------------
Development1 == ("sosreport-image" :> "image1" @@ "debug" :> "true")
Global1      == ("pvc-capacity" :> "none")
Case1        == ("upload-method" :> "case" @@ "case-number" :> "n1")
Nfs1         == ("upload-method" :> "nfs" @@ "nfs-share" :> "share1")
Ftp1         == ("upload-method" :> "ftp" @@ "ftp-server" :> "server1")
Line(text)   == [text |-> text, newlines |-> 1]
Secret1      == ("username" :> Line("user") @@ "password" :> Line("pw"))

MCContents == [development |-> {Missing},
               global |-> {Global1},
               upload |-> {Nfs1, Ftp1},
               secret |-> {}]

Nothing == [o \in Objects |-> Missing]

(* Namespace p uploads to a case, q only stores and has development        *)
(* settings; later one of them may turn to NFS or FTP.                     *)
MCInitialObjects ==
    {("p" :> [Nothing EXCEPT !.upload = Case1, !.secret = Secret1])
       @@ ("q" :> [Nothing EXCEPT !.development = Development1])}
=============================================================================
