----------------------------- MODULE ConfigSync -----------------------------
(***************************************************************************)
(* supabase config push: the settings of config.toml against those of the  *)
(* project.  The updater takes one section after another: it reads the     *)
(* project's settings, writes them over a copy of the local ones, shows    *)
(* the difference of the two, asks, and sends the local ones.              *)
(*                                                                         *)
(* Which settings a section sends, and which it reads back, are two lists  *)
(* written apart, field by field.  What is not declared locally must be    *)
(* neither sent nor shown, and what is sent must be what has been shown.   *)
(*                                                                         *)
(* What is declared locally is config.toml over the defaults of the        *)
(* template that the loader merges it into: these declare the S3 protocol  *)
(* and the provider "apple", which config.toml can alter and not leave out.*)
(*                                                                         *)
(* A setting stands for the fields that the source treats alike: "hook" is *)
(* any of the six hooks, "external" any provider but apple, "plain" and    *)
(* "email" the fields of their function that are always sent and always    *)
(* read.  It has four parts:                                               *)
(*   decl  is it declared at all (a pointer that is not nil, a key of a    *)
(*         map, an override of the database's settings)?                   *)
(*   on    its switch                                                      *)
(*   val   its other fields; 0 is the zero value                           *)
(*   sec   the hash of its secret; NoSecret if the secret is not loaded    *)
(* Durations are counted in halves of the unit they are sent in.           *)
(***************************************************************************)
EXTENDS Naturals, Sequences, FiniteSets

CONSTANTS Values,    \* of val: naturals, 0 among them
          Secrets,   \* the hashes, NoSecret not among them
          NoSecret,
          Variable,  \* the sets of settings that vary together in a run
          MaxWrites  \* bound: changes of the project by somebody else

ASSUME ConfigAssumption ==
  /\ Values \subseteq Nat /\ 0 \in Values
  /\ \A v \in Values : v - (v % 2) \in Values  \* what is sent is a value
  /\ NoSecret \notin Secrets
  /\ MaxWrites \in Nat

\* UpdateRemoteConfig, and UpdateDbConfig within it.
Sections == <<"api", "settings", "network", "ssl", "auth", "storage", "webhooks">>

SettingsOf(s) ==
  CASE s = "api" -> {"schemas", "max_rows", "search_path"}
    [] s = "settings" -> {"settings"}
    [] s = "network" -> {"network"}
    [] s = "ssl" -> {"ssl"}
    [] s = "auth" -> {"plain", "rate_limit", "email_rate", "captcha", "passkey",
                      "webauthn", "hook", "mfa", "sessions", "email", "smtp",
                      "template", "notification", "sms", "test_otp",
                      "apple", "external", "web3", "oauth_server"}
    [] s = "storage" -> {"file_size", "transformation", "s3", "buckets"}
    [] s = "webhooks" -> {"webhooks"}

Settings == UNION {SettingsOf(Sections[k]) : k \in 1 .. Len(Sections)}
Setting == [decl : BOOLEAN, on : BOOLEAN, val : Values,
            sec : Secrets \cup {NoSecret}]
Parts == {"on", "val", "sec"}

VARIABLES
  config,   \* config.toml over the defaults
  enabled,  \* auth.enabled and storage.enabled, as a set of sections
  project,  \* the settings of the project
  at,       \* the section that the updater is at
  step,     \* "idle" | "get" | "cost" | "diff" | "ask" | "put"
  mine,     \* the updater's copy of config
  got,      \* the settings it has read
  shown,    \* the settings in which the two differ, as shown
  agreed,   \* the add-on has been agreed to
  calm,     \* nothing has failed, been declined or changed by somebody else
  others,   \* settings somebody else has changed since they were read
  ended,    \* how the last push ended
  writes,   \* bounded by MaxWrites
  varied    \* bound: the settings that vary, one of Variable

configVars == <<config, enabled, project, at, step, mine, got, shown, agreed,
                calm, others, ended, writes, varied>>
files == <<config, enabled, varied>>

(***************************************************************************)
(* What can be declared, and what a project can have.                      *)
(***************************************************************************)
Off == [decl |-> FALSE, on |-> FALSE, val |-> 0, sec |-> NoSecret]
DeclaredOff == [decl |-> TRUE, on |-> FALSE, val |-> 0, sec |-> NoSecret]

\* What the source keeps behind a pointer or in a map, and so can leave out.
Pointers == {"settings", "ssl", "captcha", "passkey", "webauthn", "hook", "smtp",
             "template", "notification", "external", "transformation", "webhooks"}
\* What it keeps there too, and the defaults declare.
Defaults == {"s3", "apple"}
OffHere(k) == IF k \in Defaults THEN DeclaredOff ELSE Off
WithSecret == {"captcha", "hook", "smtp", "sms", "apple", "external"}
OnlySwitch == {"ssl", "passkey", "web3", "transformation", "s3", "webhooks"}
NoSwitch == {"max_rows", "search_path", "settings", "plain", "rate_limit",
             "email_rate", "webauthn", "sessions", "email", "template",
             "test_otp", "oauth_server", "file_size"}

\* The parts a setting does not have stay at their zero values.
HasItsParts(k, v) ==
  /\ k \in NoSwitch => ~v.on
  /\ k \in OnlySwitch => v.val = 0
  /\ k \notin WithSecret => v.sec = NoSecret
  /\ k = "mfa" => v.val \in {0, 1}

\* Validate and load: an sms signup without a provider, a captcha without its
\* secret, a mail server without its host or its password, and a factor that can
\* be enrolled and not verified are refused, or switched off.
LocalSettings(k) == {v \in Setting :
  /\ HasItsParts(k, v)
  /\ IF k \in Pointers THEN v.decl \/ v = Off ELSE v.decl <=> k \in Defaults
  /\ k = "sms" => (v.on => v.val # 0) /\ (v.val = 0 <=> v.sec = NoSecret)
  /\ k \in {"captcha", "smtp"} /\ v.on => v.sec # NoSecret
  /\ k = "smtp" /\ v.on => v.val # 0
  /\ k = "mfa" /\ v.val = 1 => v.on
  /\ k = "webhooks" => v.on = v.decl}

\* A project has every setting; only overrides of the database can be missing.
\* It counts a mail interval in whole seconds, and has no secret of a provider
\* that it does not have.  "Api resets all values when SMTP is disabled".
ProjectSettings(k) == {v \in Setting :
  /\ HasItsParts(k, v)
  /\ IF k = "settings" THEN v.decl \/ v = Off ELSE ~v.decl
  /\ k \in {"schemas", "network"} => ~v.on
  /\ k = "email" => v.val % 2 = 0
  /\ k = "sms" => (v.val = 0 => v.sec = NoSecret)
  /\ k = "smtp" /\ ~v.on => v.val = 0 /\ v.sec = NoSecret
  /\ k = "mfa" /\ v.val = 1 => v.on}


-----------------------------------------------------------------------------
(***************************************************************************)
(* What is sent: the parts of a setting that the update's body has.        *)
(***************************************************************************)

\* A secret that has not been loaded has no hash.
Secret(l) == IF l.sec # NoSecret THEN {"sec"} ELSE {}

\* "Ignore disabled ... because their envs are not loaded".
ToSwitched(l) == IF l.on THEN {"on", "val"} \cup Secret(l) ELSE {"on"}

\* "When local config is not set, we assume platform defaults should not
\* change".
ToDeclared(l, parts) == IF l.decl THEN parts ELSE {}

\* A faulty variant: the secret of a hook is not sent.
ToHookNoSecret(l) == ToDeclared(l, IF l.on THEN {"on", "val"} ELSE {"on"})

ToCaptcha(l) == ToDeclared(l, ToSwitched(l))
ToHook(l) == ToDeclared(l, ToSwitched(l))
ToExternal(l) == ToDeclared(l, ToSwitched(l))
\* An empty host, which is all that is sent then, disables SMTP and resets it.
ToSmtp(l) == ToDeclared(l, IF l.on THEN ToSwitched(l) ELSE Parts)
ToPasskey(l) == ToDeclared(l, {"on"})
ToWebauthn(l) == ToDeclared(l, {"val"})
ToTemplate(l) == ToDeclared(l, {"val"})
ToNotification(l) == ToDeclared(l, {"on"} \cup (IF l.val # 0 THEN {"val"} ELSE {}))
ToMFA == {"on", "val"}  \* verify and enroll
ToSms(l) == {"on"} \cup (IF l.val # 0 THEN {"val"} \cup Secret(l) ELSE {})
ToTestOtp(l) == IF l.val # 0 THEN {"val"} ELSE {}
ToOAuthServer == {}

\* The schemas are what enables the API; 0 stands for none.
ToSchemas(l) == IF ~l.on \/ l.val # 0 THEN {"val"} ELSE {}
ToMaxRows(api, l) == IF api.on /\ l.val # 0 THEN {"val"} ELSE {}
ToSearchPath(api) == IF api.on THEN {"val"} ELSE {}

ToSettings(l) == ToDeclared(l, {"decl", "val"})
ToNetwork(l) == IF l.on THEN {"val"} ELSE {}
ToSsl(l) == ToDeclared(l, {"on"})

\* A faulty variant: image transformation that is not declared is sent as disabled.
ToTransformationAlways(k, l) ==
  CASE k = "file_size" -> {"val"}
    [] k = "transformation" -> {"on"}
    [] k = "s3" -> ToDeclared(l, {"on"})
    [] k = "buckets" -> IF l.on THEN {"on", "val"} ELSE {}

\* "Disabling analytics and vector buckets means leaving platform values
\* unchanged".
ToStorage(k, l) ==
  CASE k = "file_size" -> {"val"}
    [] k \in {"transformation", "s3"} -> ToDeclared(l, {"on"})
    [] k = "buckets" -> IF l.on THEN {"on", "val"} ELSE {}

ToAuth(k, c) ==
  CASE k \in {"plain", "rate_limit", "sessions", "email"} -> {"val"}
    [] k = "web3" -> {"on"}
    [] k = "email_rate" -> IF c.smtp.decl /\ c.smtp.on THEN {"val"} ELSE {}
    [] k = "captcha" -> ToCaptcha(c[k])
    [] k = "passkey" -> ToPasskey(c[k])
    [] k = "webauthn" -> ToWebauthn(c[k])
    [] k = "hook" -> ToHook(c[k])
    [] k = "mfa" -> ToMFA
    [] k = "smtp" -> ToSmtp(c[k])
    [] k = "template" -> ToTemplate(c[k])
    [] k = "notification" -> ToNotification(c[k])
    [] k = "sms" -> ToSms(c[k])
    [] k = "test_otp" -> ToTestOtp(c[k])
    [] k \in {"apple", "external"} -> ToExternal(c[k])
    [] k = "oauth_server" -> ToOAuthServer

To(k, c) ==
  CASE k = "schemas" -> ToSchemas(c[k])
    [] k = "max_rows" -> ToMaxRows(c.schemas, c[k])
    [] k = "search_path" -> ToSearchPath(c.schemas)
    [] k = "settings" -> ToSettings(c[k])
    [] k = "network" -> ToNetwork(c[k])
    [] k = "ssl" -> ToSsl(c[k])
    [] k \in SettingsOf("auth") -> ToAuth(k, c)
    [] k \in SettingsOf("storage") -> ToStorage(k, c[k])
    [] k = "webhooks" -> {"on"}

\* As it is sent: the minimum interval between two mails is sent in whole
\* seconds; a disabled API has no schemas, and disabled SMTP nothing.
Whole(v) == v - (v % 2)
Sent(k, l) ==
  CASE k = "email" -> [l EXCEPT !.val = Whole(@)]
    [] k = "schemas" -> [l EXCEPT !.val = IF l.on THEN @ ELSE 0]
    [] k = "smtp" /\ ~l.on -> [l EXCEPT !.val = 0, !.sec = NoSecret]
    [] OTHER -> l

\* The project after the update: what the body does not have stays.
Merge(r, parts, l) ==
  [decl |-> IF "decl" \in parts THEN l.decl ELSE r.decl,
   on |-> IF "on" \in parts THEN l.on ELSE r.on,
   val |-> IF "val" \in parts THEN l.val ELSE r.val,
   sec |-> IF "sec" \in parts THEN l.sec ELSE r.sec]

Updated(k, c, r) == Merge(r, To(k, c), Sent(k, c[k]))

-----------------------------------------------------------------------------
(***************************************************************************)
(* What is read: the settings of the project r over the local ones.        *)
(***************************************************************************)

FromDeclared(l, read) == IF l.decl THEN read ELSE l

FromSwitched(l, r) ==
  [l EXCEPT !.on = r.on,
            !.val = IF l.on THEN r.val ELSE @,
            !.sec = IF l.on /\ @ # NoSecret THEN r.sec ELSE @]

\* A faulty variant: a hook is compared without its secret.
FromHookNoSecret(l, r) ==
  FromDeclared(l, [l EXCEPT !.on = r.on, !.val = IF l.on THEN r.val ELSE @])

FromCaptcha(l, r) == FromDeclared(l, FromSwitched(l, r))
FromHook(l, r) == FromDeclared(l, FromSwitched(l, r))
FromExternal(l, r) == FromDeclared(l, FromSwitched(l, r))
\* A host that is null is read as one that is set, so SMTP is always read as
\* enabled.
FromSmtp(l, r) == FromDeclared(l, [FromSwitched(l, r) EXCEPT !.on = TRUE])
FromPasskey(l, r) == FromDeclared(l, [l EXCEPT !.on = r.on])
FromWebauthn(l, r) == FromDeclared(l, [l EXCEPT !.val = r.val])
FromTemplate(l, r) == FromDeclared(l, [l EXCEPT !.val = r.val])
FromNotification(l, r) ==
  FromDeclared(l, [l EXCEPT !.on = r.on, !.val = IF @ # 0 THEN r.val ELSE 0])
FromMFA(l, r) == [l EXCEPT !.on = r.on, !.val = r.val]
\* "We are only interested in the provider that's enabled locally", and in the
\* project's if phone signup is enabled there.
FromSms(l, r) ==
  [l EXCEPT !.on = r.on,
            !.sec = IF l.val # 0 /\ @ # NoSecret THEN r.sec ELSE @,
            !.val = IF r.val # 0 /\ (l.val # 0 \/ r.on) THEN r.val ELSE @]
\* Whole hours: the fraction of an hour that is sent is cut off.
FromSessions(l, r) == [l EXCEPT !.val = Whole(r.val)]
FromOAuthServer(l, r) == l

FromApi(k, c, r) ==
  IF r.schemas.val = 0
  THEN IF k = "schemas" THEN [c[k] EXCEPT !.on = FALSE] ELSE c[k]
  ELSE IF k = "schemas" THEN [c[k] EXCEPT !.on = TRUE, !.val = r[k].val]
  ELSE [c[k] EXCEPT !.val = r[k].val]

FromSettings(l, r) == [l EXCEPT !.decl = r.decl, !.val = r.val]
FromNetwork(l, r) == IF l.on THEN [l EXCEPT !.val = r.val] ELSE l
FromSsl(l, r) == FromDeclared(l, [l EXCEPT !.on = r.on])

FromStorage(k, l, r) ==
  CASE k = "file_size" -> [l EXCEPT !.val = r.val]
    [] k \in {"transformation", "s3"} -> FromDeclared(l, [l EXCEPT !.on = r.on])
    [] k = "buckets" ->
         IF l.on THEN [l EXCEPT !.on = r.on, !.val = r.val] ELSE l

FromAuth(k, c, r) ==
  CASE k \in {"plain", "rate_limit", "email", "test_otp"} ->
         [c[k] EXCEPT !.val = r[k].val]
    [] k = "web3" -> [c[k] EXCEPT !.on = r[k].on]
    [] k = "email_rate" -> IF c.smtp.decl /\ c.smtp.on
                           THEN [c[k] EXCEPT !.val = r[k].val] ELSE c[k]
    [] k = "captcha" -> FromCaptcha(c[k], r[k])
    [] k = "passkey" -> FromPasskey(c[k], r[k])
    [] k = "webauthn" -> FromWebauthn(c[k], r[k])
    [] k = "hook" -> FromHook(c[k], r[k])
    [] k = "mfa" -> FromMFA(c[k], r[k])
    [] k = "sessions" -> FromSessions(c[k], r[k])
    [] k = "smtp" -> FromSmtp(c[k], r[k])
    [] k = "template" -> FromTemplate(c[k], r[k])
    [] k = "notification" -> FromNotification(c[k], r[k])
    [] k = "sms" -> FromSms(c[k], r[k])
    [] k \in {"apple", "external"} -> FromExternal(c[k], r[k])
    [] k = "oauth_server" -> FromOAuthServer(c[k], r[k])

From(k, c, r) ==
  CASE k \in SettingsOf("api") -> FromApi(k, c, r)
    [] k = "settings" -> FromSettings(c[k], r[k])
    [] k = "network" -> FromNetwork(c[k], r[k])
    [] k = "ssl" -> FromSsl(c[k], r[k])
    [] k \in SettingsOf("auth") -> FromAuth(k, c, r)
    [] k \in SettingsOf("storage") -> FromStorage(k, c[k], r[k])
    [] k = "webhooks" -> c[k]

\* DiffWithRemote: the settings of section s in which the copy differs.
DiffWithRemote(s, c, r) == {k \in SettingsOf(s) : From(k, c, r) # c[k]}

-----------------------------------------------------------------------------
(***************************************************************************)
(* The updater.                                                            *)
(***************************************************************************)

Section == Sections[at]
MoreSections == at < Len(Sections)

\* Sections that are not declared or not enabled are not even read.
Applies(s) ==
  CASE s \in {"auth", "storage"} -> s \in enabled
    [] s = "network" -> config.network.on
    [] s = "ssl" -> config.ssl.decl
    [] s = "webhooks" -> config.webhooks.decl /\ config.webhooks.on
    [] OTHER -> TRUE

Unread == [k \in Settings |-> Off]

\* What has been read and shown does not outlive its section, nor the copy and
\* the consent their push.
LeaveSection == got' = Unread /\ shown' = {} /\ others' = {}

Ends(how) ==
  /\ LeaveSection
  /\ mine' = Unread /\ at' = 1 /\ agreed' = FALSE
  /\ step' = "idle" /\ ended' = how

NextSection ==
  IF MoreSections
  THEN LeaveSection /\ at' = at + 1 /\ step' = "get" /\ UNCHANGED <<mine, agreed, ended>>
  ELSE Ends("done")

\* A second push would start from settings that the first could start from.
Push ==
  /\ step = "idle" /\ ended = "none"
  /\ mine' = config
  /\ step' = "get"
  /\ UNCHANGED <<files, project, at, got, shown, agreed, calm, others, ended, writes>>

Skip ==
  /\ step = "get"
  /\ ~Applies(Section)
  /\ NextSection
  /\ UNCHANGED <<files, project, calm, writes>>

\* Webhooks are not read: they are enabled again each time.
Get ==
  /\ step = "get"
  /\ Applies(Section)
  /\ got' = project
  /\ others' = {}
  /\ shown' = IF Section = "webhooks" THEN {"webhooks"} ELSE {}
  /\ step' = CASE Section = "auth" -> "cost" [] Section = "webhooks" -> "ask"
               [] OTHER -> "diff"
  /\ UNCHANGED <<files, project, at, mine, agreed, calm, ended, writes>>

\* A faulty variant: an add-on that is declined is left in the copy.
Keep(c) == c

\* "Confirm cost before enabling addons", "Enroll cannot be enabled on its own".
Decline(c) == [c EXCEPT !.mfa.on = FALSE, !.mfa.val = 0]

ConfirmCost ==
  /\ step = "cost"
  /\ IF mine.mfa.on /\ ~From("mfa", mine, got).on
     THEN \/ agreed' = TRUE /\ UNCHANGED <<mine, calm>>
          \/ mine' = Decline(mine) /\ calm' = FALSE /\ UNCHANGED agreed
     ELSE UNCHANGED <<mine, agreed, calm>>
  /\ step' = "diff"
  /\ UNCHANGED <<files, project, at, got, shown, others, ended, writes>>

Diff ==
  /\ step = "diff"
  /\ LET differs == DiffWithRemote(Section, mine, got) IN
       IF differs = {} THEN NextSection
       ELSE /\ shown' = differs /\ step' = "ask"
            /\ UNCHANGED <<at, mine, got, agreed, others, ended>>
  /\ UNCHANGED <<files, project, calm, writes>>

Ask ==
  /\ step = "ask"
  /\ \/ /\ step' = "put"
        /\ UNCHANGED <<at, mine, got, shown, agreed, others, ended, calm>>
     \/ NextSection /\ calm' = FALSE
  /\ UNCHANGED <<files, project, writes>>

\* The project takes over what it is sent.
Take ==
  project' = [k \in Settings |->
    IF k \in SettingsOf(Section) THEN Updated(k, mine, project[k]) ELSE project[k]]

Put ==
  /\ step = "put"
  /\ Take
  /\ NextSection
  /\ UNCHANGED <<files, calm, writes>>

\* A request that fails ends the push; the update may have been made.
Fails ==
  /\ step \in {"get", "put"}
  /\ Applies(Section)
  /\ UNCHANGED project \/ (step = "put" /\ Take)
  /\ Ends("failed")
  /\ calm' = FALSE
  /\ UNCHANGED <<files, writes>>

\* Somebody else changes a field in the dashboard, or those of SMTP, after its
\* section has been read; a change before that is one of the settings the
\* project starts with.
Write ==
  /\ step \notin {"idle", "get"}
  /\ writes < MaxWrites /\ writes' = writes + 1
  /\ \E k \in SettingsOf(Section) \cap varied :
       \E v \in ProjectSettings(k) \ {project[k]}, part \in Parts \cup {"decl"} :
         /\ k = "smtp" \/ v = [project[k] EXCEPT ![part] = v[part]]
         /\ project' = [project EXCEPT ![k] = v]
         /\ others' = others \cup {k}
  /\ calm' = FALSE
  /\ UNCHANGED <<files, at, step, mine, got, shown, agreed, ended>>

\* The settings that vary are any of those allowed, the others are off.
WithOff(f) == [k \in Settings |-> IF k \in varied THEN f[k] ELSE Off]
WithOffHere(f) == [k \in Settings |-> IF k \in varied THEN f[k] ELSE OffHere(k)]
Allowed(f, allowed(_)) == \A k \in varied : f[k] \in allowed(k)

ConfigInit ==
  /\ varied \in Variable
  /\ \E c \in [varied -> UNION {LocalSettings(k) : k \in varied}] :
       Allowed(c, LocalSettings) /\ config = WithOffHere(c)
  /\ \E p \in [varied -> UNION {ProjectSettings(k) : k \in varied}] :
       Allowed(p, ProjectSettings) /\ project = WithOff(p)
  /\ enabled \in {{}, {"auth", "storage"}}
  /\ at = 1 /\ step = "idle" /\ ended = "none"
  /\ mine = Unread /\ got = Unread
  /\ shown = {} /\ others = {}
  /\ agreed = FALSE /\ calm = TRUE
  /\ writes = 0

ConfigNext ==
  Push \/ Skip \/ Get \/ ConfirmCost \/ Diff \/ Ask \/ Put \/ Fails \/ Write

ConfigSpec == ConfigInit /\ [][ConfigNext]_configVars

-----------------------------------------------------------------------------
(***************************************************************************)
(* Properties.                                                             *)
(***************************************************************************)

\* What a push cannot bring into line, however often it is run: an override of
\* the database that is only on the project, schemas, a row limit or test codes
\* that have been emptied, intervals that are not whole, and a mail server that
\* is declared and disabled, which every push finds enabled.
NeverSettles(k) ==
  \/ k = "settings" /\ ~config[k].decl
  \/ k \in {"schemas", "max_rows"} /\ config.schemas.on /\ config[k].val = 0
  \/ k = "test_otp" /\ config[k].val = 0
  \/ k \in {"sessions", "email"} /\ config[k].val # Whole(config[k].val)
  \/ k = "smtp" /\ config[k].decl /\ ~config[k].on

\* After a push in which nothing failed, was declined or was changed by somebody
\* else, another push would find the sections it reads up to date: for each
\* setting, the fields sent (toAuthConfigBody and the like) are enough for the
\* fields read (fromAuthConfig and the like) to be the local ones, but for those
\* of NeverSettles.
PushSettles ==
  ended = "done" /\ calm =>
    \A n \in 1 .. Len(Sections) :
      Sections[n] # "webhooks" /\ Applies(Sections[n]) =>
        \A k \in DiffWithRemote(Sections[n], config, project) : NeverSettles(k)

\* An update has been made, or has been given up.
Updates == step = "put" /\ step' # "put"

\* An update changes no setting of the project that has not been shown before
\* the confirmation, or that somebody else changed after it was read: what is
\* sent and what is compared are lists kept apart, field by field.  A fraction
\* of an hour in the sessions of the project is lost unseen, and so is the row
\* limit and search path of a project whose API is enabled again.
OnlyShownChanges ==
  [][Updates =>
       \A k \in Settings \ (shown \cup others) :
         \/ project'[k] = project[k]
         \/ k = "sessions" /\ project[k].val # Whole(project[k].val)
         \/ k \in {"max_rows", "search_path"} /\ "schemas" \in shown]_configVars

\* A setting that neither config.toml nor the defaults under it declare keeps the
\* value it has on the project, whatever else its section sends ("When local
\* config is not set, we assume platform defaults should not change").
UndeclaredKept ==
  [][Updates =>
       \A k \in Pointers : ~config[k].decl => project'[k] = project[k]]_configVars

\* The add-on of the second factor, which costs money, is enabled on the project
\* only by a push whose user has agreed to its price, or has seen it enabled
\* there already.
CostConfirmed ==
  [][Updates /\ ~project.mfa.on /\ project'.mfa.on =>
       agreed \/ "mfa" \in others]_configVars

=============================================================================
