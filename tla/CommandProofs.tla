---------------------------- MODULE CommandProofs ----------------------------
(***************************************************************************)
(* Theorems about two of the commands that MCCommands puts side by side:   *)
(* config push, for any settings, secrets and answers, and storage rm and  *)
(* mv, for any objects, paths, page size and uploads.                      *)
(*                                                                         *)
(* For config push, the argument has two lemmas about the lists of fields, *)
(* and an invariant that carries them through a push.  PutThenGet: what    *)
(* has been sent is read back as it is declared.  GetThenPut: what is read *)
(* back as it is declared would not be changed by sending it.  SyncInv     *)
(* says that the copy is config.toml but for an add-on that was declined,  *)
(* that the settings read are those of the project but for what somebody   *)
(* else has changed since, that what is shown is where the two differ, and *)
(* that the sections a calm push has left behind are as declared.          *)
(*                                                                         *)
(* For storage, StorageInv says that the walk through the directories      *)
(* still comes to everything that is left to do (Pending), and never comes *)
(* to what a move has put away (Unreached).  It rests on what a page of a  *)
(* listing has: an entry is on the page its rank says, and an upload only  *)
(* pushes it further back.                                                 *)
(***************************************************************************)
EXTENDS ConfigSync, StorageObjects, FiniteSetTheorems, SequenceTheorems, TLAPS

-----------------------------------------------------------------------------
(***************************************************************************)
(* The lists of fields.                                                    *)
(***************************************************************************)

\* The seven sections, by number.
LEMMA SectionOf ==
  /\ Len(Sections) = 7
  /\ Sections[1] = "api" /\ Sections[2] = "settings" /\ Sections[3] = "network"
  /\ Sections[4] = "ssl" /\ Sections[5] = "auth" /\ Sections[6] = "storage"
  /\ Sections[7] = "webhooks"
  BY DEF Sections

\* The settings of every section are settings.
LEMMA InSettings ==
  ASSUME NEW n \in 1 .. 7
  PROVE  SettingsOf(Sections[n]) \subseteq Settings
  BY SectionOf DEF Settings

\* A setting with a switch and a secret is read back as it was sent.
LEMMA SwitchedSettles ==
  ASSUME NEW l \in Setting, NEW r \in Setting
  PROVE  FromDeclared(l, FromSwitched(l, Merge(r, ToDeclared(l, ToSwitched(l)), l))) = l
  BY DEF FromDeclared, FromSwitched, Merge, ToDeclared, ToSwitched, Secret, Setting

\* So are the others, each by its own pair of functions.
LEMMA OneSettles ==
  ASSUME NEW l \in Setting, NEW r \in Setting
  PROVE  /\ FromPasskey(l, Merge(r, ToPasskey(l), l)) = l
         /\ FromWebauthn(l, Merge(r, ToWebauthn(l), l)) = l
         /\ FromTemplate(l, Merge(r, ToTemplate(l), l)) = l
         /\ FromNotification(l, Merge(r, ToNotification(l), l)) = l
         /\ FromMFA(l, Merge(r, ToMFA, l)) = l
         /\ FromNetwork(l, Merge(r, ToNetwork(l), l)) = l
         /\ FromSsl(l, Merge(r, ToSsl(l), l)) = l
         /\ l.decl => FromSettings(l, Merge(r, ToSettings(l), l)) = l
         /\ FromStorage("s3", l, Merge(r, ToStorage("s3", l), l)) = l
         /\ FromStorage("transformation", l, Merge(r, ToStorage("transformation", l), l)) = l
         /\ FromStorage("file_size", l, Merge(r, ToStorage("file_size", l), l)) = l
         /\ FromStorage("buckets", l, Merge(r, ToStorage("buckets", l), l)) = l
         /\ l \in LocalSettings("sms") => FromSms(l, Merge(r, ToSms(l), l)) = l
  <1>1. FromPasskey(l, Merge(r, ToPasskey(l), l)) = l
    BY DEF FromPasskey, ToPasskey, FromDeclared, ToDeclared, Merge, Setting
  <1>2. FromWebauthn(l, Merge(r, ToWebauthn(l), l)) = l
    BY DEF FromWebauthn, ToWebauthn, FromDeclared, ToDeclared, Merge, Setting
  <1>3. FromTemplate(l, Merge(r, ToTemplate(l), l)) = l
    BY DEF FromTemplate, ToTemplate, FromDeclared, ToDeclared, Merge, Setting
  <1>4. FromNotification(l, Merge(r, ToNotification(l), l)) = l
    BY DEF FromNotification, ToNotification, FromDeclared, ToDeclared, Merge, Setting
  <1>5. FromMFA(l, Merge(r, ToMFA, l)) = l
    BY DEF FromMFA, ToMFA, Merge, Setting
  <1>6. FromNetwork(l, Merge(r, ToNetwork(l), l)) = l
    BY DEF FromNetwork, ToNetwork, Merge, Setting
  <1>7. FromSsl(l, Merge(r, ToSsl(l), l)) = l
    BY DEF FromSsl, ToSsl, FromDeclared, ToDeclared, Merge, Setting
  <1>8. l.decl => FromSettings(l, Merge(r, ToSettings(l), l)) = l
    BY DEF FromSettings, ToSettings, ToDeclared, Merge, Setting
  <1>9. FromStorage("s3", l, Merge(r, ToStorage("s3", l), l)) = l
    BY DEF FromStorage, ToStorage, FromDeclared, ToDeclared, Merge, Setting
  <1>10. FromStorage("transformation", l, Merge(r, ToStorage("transformation", l), l)) = l
    BY DEF FromStorage, ToStorage, FromDeclared, ToDeclared, Merge, Setting
  <1>11. FromStorage("file_size", l, Merge(r, ToStorage("file_size", l), l)) = l
    BY DEF FromStorage, ToStorage, Merge, Setting
  <1>12. FromStorage("buckets", l, Merge(r, ToStorage("buckets", l), l)) = l
    BY DEF FromStorage, ToStorage, Merge, Setting
  <1>13. l \in LocalSettings("sms") => FromSms(l, Merge(r, ToSms(l), l)) = l
    BY DEF FromSms, ToSms, Secret, Merge, Setting, LocalSettings
  <1> QED BY <1>1, <1>2, <1>3, <1>4, <1>5, <1>6, <1>7, <1>8, <1>9, <1>10, <1>11, <1>12, <1>13

\* What is sent and what is read of each setting: the sections taken apart.
LEMMA Fields ==
  ASSUME NEW c, NEW r
  PROVE  /\ To("schemas", c) = ToSchemas(c.schemas)
         /\ From("schemas", c, r) = FromApi("schemas", c, r)
         /\ To("max_rows", c) = ToMaxRows(c.schemas, c.max_rows)
         /\ From("max_rows", c, r) = FromApi("max_rows", c, r)
         /\ To("search_path", c) = ToSearchPath(c.schemas)
         /\ From("search_path", c, r) = FromApi("search_path", c, r)
         /\ To("settings", c) = ToSettings(c.settings)
         /\ From("settings", c, r) = FromSettings(c.settings, r.settings)
         /\ To("network", c) = ToNetwork(c.network)
         /\ From("network", c, r) = FromNetwork(c.network, r.network)
         /\ To("ssl", c) = ToSsl(c.ssl)
         /\ From("ssl", c, r) = FromSsl(c.ssl, r.ssl)
         /\ To("plain", c) = {"val"}
         /\ From("plain", c, r) = [c.plain EXCEPT !.val = r.plain.val]
         /\ To("rate_limit", c) = {"val"}
         /\ From("rate_limit", c, r) = [c.rate_limit EXCEPT !.val = r.rate_limit.val]
         /\ To("email_rate", c) = (IF c.smtp.decl /\ c.smtp.on THEN {"val"} ELSE {})
         /\ From("email_rate", c, r) = (IF c.smtp.decl /\ c.smtp.on
                                   THEN [c.email_rate EXCEPT !.val = r.email_rate.val]
                                   ELSE c.email_rate)
         /\ To("captcha", c) = ToCaptcha(c.captcha)
         /\ From("captcha", c, r) = FromCaptcha(c.captcha, r.captcha)
         /\ To("passkey", c) = ToPasskey(c.passkey)
         /\ From("passkey", c, r) = FromPasskey(c.passkey, r.passkey)
         /\ To("webauthn", c) = ToWebauthn(c.webauthn)
         /\ From("webauthn", c, r) = FromWebauthn(c.webauthn, r.webauthn)
         /\ To("hook", c) = ToHook(c.hook)
         /\ From("hook", c, r) = FromHook(c.hook, r.hook)
         /\ To("mfa", c) = ToMFA
         /\ From("mfa", c, r) = FromMFA(c.mfa, r.mfa)
         /\ To("sessions", c) = {"val"}
         /\ From("sessions", c, r) = FromSessions(c.sessions, r.sessions)
         /\ To("email", c) = {"val"}
         /\ From("email", c, r) = [c.email EXCEPT !.val = r.email.val]
         /\ To("smtp", c) = ToSmtp(c.smtp)
         /\ From("smtp", c, r) = FromSmtp(c.smtp, r.smtp)
         /\ To("template", c) = ToTemplate(c.template)
         /\ From("template", c, r) = FromTemplate(c.template, r.template)
         /\ To("notification", c) = ToNotification(c.notification)
         /\ From("notification", c, r) = FromNotification(c.notification, r.notification)
         /\ To("sms", c) = ToSms(c.sms)
         /\ From("sms", c, r) = FromSms(c.sms, r.sms)
         /\ To("test_otp", c) = ToTestOtp(c.test_otp)
         /\ From("test_otp", c, r) = [c.test_otp EXCEPT !.val = r.test_otp.val]
         /\ To("apple", c) = ToExternal(c.apple)
         /\ From("apple", c, r) = FromExternal(c.apple, r.apple)
         /\ To("external", c) = ToExternal(c.external)
         /\ From("external", c, r) = FromExternal(c.external, r.external)
         /\ To("web3", c) = {"on"}
         /\ From("web3", c, r) = [c.web3 EXCEPT !.on = r.web3.on]
         /\ To("oauth_server", c) = {}
         /\ From("oauth_server", c, r) = c.oauth_server
         /\ To("file_size", c) = ToStorage("file_size", c.file_size)
         /\ From("file_size", c, r) = FromStorage("file_size", c.file_size, r.file_size)
         /\ To("transformation", c) = ToStorage("transformation", c.transformation)
         /\ From("transformation", c, r) = FromStorage("transformation", c.transformation, r.transformation)
         /\ To("s3", c) = ToStorage("s3", c.s3)
         /\ From("s3", c, r) = FromStorage("s3", c.s3, r.s3)
         /\ To("buckets", c) = ToStorage("buckets", c.buckets)
         /\ From("buckets", c, r) = FromStorage("buckets", c.buckets, r.buckets)
         /\ To("webhooks", c) = {"on"}
         /\ From("webhooks", c, r) = c.webhooks
  <1>1. /\ To("schemas", c) = ToSchemas(c.schemas)
        /\ From("schemas", c, r) = FromApi("schemas", c, r)
    BY DEF To, From, SettingsOf
  <1>2. /\ To("max_rows", c) = ToMaxRows(c.schemas, c.max_rows)
        /\ From("max_rows", c, r) = FromApi("max_rows", c, r)
    BY DEF To, From, SettingsOf
  <1>3. /\ To("search_path", c) = ToSearchPath(c.schemas)
        /\ From("search_path", c, r) = FromApi("search_path", c, r)
    BY DEF To, From, SettingsOf
  <1>4. /\ To("settings", c) = ToSettings(c.settings)
        /\ From("settings", c, r) = FromSettings(c.settings, r.settings)
    BY DEF To, From, SettingsOf
  <1>5. /\ To("network", c) = ToNetwork(c.network)
        /\ From("network", c, r) = FromNetwork(c.network, r.network)
    BY DEF To, From, SettingsOf
  <1>6. /\ To("ssl", c) = ToSsl(c.ssl)
        /\ From("ssl", c, r) = FromSsl(c.ssl, r.ssl)
    BY DEF To, From, SettingsOf
  <1>7. /\ To("plain", c) = {"val"}
        /\ From("plain", c, r) = [c.plain EXCEPT !.val = r.plain.val]
    BY DEF To, From, SettingsOf, ToAuth, FromAuth
  <1>8. /\ To("rate_limit", c) = {"val"}
        /\ From("rate_limit", c, r) = [c.rate_limit EXCEPT !.val = r.rate_limit.val]
    BY DEF To, From, SettingsOf, ToAuth, FromAuth
  <1>9. /\ To("email_rate", c) = (IF c.smtp.decl /\ c.smtp.on THEN {"val"} ELSE {})
        /\ From("email_rate", c, r) = (IF c.smtp.decl /\ c.smtp.on
                                   THEN [c.email_rate EXCEPT !.val = r.email_rate.val]
                                   ELSE c.email_rate)
    BY DEF To, From, SettingsOf, ToAuth, FromAuth
  <1>10. /\ To("captcha", c) = ToCaptcha(c.captcha)
         /\ From("captcha", c, r) = FromCaptcha(c.captcha, r.captcha)
    BY DEF To, From, SettingsOf, ToAuth, FromAuth
  <1>11. /\ To("passkey", c) = ToPasskey(c.passkey)
         /\ From("passkey", c, r) = FromPasskey(c.passkey, r.passkey)
    BY DEF To, From, SettingsOf, ToAuth, FromAuth
  <1>12. /\ To("webauthn", c) = ToWebauthn(c.webauthn)
         /\ From("webauthn", c, r) = FromWebauthn(c.webauthn, r.webauthn)
    BY DEF To, From, SettingsOf, ToAuth, FromAuth
  <1>13. /\ To("hook", c) = ToHook(c.hook)
         /\ From("hook", c, r) = FromHook(c.hook, r.hook)
    BY DEF To, From, SettingsOf, ToAuth, FromAuth
  <1>14. /\ To("mfa", c) = ToMFA
         /\ From("mfa", c, r) = FromMFA(c.mfa, r.mfa)
    BY DEF To, From, SettingsOf, ToAuth, FromAuth
  <1>15. /\ To("sessions", c) = {"val"}
         /\ From("sessions", c, r) = FromSessions(c.sessions, r.sessions)
    BY DEF To, From, SettingsOf, ToAuth, FromAuth
  <1>16. /\ To("email", c) = {"val"}
         /\ From("email", c, r) = [c.email EXCEPT !.val = r.email.val]
    BY DEF To, From, SettingsOf, ToAuth, FromAuth
  <1>17. /\ To("smtp", c) = ToSmtp(c.smtp)
         /\ From("smtp", c, r) = FromSmtp(c.smtp, r.smtp)
    BY DEF To, From, SettingsOf, ToAuth, FromAuth
  <1>18. /\ To("template", c) = ToTemplate(c.template)
         /\ From("template", c, r) = FromTemplate(c.template, r.template)
    BY DEF To, From, SettingsOf, ToAuth, FromAuth
  <1>19. /\ To("notification", c) = ToNotification(c.notification)
         /\ From("notification", c, r) = FromNotification(c.notification, r.notification)
    BY DEF To, From, SettingsOf, ToAuth, FromAuth
  <1>20. /\ To("sms", c) = ToSms(c.sms)
         /\ From("sms", c, r) = FromSms(c.sms, r.sms)
    BY DEF To, From, SettingsOf, ToAuth, FromAuth
  <1>21. /\ To("test_otp", c) = ToTestOtp(c.test_otp)
         /\ From("test_otp", c, r) = [c.test_otp EXCEPT !.val = r.test_otp.val]
    BY DEF To, From, SettingsOf, ToAuth, FromAuth
  <1>22. /\ To("apple", c) = ToExternal(c.apple)
         /\ From("apple", c, r) = FromExternal(c.apple, r.apple)
         /\ To("external", c) = ToExternal(c.external)
         /\ From("external", c, r) = FromExternal(c.external, r.external)
    BY DEF To, From, SettingsOf, ToAuth, FromAuth
  <1>23. /\ To("web3", c) = {"on"}
         /\ From("web3", c, r) = [c.web3 EXCEPT !.on = r.web3.on]
    BY DEF To, From, SettingsOf, ToAuth, FromAuth
  <1>24. /\ To("oauth_server", c) = {}
         /\ From("oauth_server", c, r) = c.oauth_server
    BY DEF To, From, SettingsOf, ToAuth, FromAuth, ToOAuthServer, FromOAuthServer
  <1>25. /\ To("file_size", c) = ToStorage("file_size", c.file_size)
         /\ From("file_size", c, r) = FromStorage("file_size", c.file_size, r.file_size)
    BY DEF To, From, SettingsOf
  <1>26. /\ To("transformation", c) = ToStorage("transformation", c.transformation)
         /\ From("transformation", c, r) = FromStorage("transformation", c.transformation, r.transformation)
    BY DEF To, From, SettingsOf
  <1>27. /\ To("s3", c) = ToStorage("s3", c.s3)
         /\ From("s3", c, r) = FromStorage("s3", c.s3, r.s3)
    BY DEF To, From, SettingsOf
  <1>28. /\ To("buckets", c) = ToStorage("buckets", c.buckets)
         /\ From("buckets", c, r) = FromStorage("buckets", c.buckets, r.buckets)
    BY DEF To, From, SettingsOf
  <1>29. /\ To("webhooks", c) = {"on"}
         /\ From("webhooks", c, r) = c.webhooks
    BY DEF To, From, SettingsOf
  <1> QED BY <1>1, <1>2, <1>3, <1>4, <1>5, <1>6, <1>7, <1>8, <1>9, <1>10, <1>11, <1>12, <1>13, <1>14, <1>15, <1>16, <1>17, <1>18, <1>19, <1>20, <1>21, <1>22, <1>23, <1>24, <1>25, <1>26, <1>27, <1>28, <1>29

\* What has been sent is read back as it is declared.
LEMMA PutThenGet ==
  ASSUME config \in [Settings -> Setting],
         \A j \in Settings : config[j] \in LocalSettings(j),
         NEW r \in [Settings -> Setting], NEW u,
         NEW s \in {"api", "settings", "network", "ssl", "auth", "storage"},
         \A j \in SettingsOf(s) : u[j] = Updated(j, config, r[j]),
         NEW k \in SettingsOf(s),
         SettingsOf(s) \subseteq Settings
  PROVE  From(k, config, u) = config[k] \/ NeverSettles(k)
  <1>1. /\ config[k] \in Setting /\ r[k] \in Setting /\ config[k] \in LocalSettings(k)
        /\ u[k] = Merge(r[k], To(k, config), Sent(k, config[k]))
    BY DEF Updated
  <1>2. CASE k \in {"captcha", "hook", "apple", "external"}
    <2>1. Sent(k, config[k]) = config[k]
      BY <1>2 DEF Sent
    <2> QED
      BY <1>1, <1>2, <2>1, Fields, SwitchedSettles
      DEF ToCaptcha, FromCaptcha, ToHook, FromHook, ToExternal, FromExternal
  <1>9. CASE k = "smtp"
    <2>1. CASE ~config[k].decl
      BY <1>9, <2>1, Fields DEF FromSmtp, FromDeclared
    <2>2. CASE config[k].decl /\ ~config[k].on
      BY <1>9, <2>2 DEF NeverSettles
    <2>3. CASE config[k].decl /\ config[k].on
      <3>1. Sent(k, config[k]) = config[k]
        BY <1>9, <2>3 DEF Sent
      <3>2. u[k] = Merge(r[k], ToSwitched(config[k]), config[k])
        BY <1>1, <1>9, <2>3, <3>1, Fields DEF ToSmtp, ToDeclared
      <3>3. /\ u[k].val = config[k].val
            /\ config[k].sec # NoSecret => u[k].sec = config[k].sec
        BY <2>3, <3>2 DEF ToSwitched, Secret, Merge
      <3>4. FromSwitched(config[k], u[k]) = [config[k] EXCEPT !.on = u[k].on]
        BY <1>1, <2>3, <3>3 DEF FromSwitched, Setting
      <3>5. [[config[k] EXCEPT !.on = u[k].on] EXCEPT !.on = TRUE] = config[k]
        BY <1>1, <2>3 DEF Setting
      <3>6. From(k, config, u) = FromSmtp(config[k], u[k])
        BY <1>9, Fields
      <3> QED
        BY <2>3, <3>4, <3>5, <3>6 DEF FromSmtp, FromDeclared
    <2> QED BY <1>1, <2>1, <2>2, <2>3 DEF Setting
  <1>3. CASE k \in {"passkey", "webauthn", "template", "notification", "mfa", "sms",
                    "settings", "network", "ssl", "file_size", "transformation", "s3",
                    "buckets"}
    <2>1. Sent(k, config[k]) = config[k]
      BY <1>3 DEF Sent
    <2> QED
      BY <1>1, <1>3, <2>1, Fields, OneSettles DEF NeverSettles
  <1>4. CASE k \in {"plain", "rate_limit", "web3", "oauth_server"}
    BY <1>1, <1>4, Fields DEF Sent, Merge, Setting
  <1>5. CASE k = "email_rate"
    BY <1>1, <1>5, Fields DEF Sent, Merge, Setting
  <1>6. CASE k \in {"sessions", "email"}
    BY <1>1, <1>6, Fields DEF Sent, FromSessions, Merge, Setting, NeverSettles
  <1>7. CASE k = "test_otp"
    BY <1>1, <1>7, Fields DEF Sent, ToTestOtp, Merge, Setting, NeverSettles
  <1>8. CASE s = "api"
    <2>1. /\ "schemas" \in SettingsOf("api") /\ "schemas" \in Settings
          /\ k \in {"schemas", "max_rows", "search_path"}
          /\ config.schemas \in Setting /\ r.schemas \in Setting
          /\ u.schemas = Updated("schemas", config, r.schemas)
      BY <1>8 DEF SettingsOf
    <2>2. u.schemas = Merge(r.schemas, ToSchemas(config.schemas), Sent("schemas", config.schemas))
      BY <2>1, Fields DEF Updated
    <2>6. u.schemas.val = IF ~config.schemas.on THEN 0
                          ELSE IF config.schemas.val # 0 THEN config.schemas.val
                          ELSE r.schemas.val
      BY <2>1, <2>2 DEF Sent, ToSchemas, Merge, Setting
    <2>3. CASE k = "schemas"
      <3>1. From("schemas", config, u) = FromApi("schemas", config, u)
        BY Fields
      <3>2. FromApi("schemas", config, u) =
              IF u.schemas.val = 0 THEN [config.schemas EXCEPT !.on = FALSE]
              ELSE [config.schemas EXCEPT !.on = TRUE, !.val = u.schemas.val]
        BY DEF FromApi
      <3>3. CASE ~config.schemas.on
        BY <2>1, <2>3, <2>6, <3>1, <3>2, <3>3 DEF Setting
      <3>4. CASE config.schemas.on /\ config.schemas.val # 0
        <4>1. config.schemas.on = TRUE /\ u.schemas.val = config.schemas.val
          BY <2>1, <2>6, <3>4 DEF Setting
        <4>2. From(k, config, u) =
                [config.schemas EXCEPT !.on = config.schemas.on, !.val = config.schemas.val]
          BY <2>3, <3>1, <3>2, <3>4, <4>1
        <4> QED BY <2>1, <2>3, <4>2 DEF Setting
      <3>5. CASE config.schemas.on /\ config.schemas.val = 0
        BY <2>3, <3>5 DEF NeverSettles
      <3> QED BY <3>3, <3>4, <3>5
    <2>4. CASE k = "max_rows"
      <3>1. From("max_rows", config, u) = FromApi("max_rows", config, u)
        BY Fields
      <3>2. FromApi("max_rows", config, u) =
              IF u.schemas.val = 0 THEN config.max_rows
              ELSE [config.max_rows EXCEPT !.val = u.max_rows.val]
        BY DEF FromApi
      <3>3. To("max_rows", config) = ToMaxRows(config.schemas, config.max_rows)
        BY Fields
      <3>4. Sent("max_rows", config.max_rows) = config.max_rows
        BY DEF Sent
      <3>5. config.schemas.on /\ config.max_rows.val # 0 => u.max_rows.val = config.max_rows.val
        BY <1>1, <2>4, <3>3, <3>4 DEF ToMaxRows, Merge
      <3> QED BY <1>1, <2>1, <2>4, <2>6, <3>1, <3>2, <3>5 DEF Setting, NeverSettles
    <2>5. CASE k = "search_path"
      <3>1. From("search_path", config, u) = FromApi("search_path", config, u)
        BY Fields
      <3>2. FromApi("search_path", config, u) =
              IF u.schemas.val = 0 THEN config.search_path
              ELSE [config.search_path EXCEPT !.val = u.search_path.val]
        BY DEF FromApi
      <3>3. To("search_path", config) = ToSearchPath(config.schemas)
        BY Fields
      <3>4. Sent("search_path", config.search_path) = config.search_path
        BY DEF Sent
      <3>5. config.schemas.on => u.search_path.val = config.search_path.val
        BY <1>1, <2>5, <3>3, <3>4 DEF ToSearchPath, Merge
      <3> QED BY <1>1, <2>1, <2>5, <2>6, <3>1, <3>2, <3>5 DEF Setting, NeverSettles
    <2> QED BY <2>1, <2>3, <2>4, <2>5
  <1> QED BY <1>2, <1>3, <1>4, <1>5, <1>6, <1>7, <1>8, <1>9 DEF SettingsOf


\* What is read back as it is declared would not be changed by sending it, but
\* for the settings OnlyShownChanges leaves out.
LEMMA OneKept ==
  ASSUME NEW l \in Setting, NEW r \in Setting
  PROVE  /\ FromDeclared(l, FromSwitched(l, r)) = l =>
              Merge(r, ToDeclared(l, ToSwitched(l)), l) = r
         /\ FromPasskey(l, r) = l => Merge(r, ToPasskey(l), l) = r
         /\ FromWebauthn(l, r) = l => Merge(r, ToWebauthn(l), l) = r
         /\ FromTemplate(l, r) = l => Merge(r, ToTemplate(l), l) = r
         /\ FromNotification(l, r) = l => Merge(r, ToNotification(l), l) = r
         /\ FromMFA(l, r) = l => Merge(r, ToMFA, l) = r
         /\ FromNetwork(l, r) = l => Merge(r, ToNetwork(l), l) = r
         /\ FromSsl(l, r) = l => Merge(r, ToSsl(l), l) = r
         /\ FromSettings(l, r) = l => Merge(r, ToSettings(l), l) = r
         /\ \A k \in SettingsOf("storage") :
              FromStorage(k, l, r) = l => Merge(r, ToStorage(k, l), l) = r
         /\ /\ l \in LocalSettings("sms") /\ r \in ProjectSettings("sms")
            /\ FromSms(l, r) = l
            => Merge(r, ToSms(l), l) = r
  <1>1. FromDeclared(l, FromSwitched(l, r)) = l =>
              Merge(r, ToDeclared(l, ToSwitched(l)), l) = r
    BY DEF FromDeclared, FromSwitched, Merge, ToDeclared, ToSwitched, Secret, Setting
  <1>2. FromPasskey(l, r) = l => Merge(r, ToPasskey(l), l) = r
    BY DEF FromPasskey, ToPasskey, FromDeclared, ToDeclared, Merge, Setting
  <1>3. FromWebauthn(l, r) = l => Merge(r, ToWebauthn(l), l) = r
    BY DEF FromWebauthn, ToWebauthn, FromDeclared, ToDeclared, Merge, Setting
  <1>4. FromTemplate(l, r) = l => Merge(r, ToTemplate(l), l) = r
    BY DEF FromTemplate, ToTemplate, FromDeclared, ToDeclared, Merge, Setting
  <1>5. FromNotification(l, r) = l => Merge(r, ToNotification(l), l) = r
    BY DEF FromNotification, ToNotification, FromDeclared, ToDeclared, Merge, Setting
  <1>6. FromMFA(l, r) = l => Merge(r, ToMFA, l) = r
    BY DEF FromMFA, ToMFA, Merge, Setting
  <1>7. FromNetwork(l, r) = l => Merge(r, ToNetwork(l), l) = r
    BY DEF FromNetwork, ToNetwork, Merge, Setting
  <1>8. FromSsl(l, r) = l => Merge(r, ToSsl(l), l) = r
    BY DEF FromSsl, ToSsl, FromDeclared, ToDeclared, Merge, Setting
  <1>9. FromSettings(l, r) = l => Merge(r, ToSettings(l), l) = r
    BY DEF FromSettings, ToSettings, ToDeclared, Merge, Setting
  <1>10. ASSUME NEW k \in SettingsOf("storage"), FromStorage(k, l, r) = l
         PROVE  Merge(r, ToStorage(k, l), l) = r
    <2>1. CASE k \in {"s3", "transformation"}
      BY <1>10, <2>1 DEF FromStorage, ToStorage, FromDeclared, ToDeclared, Merge, Setting
    <2>2. CASE k = "file_size"
      BY <1>10, <2>2 DEF FromStorage, ToStorage, Merge, Setting
    <2>3. CASE k = "buckets"
      BY <1>10, <2>3 DEF FromStorage, ToStorage, Merge, Setting
    <2> QED BY <2>1, <2>2, <2>3 DEF SettingsOf
  <1>11. /\ l \in LocalSettings("sms") /\ r \in ProjectSettings("sms")
         /\ FromSms(l, r) = l
         => Merge(r, ToSms(l), l) = r
    BY DEF FromSms, ToSms, Secret, Merge, Setting, LocalSettings, ProjectSettings
  <1> QED BY <1>1, <1>2, <1>3, <1>4, <1>5, <1>6, <1>7, <1>8, <1>9, <1>10, <1>11

\* What is read back as it is declared would not be changed by sending it.
LEMMA GetThenPut ==
  ASSUME NEW c \in [Settings -> Setting], \A j \in Settings : c[j] \in LocalSettings(j),
         NEW r \in [Settings -> Setting],
         NEW s \in {"api", "settings", "network", "ssl", "auth", "storage"},
         SettingsOf(s) \subseteq Settings,
         NEW k \in SettingsOf(s), r[k] \in ProjectSettings(k),
         From(k, c, r) = c[k]
  PROVE  \/ Updated(k, c, r[k]) = r[k]
         \/ k = "sessions" /\ r[k].val # Whole(r[k].val)
         \/ k \in {"max_rows", "search_path"} /\ From("schemas", c, r) # c["schemas"]
  <1>1. /\ c[k] \in Setting /\ r[k] \in Setting
        /\ c[k] \in LocalSettings(k) /\ r[k] \in ProjectSettings(k)
        /\ Updated(k, c, r[k]) = Merge(r[k], To(k, c), Sent(k, c[k]))
    BY DEF Updated
  <1>2. CASE k \in {"captcha", "hook", "apple", "external"}
    <2>1. Sent(k, c[k]) = c[k]
      BY <1>2 DEF Sent
    <2> QED
      BY <1>1, <1>2, <2>1, Fields, OneKept
      DEF ToCaptcha, FromCaptcha, ToHook, FromHook, ToExternal, FromExternal
  <1>11. CASE k = "smtp"
    <2>1. CASE ~c[k].decl
      BY <1>1, <1>11, <2>1, Fields DEF ToSmtp, ToDeclared, Merge, Setting
    <2>2. CASE c[k].decl
      <3>1. c[k] = [FromSwitched(c[k], r[k]) EXCEPT !.on = TRUE]
        BY <1>11, <2>2, Fields DEF FromSmtp, FromDeclared
      <3>2. /\ c[k].on /\ c[k].val # 0 /\ c[k].sec # NoSecret
            /\ r[k].val = c[k].val /\ r[k].sec = c[k].sec
        BY <1>1, <1>11, <3>1 DEF FromSwitched, Setting, LocalSettings
      <3>3. r[k].on
        BY <1>1, <1>11, <3>2 DEF ProjectSettings
      <3>4. Sent(k, c[k]) = c[k]
        BY <3>2, <1>11 DEF Sent
      <3>5. Updated(k, c, r[k]) = Merge(r[k], To(k, c), c[k])
        BY <1>1, <3>4
      <3>6. "decl" \notin To(k, c)
        BY <1>11, <2>2, <3>2, Fields DEF ToSmtp, ToDeclared, ToSwitched, Secret
      <3>7. c[k].on = r[k].on
        BY <1>1, <3>2, <3>3 DEF Setting
      <3>8. Merge(r[k], To(k, c), c[k]) =
              [decl |-> r[k].decl, on |-> r[k].on, val |-> r[k].val, sec |-> r[k].sec]
        BY <3>2, <3>6, <3>7 DEF Merge
      <3> QED
        BY <1>1, <3>5, <3>8 DEF Setting
    <2> QED BY <2>1, <2>2
  <1>3. CASE k \in {"passkey", "webauthn", "template", "notification", "mfa", "sms",
                    "settings", "network", "ssl"}
    <2>1. Sent(k, c[k]) = c[k]
      BY <1>3 DEF Sent
    <2> QED
      BY <1>1, <1>3, <2>1, Fields, OneKept
  <1>4. CASE k \in {"file_size", "transformation", "s3", "buckets"}
    <2>1. Sent(k, c[k]) = c[k] /\ k \in SettingsOf("storage")
      BY <1>4 DEF Sent, SettingsOf
    <2> QED
      BY <1>1, <1>4, <2>1, Fields, OneKept
  <1>5. CASE k \in {"plain", "rate_limit", "web3", "oauth_server"}
    BY <1>1, <1>5, Fields DEF Sent, Merge, Setting
  <1>6. CASE k = "email_rate"
    BY <1>1, <1>6, Fields DEF Sent, Merge, Setting
  <1>7. CASE k = "sessions"
    BY <1>1, <1>7, Fields DEF Sent, FromSessions, Merge, Setting
  <1>8. CASE k = "email"
    <2>1. c.email = [c.email EXCEPT !.val = r.email.val] /\ To(k, c) = {"val"}
      BY <1>8, Fields
    <2>2. c.email \in Setting /\ r.email \in Setting /\ r.email.val % 2 = 0
      BY <1>1, <1>8 DEF ProjectSettings
    <2>3. c.email.val = r.email.val /\ r.email.val \in Nat
      BY <2>1, <2>2, ConfigAssumption DEF Setting
    <2>4. Whole(c.email.val) = r.email.val
      BY <2>2, <2>3 DEF Whole
    <2>5. Sent(k, c[k]) = [c.email EXCEPT !.val = r.email.val]
      BY <1>8, <2>4 DEF Sent
    <2> QED BY <1>1, <1>8, <2>1, <2>2, <2>5 DEF Merge, Setting
  <1>9. CASE k = "test_otp"
    BY <1>1, <1>9, Fields DEF Sent, ToTestOtp, Merge, Setting
  <1>10. CASE s = "api"
    <2>1. /\ "schemas" \in SettingsOf("api") /\ "schemas" \in Settings
          /\ k \in {"schemas", "max_rows", "search_path"}
          /\ c.schemas \in Setting /\ r.schemas \in Setting
      BY <1>10 DEF SettingsOf
    <2>2. From(k, c, r) = FromApi(k, c, r) /\ From("schemas", c, r) = FromApi("schemas", c, r)
      BY <2>1, Fields
    <2>3. FromApi("schemas", c, r) =
            IF r.schemas.val = 0 THEN [c.schemas EXCEPT !.on = FALSE]
            ELSE [c.schemas EXCEPT !.on = TRUE, !.val = r.schemas.val]
      BY DEF FromApi
    <2>4. From("schemas", c, r) = c.schemas =>
            /\ r.schemas.val = 0 => ~c.schemas.on
            /\ r.schemas.val # 0 => c.schemas.on /\ c.schemas.val = r.schemas.val
      BY <2>1, <2>2, <2>3 DEF Setting
    <2>5. CASE k = "schemas"
      <3>1. Merge(r.schemas, ToSchemas(c.schemas), Sent("schemas", c.schemas)) = r.schemas
        BY <2>1, <2>4, <2>5 DEF Sent, ToSchemas, Merge, Setting
      <3> QED BY <1>1, <2>5, <3>1, Fields
    <2>6. CASE k = "max_rows" /\ From("schemas", c, r) = c.schemas
      <3>1. r.schemas.val # 0 => c[k].val = r[k].val
        BY <1>1, <2>2, <2>6 DEF FromApi, Setting
      <3>2. To(k, c) = ToMaxRows(c.schemas, c.max_rows) /\ Sent(k, c[k]) = c[k]
        BY <2>6, Fields DEF Sent
      <3> QED BY <1>1, <2>4, <2>6, <3>1, <3>2 DEF ToMaxRows, Merge, Setting
    <2>7. CASE k = "search_path" /\ From("schemas", c, r) = c.schemas
      <3>1. r.schemas.val # 0 => c[k].val = r[k].val
        BY <1>1, <2>2, <2>7 DEF FromApi, Setting
      <3>2. To(k, c) = ToSearchPath(c.schemas) /\ Sent(k, c[k]) = c[k]
        BY <2>7, Fields DEF Sent
      <3> QED BY <1>1, <2>4, <2>7, <3>1, <3>2 DEF ToSearchPath, Merge, Setting
    <2> QED BY <2>1, <2>5, <2>6, <2>7
  <1> QED BY <1>2, <1>3, <1>4, <1>5, <1>6, <1>7, <1>8, <1>9, <1>10, <1>11 DEF SettingsOf

\* Sections are read apart from each other.
LEMMA ReadApart ==
  ASSUME NEW c, NEW r, NEW u,
         NEW s \in {"api", "settings", "network", "ssl", "auth", "storage"},
         \A j \in SettingsOf(s) : u[j] = r[j],
         NEW k \in SettingsOf(s)
  PROVE  From(k, c, u) = From(k, c, r)
  <1>1. CASE s = "api"
    <2>1. u.schemas = r.schemas /\ u[k] = r[k] /\ k \in SettingsOf("api")
      BY <1>1 DEF SettingsOf
    <2>2. FromApi(k, c, u) = FromApi(k, c, r)
      BY <2>1 DEF FromApi
    <2> QED BY <2>1, <2>2 DEF From
  <1>2. CASE s = "auth"
    <2>1. u[k] = r[k]
      OBVIOUS
    <2>2. From(k, c, u) = FromAuth(k, c, u) /\ From(k, c, r) = FromAuth(k, c, r)
      BY <1>2 DEF From, SettingsOf
    <2>3. FromAuth(k, c, u) = FromAuth(k, c, r)
      BY <2>1 DEF FromAuth
    <2> QED BY <2>2, <2>3
  <1>3. CASE s \in {"settings", "network", "ssl"}
    BY <1>3, Fields DEF SettingsOf
  <1>4. CASE s = "storage"
    BY <1>4, Fields DEF SettingsOf
  <1> QED BY <1>1, <1>2, <1>3, <1>4

\* No setting belongs to two sections.
LEMMA Apart ==
  ASSUME NEW m \in 1 .. 7, NEW n \in 1 .. 7, m # n,
         NEW k \in SettingsOf(Sections[m])
  PROVE  k \notin SettingsOf(Sections[n])
  BY SectionOf DEF SettingsOf

\* A project stays one that can be: the update of a setting is one of its settings.
LEMMA UpdatedAllowed ==
  ASSUME NEW k \in Settings, NEW c, NEW r \in ProjectSettings(k),
         c[k] \in LocalSettings(k)
  PROVE  Updated(k, c, r) \in ProjectSettings(k)
  <1> DEFINE l == c[k]
             u == Updated(k, c, r)
  <1>1. l \in Setting /\ r \in Setting /\ HasItsParts(k, l) /\ HasItsParts(k, r)
    BY DEF LocalSettings, ProjectSettings
  <1>2. u = Merge(r, To(k, c), Sent(k, l))
    BY DEF Updated
  <1>3. Sent(k, l) \in Setting /\ HasItsParts(k, Sent(k, l)) /\ Sent(k, l).decl = l.decl
    <2>1. CASE k = "email"
      <3>1. Whole(l.val) \in Values
        BY <1>1, ConfigAssumption DEF Whole, Setting
      <3> QED BY <1>1, <2>1, <3>1 DEF Sent, Setting, HasItsParts, OnlySwitch, WithSecret, NoSwitch
    <2>2. CASE k = "schemas"
      BY <1>1, <2>2, ConfigAssumption DEF Sent, Setting, HasItsParts, OnlySwitch, WithSecret, NoSwitch
    <2>3. CASE k = "smtp" /\ ~l.on
      BY <1>1, <2>3, ConfigAssumption DEF Sent, Setting, HasItsParts, OnlySwitch, WithSecret, NoSwitch
    <2> QED BY <1>1, <2>1, <2>2, <2>3 DEF Sent
  <1>4. u \in Setting /\ HasItsParts(k, u)
    <2>1. CASE k = "mfa"
      BY <1>1, <1>2, <1>3, <2>1, Fields DEF Merge, Setting, HasItsParts, ToMFA
    <2> QED BY <1>1, <1>2, <1>3, <2>1 DEF Merge, Setting, HasItsParts
  <1>5. IF k = "settings" THEN u.decl \/ u = Off ELSE ~u.decl
    <2>1. CASE k = "settings"
      <3>1. To(k, c) = ToSettings(l) /\ Sent(k, l) = l
        BY <2>1, Fields DEF Sent
      <3>2. CASE l.decl
        BY <1>1, <1>2, <2>1, <3>1, <3>2 DEF ToSettings, ToDeclared, Merge, Setting
      <3>3. CASE ~l.decl
        <4>1. u = r
          BY <1>1, <1>2, <3>1, <3>3 DEF ToSettings, ToDeclared, Merge, Setting
        <4> QED BY <2>1, <4>1 DEF ProjectSettings
      <3> QED BY <3>2, <3>3
    <2>2. CASE k # "settings"
      <3>1. "decl" \notin To(k, c)
        <4>1. \E n \in 1 .. 7 : k \in SettingsOf(Sections[n])
          BY SectionOf DEF Settings
        <4>2. CASE k \in {"schemas", "max_rows", "search_path", "network", "ssl", "webhooks"}
          <5>1. /\ "decl" \notin ToSchemas(c.schemas)
                /\ "decl" \notin ToMaxRows(c.schemas, c.max_rows)
                /\ "decl" \notin ToSearchPath(c.schemas)
                /\ "decl" \notin ToNetwork(c.network)
                /\ "decl" \notin ToSsl(c.ssl)
                /\ "decl" \notin {"on"}
            BY DEF ToSchemas, ToMaxRows, ToSearchPath, ToNetwork, ToSsl, ToDeclared
          <5> QED BY <4>2, <5>1, Fields
        <4>3. CASE k \in {"captcha", "hook", "smtp", "apple", "external"}
          BY <4>3, Fields
          DEF ToDeclared, ToCaptcha, ToHook, ToExternal, ToSmtp, ToSwitched, Secret, Parts
        <4>4. CASE k \in {"passkey", "webauthn", "template", "notification", "mfa", "sms"}
          BY <4>4, Fields
          DEF ToDeclared, ToPasskey, ToWebauthn, ToTemplate, ToNotification, ToMFA, ToSms, Secret
        <4>5. CASE k \in {"plain", "rate_limit", "email_rate", "sessions", "email",
                          "test_otp", "web3", "oauth_server"}
          BY <4>5, Fields DEF ToTestOtp
        <4>6. CASE k \in SettingsOf("storage")
          BY <4>6, Fields DEF SettingsOf, ToStorage, ToDeclared
        <4> QED BY <2>2, <4>1, <4>2, <4>3, <4>4, <4>5, <4>6, SectionOf DEF SettingsOf
      <3>2. ~r.decl
        BY <2>2 DEF ProjectSettings
      <3> QED BY <1>2, <2>2, <3>1, <3>2 DEF Merge
    <2> QED BY <2>1, <2>2
  <1>6. k \in {"schemas", "network"} => ~u.on
    <2>1. k \in {"schemas", "network"} => "on" \notin To(k, c) /\ ~r.on
      BY Fields DEF ToSchemas, ToNetwork, ProjectSettings
    <2> QED BY <1>2, <2>1 DEF Merge
  <1>7. k = "email" => u.val % 2 = 0
    <2>1. SUFFICES ASSUME k = "email" PROVE u.val % 2 = 0
      OBVIOUS
    <2>2. u = Merge(r, {"val"}, [l EXCEPT !.val = Whole(@)])
      BY <1>2, <2>1, Fields DEF Sent
    <2>3. u.val = Whole(l.val) /\ l.val \in Nat
      BY <1>1, <2>2, ConfigAssumption DEF Merge, Setting
    <2> QED BY <2>3 DEF Whole
  <1>8. k = "sms" => (u.val = 0 => u.sec = NoSecret)
    <2>1. SUFFICES ASSUME k = "sms" PROVE u.val = 0 => u.sec = NoSecret
      OBVIOUS
    <2>2. u = Merge(r, ToSms(l), l)
      BY <1>2, <2>1, Fields DEF Sent
    <2>3. r.val = 0 => r.sec = NoSecret
      BY <2>1 DEF ProjectSettings
    <2> QED BY <2>2, <2>3 DEF ToSms, Secret, Merge
  <1>10. k = "smtp" /\ ~u.on => u.val = 0 /\ u.sec = NoSecret
    <2>1. SUFFICES ASSUME k = "smtp", ~u.on PROVE u.val = 0 /\ u.sec = NoSecret
      OBVIOUS
    <2>4. To(k, c) = ToSmtp(l)
      BY <2>1, Fields
    <2>2. CASE ~l.decl
      <3>1. To(k, c) = {}
        BY <2>2, <2>4 DEF ToSmtp, ToDeclared
      <3>2. u = r
        BY <1>1, <1>2, <3>1 DEF Merge, Setting
      <3> QED
        BY <2>1, <3>2 DEF ProjectSettings
    <2>3. CASE l.decl
      <3>1. "on" \in To(k, c)
        BY <2>3, <2>4 DEF ToSmtp, ToDeclared, ToSwitched, Parts
      <3>2. u.on = Sent(k, l).on /\ Sent(k, l).on = l.on
        BY <1>1, <1>2, <2>1, <3>1 DEF Merge, Sent, Setting
      <3>3. To(k, c) = Parts
        BY <2>1, <2>3, <2>4, <3>2 DEF ToSmtp, ToDeclared
      <3>4. Sent(k, l).val = 0 /\ Sent(k, l).sec = NoSecret
        BY <1>1, <2>1, <3>2 DEF Sent, Setting
      <3> QED
        BY <1>2, <3>3, <3>4 DEF Merge, Parts
    <2> QED BY <2>2, <2>3
  <1>9. k = "mfa" /\ u.val = 1 => u.on
    <2>1. SUFFICES ASSUME k = "mfa" PROVE u.val = 1 => u.on
      OBVIOUS
    <2>2. u = Merge(r, ToMFA, l)
      BY <1>2, <2>1, Fields DEF Sent
    <2>3. l.val = 1 => l.on
      BY <2>1 DEF LocalSettings
    <2> QED BY <2>2, <2>3 DEF ToMFA, Merge
  <1> QED BY <1>4, <1>5, <1>6, <1>7, <1>8, <1>9, <1>10 DEF ProjectSettings

-----------------------------------------------------------------------------
(***************************************************************************)
(* The invariant.                                                          *)
(***************************************************************************)

Busy == {"cost", "diff", "ask", "put"}

SyncTypes ==
  /\ config \in [Settings -> Setting] /\ project \in [Settings -> Setting]
  /\ mine \in [Settings -> Setting] /\ got \in [Settings -> Setting]
  /\ at \in 1 .. 7
  /\ step \in {"idle", "get"} \cup Busy
  /\ agreed \in BOOLEAN /\ calm \in BOOLEAN
  /\ ended \in {"none", "done", "failed"}
  /\ \A k \in Settings : config[k] \in LocalSettings(k)
  /\ \A k \in Settings : project[k] \in ProjectSettings(k)

\* The copy: config.toml, but for an add-on that has been declined.
Copied ==
  step # "idle" =>
    /\ \A k \in Settings : mine[k] \in LocalSettings(k) /\ mine[k].decl = config[k].decl
    /\ calm => mine = config

\* What has been read and shown of the section.
ReadAndShown ==
  step \in Busy =>
    /\ Applies(Section)
    /\ \A k \in SettingsOf(Section) \ others : project[k] = got[k]
    /\ calm => project = got
    /\ step \in {"ask", "put"} =>
         shown = IF Section = "webhooks" THEN {"webhooks"}
                 ELSE DiffWithRemote(Section, mine, got)
    /\ step # "cost" /\ at = 5 /\ mine.mfa.on => agreed \/ got.mfa.on
    /\ step = "cost" => at = 5

\* The n-th section of the project is as declared, as far as it can be.
InLine(n) ==
  Sections[n] # "webhooks" /\ Applies(Sections[n]) =>
    \A k \in DiffWithRemote(Sections[n], config, project) : NeverSettles(k)

\* The sections that a calm push has left behind.
Behind ==
  /\ IF step = "idle" THEN at = 1 ELSE ended = "none"
  /\ calm /\ (ended = "done" \/ step # "idle") =>
       \A n \in 1 .. 7 : ended = "done" \/ n < at => InLine(n)

SyncInv == SyncTypes /\ Copied /\ ReadAndShown /\ Behind

\* A setting that is off can be declared, and a project can have it.
LEMMA OffAllowed ==
  ASSUME NEW k \in Settings
  PROVE  /\ Off \in Setting /\ Off \in ProjectSettings(k)
         /\ OffHere(k) \in LocalSettings(k)
  <1>1. Off \in Setting /\ HasItsParts(k, Off)
    BY ConfigAssumption DEF Off, Setting, HasItsParts
  <1>2. ~Off.decl /\ ~Off.on /\ Off.val = 0 /\ Off.sec = NoSecret /\ Off.on = Off.decl
    BY DEF Off
  <1>3. 0 % 2 = 0
    OBVIOUS
  <1>4. CASE k \in Defaults
    <2>1. DeclaredOff \in Setting /\ HasItsParts(k, DeclaredOff)
      BY ConfigAssumption DEF DeclaredOff, Setting, HasItsParts
    <2>2. /\ DeclaredOff.decl = TRUE /\ ~DeclaredOff.on /\ DeclaredOff.val = 0
          /\ DeclaredOff.sec = NoSecret
      BY DEF DeclaredOff
    <2>3. k \notin Pointers /\ k \notin {"sms", "webhooks"}
      BY <1>4 DEF Defaults, Pointers
    <2>4. DeclaredOff \in LocalSettings(k)
      BY <1>4, <2>1, <2>2, <2>3 DEF LocalSettings
    <2> QED
      BY <1>1, <1>2, <1>3, <1>4, <2>4 DEF OffHere, ProjectSettings
  <1>5. CASE k \notin Defaults
    <2>2. Off \in LocalSettings(k)
      BY <1>1, <1>2, <1>5 DEF LocalSettings
    <2> QED
      BY <1>1, <1>2, <1>3, <1>5, <2>2 DEF OffHere, ProjectSettings
  <1> QED BY <1>4, <1>5

\* What can be declared, and what a project can have, are settings.
LEMMA AllowedSettings ==
  ASSUME NEW k
  PROVE  LocalSettings(k) \subseteq Setting /\ ProjectSettings(k) \subseteq Setting
  BY Zenon DEF LocalSettings, ProjectSettings

\* The invariant holds initially.
LEMMA SyncInit == ConfigInit => SyncInv
  <1> SUFFICES ASSUME ConfigInit PROVE SyncInv
    OBVIOUS
  <1>1. \A k \in Settings : /\ Off \in Setting /\ Off \in ProjectSettings(k)
                            /\ OffHere(k) \in LocalSettings(k)
    BY OffAllowed
  <1>2. config \in [Settings -> Setting] /\ \A k \in Settings : config[k] \in LocalSettings(k)
    <2>1. PICK c \in [varied -> UNION {LocalSettings(k) : k \in varied}] :
            Allowed(c, LocalSettings) /\ config = WithOffHere(c)
      BY DEF ConfigInit
    <2>2. \A k \in Settings : config[k] \in LocalSettings(k)
      BY <1>1, <2>1 DEF Allowed, WithOffHere
    <2> QED BY <2>1, <2>2 DEF WithOffHere, LocalSettings
  <1>3. project \in [Settings -> Setting] /\ \A k \in Settings : project[k] \in ProjectSettings(k)
    <2>1. PICK p \in [varied -> UNION {ProjectSettings(k) : k \in varied}] :
            Allowed(p, ProjectSettings) /\ project = WithOff(p)
      BY DEF ConfigInit
    <2>2. \A k \in Settings : project[k] \in ProjectSettings(k)
      BY <1>1, <2>1 DEF Allowed, WithOff
    <2>3. \A k \in Settings : project[k] \in Setting
      BY <2>2, AllowedSettings
    <2> QED BY <2>1, <2>2, <2>3 DEF WithOff
  <1>4. Unread \in [Settings -> Setting]
    BY <1>1 DEF Unread
  <1>5. /\ at = 1 /\ step = "idle" /\ ended = "none"
        /\ mine = Unread /\ got = Unread
        /\ agreed = FALSE /\ calm = TRUE
    BY Zenon DEF ConfigInit
  <1>6. SyncTypes
    <2>1. mine \in [Settings -> Setting] /\ got \in [Settings -> Setting]
      BY <1>4, <1>5
    <2>2. /\ at \in 1 .. 7
          /\ step \in {"idle", "get"} \cup Busy
          /\ ended \in {"none", "done", "failed"}
      BY <1>5
    <2>3. agreed \in BOOLEAN /\ calm \in BOOLEAN
      BY <1>5
    <2> QED BY <1>2, <1>3, <2>1, <2>2, <2>3 DEF SyncTypes
  <1>7. Copied
    BY <1>5 DEF Copied
  <1>8. ReadAndShown
    BY <1>5 DEF ReadAndShown, Busy
  <1>9. Behind
    BY <1>5 DEF Behind
  <1> QED BY <1>6, <1>7, <1>8, <1>9 DEF SyncInv

\* The section that the updater is at.
LEMMA AtSection ==
  ASSUME SyncTypes
  PROVE  /\ SettingsOf(Section) \subseteq Settings
         /\ Section \in {"api", "settings", "network", "ssl", "auth", "storage", "webhooks"}
         /\ at = 5 <=> Section = "auth"
         /\ at = 7 <=> Section = "webhooks"
         /\ MoreSections <=> at < 7
  BY SectionOf, InSettings DEF SyncTypes, Section, MoreSections

\* Leaving a section that is as declared, or a push that is not calm any more.
LEMMA Leaving ==
  ASSUME SyncInv, step # "idle", files' = files, NextSection,
         project' \in [Settings -> Setting],
         \A k \in Settings : project'[k] \in ProjectSettings(k),
         calm' \in BOOLEAN, calm' => calm,
         calm' => \A n \in 1 .. 7 : n <= at => InLine(n)'
  PROVE  SyncInv'
  <1>1. /\ config' = config /\ enabled' = enabled
        /\ SyncTypes /\ Copied /\ Behind
    BY DEF files, SyncInv
  <1>2. Unread \in [Settings -> Setting]
    BY OffAllowed DEF Unread
  <1>3. CASE MoreSections
    <2>1. /\ at' = at + 1 /\ at < 7 /\ step' = "get" /\ got' = Unread
          /\ mine' = mine /\ agreed' = agreed /\ ended' = ended
      BY <1>1, <1>3, AtSection DEF NextSection, LeaveSection
    <2>2. SyncTypes'
      <3>1. at' \in 1 .. 7
        BY <1>1, <2>1 DEF SyncTypes
      <3> QED BY <1>1, <1>2, <2>1, <3>1 DEF SyncTypes
    <2>3. Copied'
      BY <1>1, <2>1 DEF Copied
    <2>4. ReadAndShown'
      BY <2>1 DEF ReadAndShown, Busy
    <2>5. Behind'
      <3>1. at \in Nat
        BY <1>1 DEF SyncTypes
      <3>2. ended' = "none"
        BY <1>1, <2>1 DEF Behind
      <3>3. \A n \in 1 .. 7 : n < at' => n <= at
        BY <2>1, <3>1
      <3>4. step' # "idle" /\ ended' # "done"
        BY <2>1, <3>2
      <3> QED BY <3>2, <3>3, <3>4 DEF Behind
    <2> QED BY <2>2, <2>3, <2>4, <2>5 DEF SyncInv
  <1>4. CASE ~MoreSections
    <2>1. /\ at = 7 /\ at' = 1 /\ step' = "idle" /\ got' = Unread
          /\ mine' = Unread /\ agreed' = FALSE /\ ended' = "done"
      <3>1. at = 7
        BY <1>1, <1>4, AtSection DEF SyncTypes
      <3> QED BY <1>4, <3>1 DEF NextSection, Ends, LeaveSection
    <2>2. SyncTypes'
      <3>1. at' \in 1 .. 7
        BY <2>1
      <3> QED BY <1>1, <1>2, <2>1, <3>1 DEF SyncTypes
    <2>3. Copied'
      BY <2>1 DEF Copied
    <2>4. ReadAndShown'
      BY <2>1 DEF ReadAndShown, Busy
    <2>5. Behind'
      BY <2>1 DEF Behind
    <2> QED BY <2>2, <2>3, <2>4, <2>5 DEF SyncInv
  <1> QED BY <1>3, <1>4

\* An update leaves the project with settings that it can have.
LEMMA TakeAllowed ==
  ASSUME SyncInv, step # "idle", Take
  PROVE  /\ project' \in [Settings -> Setting]
         /\ \A k \in Settings : project'[k] \in ProjectSettings(k)
  <1>1. SyncTypes /\ Copied
    BY DEF SyncInv
  <1>2. ASSUME NEW k \in Settings
        PROVE  project'[k] \in ProjectSettings(k)
    <2>1. project[k] \in ProjectSettings(k) /\ mine[k] \in LocalSettings(k)
      BY <1>1 DEF SyncTypes, Copied
    <2>2. Updated(k, mine, project[k]) \in ProjectSettings(k)
      BY <2>1, UpdatedAllowed
    <2> QED BY <2>1, <2>2 DEF Take
  <1>3. \A k \in Settings : project'[k] \in Setting
    BY <1>2, AllowedSettings
  <1> QED BY <1>2, <1>3 DEF Take

\* The section that is sent is then as declared, and those before stay so.
LEMMA TakeInLine ==
  ASSUME SyncInv, step # "idle", Take, calm, files' = files
  PROVE  \A n \in 1 .. 7 : n <= at => InLine(n)'
  <1>1. /\ config' = config /\ enabled' = enabled /\ mine = config
        /\ SyncTypes /\ Behind /\ ended = "none"
    BY DEF files, SyncInv, Copied, Behind
  <1> SUFFICES ASSUME NEW n \in 1 .. 7, n <= at,
                      Sections[n] # "webhooks", Applies(Sections[n]),
                      NEW k \in SettingsOf(Sections[n]),
                      From(k, config, project') # config[k]
               PROVE  NeverSettles(k)
    <2>1. \A s : Applies(s)' = Applies(s)
      BY <1>1 DEF Applies
    <2>2. \A k \in Settings : NeverSettles(k)' = NeverSettles(k)
      BY <1>1 DEF NeverSettles
    <2>3. \A m \in 1 .. 7 : SettingsOf(Sections[m]) \subseteq Settings
      BY InSettings
    <2> QED BY <1>1, <2>1, <2>2, <2>3 DEF InLine, DiffWithRemote
  <1>2. /\ Sections[n] \in {"api", "settings", "network", "ssl", "auth", "storage"}
        /\ SettingsOf(Sections[n]) \subseteq Settings
        /\ at \in 1 .. 7
    BY <1>1, SectionOf, InSettings DEF SyncTypes
  <1>3. CASE n = at
    <2>1. \A j \in SettingsOf(Sections[n]) : project'[j] = Updated(j, config, project[j])
      BY <1>1, <1>2, <1>3 DEF Take, Section
    <2> HIDE DEF Section
    <2> QED BY <1>1, <1>2, <2>1, PutThenGet DEF SyncTypes
  <1>4. CASE n # at
    <2>1. \A j \in SettingsOf(Sections[n]) : project'[j] = project[j]
      BY <1>2, <1>4, Apart DEF Take, Section
    <2>2. From(k, config, project') = From(k, config, project)
      BY <1>2, <2>1, ReadApart
    <2>3. InLine(n)
      BY <1>1, <1>2, <1>4 DEF Behind
    <2> QED BY <2>2, <2>3 DEF InLine, DiffWithRemote
  <1> QED BY <1>3, <1>4

\* Starting a push: the copy is config.toml.
LEMMA SyncPush == ASSUME SyncInv, Push PROVE SyncInv'
  <1>1. /\ step = "idle" /\ step' = "get" /\ mine' = config /\ at' = at /\ ended = "none"
        /\ config' = config /\ enabled' = enabled /\ project' = project /\ got' = got
        /\ agreed' = agreed /\ calm' = calm /\ ended' = ended
    BY DEF Push, files
  <1>2. SyncTypes'
    BY <1>1 DEF SyncInv, SyncTypes
  <1>3. Copied'
    BY <1>1 DEF SyncInv, SyncTypes, Copied
  <1>4. ReadAndShown'
    BY <1>1 DEF ReadAndShown, Busy
  <1>5. Behind'
    <2>1. at' = 1
      BY <1>1 DEF SyncInv, Behind
    <2>2. \A n \in 1 .. 7 : ~(n < 1)
      OBVIOUS
    <2> QED BY <1>1, <2>1, <2>2 DEF Behind
  <1> QED BY <1>2, <1>3, <1>4, <1>5 DEF SyncInv

\* Passing over a section that does not apply.
LEMMA SyncSkip == ASSUME SyncInv, Skip PROVE SyncInv'
  <1>1. /\ step = "get" /\ files' = files /\ project' = project /\ calm' = calm
        /\ config' = config /\ enabled' = enabled
        /\ ~Applies(Section) /\ NextSection
    BY DEF Skip, files
  <1>2. SyncTypes /\ Behind
    BY DEF SyncInv
  <1>3. calm => \A n \in 1 .. 7 : n <= at => InLine(n)
    <2>1. \A n \in 1 .. 7 : n <= at => n < at \/ n = at
      BY <1>2 DEF SyncTypes
    <2>2. InLine(at)
      BY <1>1 DEF InLine, Section
    <2> QED BY <1>1, <1>2, <2>1, <2>2 DEF Behind
  <1>4. \A n \in 1 .. 7 : InLine(n)' = InLine(n)
    BY <1>1 DEF InLine, Applies, NeverSettles
  <1> QED BY <1>1, <1>2, <1>3, <1>4, Leaving DEF SyncTypes

\* Reading a section: what has been read is the project.
LEMMA SyncGet == ASSUME SyncInv, Get PROVE SyncInv'
  <1>1. /\ step = "get" /\ Applies(Section) /\ got' = project /\ others' = {}
        /\ config' = config /\ enabled' = enabled /\ project' = project /\ at' = at
        /\ mine' = mine /\ agreed' = agreed /\ calm' = calm /\ ended' = ended
    BY DEF Get, files
  <1>2. /\ shown' = IF Section = "webhooks" THEN {"webhooks"} ELSE {}
        /\ step' = CASE Section = "auth" -> "cost" [] Section = "webhooks" -> "ask"
                     [] OTHER -> "diff"
    BY DEF Get
  <1>3. SyncTypes /\ Copied /\ Behind
    BY DEF SyncInv
  <1>4. /\ Section' = Section /\ Applies(Section)'
        /\ step' \in {"cost", "diff", "ask"}
        /\ step' = "cost" <=> at = 5
        /\ step' = "ask" <=> Section = "webhooks"
    BY <1>1, <1>2, <1>3, AtSection DEF Section, Applies
  <1>5. SyncTypes'
    BY <1>1, <1>3, <1>4 DEF SyncTypes, Busy
  <1>6. Copied'
    BY <1>1, <1>3 DEF Copied
  <1>7. ReadAndShown'
    BY <1>1, <1>2, <1>3, <1>4, AtSection DEF ReadAndShown, Busy
  <1>8. \A n \in 1 .. 7 : InLine(n)' = InLine(n)
    BY <1>1 DEF InLine, Applies, NeverSettles
  <1>9. Behind'
    BY <1>1, <1>3, <1>4, <1>8 DEF Behind
  <1> QED BY <1>5, <1>6, <1>7, <1>9 DEF SyncInv

\* An add-on that is declined stays out of the copy.
LEMMA Declined ==
  ASSUME SyncTypes, mine \in [Settings -> Setting],
         \A k \in Settings : mine[k] \in LocalSettings(k) /\ mine[k].decl = config[k].decl
  PROVE  /\ Decline(mine) \in [Settings -> Setting] /\ ~Decline(mine).mfa.on
         /\ \A k \in Settings : /\ Decline(mine)[k] \in LocalSettings(k)
                                /\ Decline(mine)[k].decl = config[k].decl
  <1>1. "mfa" \in Settings
    BY SectionOf DEF Settings, SettingsOf
  <1> DEFINE m == [mine.mfa EXCEPT !.on = FALSE, !.val = 0]
  <1>2. m \in Setting /\ ~m.on /\ m.decl = mine.mfa.decl
    BY <1>1, ConfigAssumption DEF Setting
  <1>3. m \in LocalSettings("mfa")
    <2>1. ~mine.mfa.decl /\ mine.mfa.sec = NoSecret /\ mine.mfa \in Setting
      BY <1>1 DEF LocalSettings, HasItsParts, Pointers, Defaults, WithSecret
    <2>2. m.val = 0 /\ m.sec = NoSecret /\ ~m.decl
      BY <2>1 DEF Setting
    <2>3. HasItsParts("mfa", m)
      BY <1>2, <2>2 DEF HasItsParts
    <2>4. "mfa" \notin Pointers /\ m.val # 1 /\ "mfa" \notin Defaults
      BY <2>2 DEF Pointers, Defaults
    <2> QED BY <1>2, <2>2, <2>3, <2>4 DEF LocalSettings
  <1>4. Decline(mine) = [k \in Settings |-> IF k = "mfa" THEN m ELSE mine[k]]
    BY <1>1 DEF Decline
  <1> QED BY <1>1, <1>2, <1>3, <1>4

\* The price of the add-on: agreed to, or the add-on is taken out of the copy.
LEMMA SyncConfirmCost == ASSUME SyncInv, ConfirmCost PROVE SyncInv'
  <1>1. /\ step = "cost" /\ step' = "diff"
        /\ config' = config /\ enabled' = enabled /\ project' = project /\ at' = at
        /\ got' = got /\ shown' = shown /\ others' = others /\ ended' = ended
    BY DEF ConfirmCost, files
  <1>2. SyncTypes /\ Copied /\ Behind /\ ReadAndShown
    BY DEF SyncInv
  <1>3. From("mfa", mine, got).on = got.mfa.on
    <2>1. "mfa" \in Settings
      BY SectionOf DEF Settings, SettingsOf
    <2>2. mine.mfa \in Setting /\ From("mfa", mine, got) = FromMFA(mine.mfa, got.mfa)
      BY <1>2, <2>1, Fields DEF SyncTypes
    <2> QED BY <2>2 DEF FromMFA, Setting
  <1>4. \/ /\ agreed' = TRUE /\ mine' = mine /\ calm' = calm
        \/ /\ mine' = Decline(mine) /\ calm' = FALSE /\ agreed' = agreed
        \/ /\ ~(mine.mfa.on /\ ~got.mfa.on)
           /\ mine' = mine /\ calm' = calm /\ agreed' = agreed
    BY <1>3 DEF ConfirmCost
  <1>5. /\ mine' \in [Settings -> Setting]
        /\ \A k \in Settings : mine'[k] \in LocalSettings(k) /\ mine'[k].decl = config[k].decl
        /\ agreed' \in BOOLEAN /\ calm' \in BOOLEAN /\ (calm' => calm /\ mine' = mine)
        /\ mine'.mfa.on => agreed' \/ got.mfa.on
    <2>1. /\ mine \in [Settings -> Setting] /\ agreed \in BOOLEAN /\ calm \in BOOLEAN
          /\ \A k \in Settings : mine[k] \in LocalSettings(k) /\ mine[k].decl = config[k].decl
      BY <1>1, <1>2 DEF SyncTypes, Copied
    <2>2. CASE agreed' = TRUE /\ mine' = mine /\ calm' = calm
      BY <2>1, <2>2
    <2>3. CASE mine' = Decline(mine) /\ calm' = FALSE /\ agreed' = agreed
      BY <1>2, <2>1, <2>3, Declined
    <2>4. CASE /\ ~(mine.mfa.on /\ ~got.mfa.on)
               /\ mine' = mine /\ calm' = calm /\ agreed' = agreed
      BY <2>1, <2>4
    <2> QED BY <1>4, <2>2, <2>3, <2>4
  <1>6. Section' = Section /\ Applies(Section)' = Applies(Section)
    BY <1>1 DEF Section, Applies
  <1>7. SyncTypes'
    BY <1>1, <1>2, <1>5 DEF SyncTypes, Busy
  <1>8. Copied'
    BY <1>1, <1>2, <1>5 DEF Copied
  <1>9. ReadAndShown'
    BY <1>1, <1>2, <1>5, <1>6 DEF ReadAndShown, Busy
  <1>10. \A n \in 1 .. 7 : InLine(n)' = InLine(n)
    BY <1>1 DEF InLine, Applies, NeverSettles
  <1>11. Behind'
    BY <1>1, <1>2, <1>5, <1>10 DEF Behind
  <1> QED BY <1>7, <1>8, <1>9, <1>11 DEF SyncInv

\* Showing the difference, or leaving a section that has none.
LEMMA SyncDiff == ASSUME SyncInv, Diff PROVE SyncInv'
  <1> DEFINE differs == DiffWithRemote(Section, mine, got)
  <1>1. /\ step = "diff" /\ files' = files /\ project' = project /\ calm' = calm
        /\ config' = config /\ enabled' = enabled
    BY DEF Diff, files
  <1>2. SyncTypes /\ Copied /\ Behind /\ ReadAndShown
    BY DEF SyncInv
  <1>3. \A n \in 1 .. 7 : InLine(n)' = InLine(n)
    BY <1>1 DEF InLine, Applies, NeverSettles
  <1>4. CASE differs = {}
    <2>1. NextSection
      BY <1>4 DEF Diff
    <2>2. calm => InLine(at)
      <3>1. calm => mine = config /\ got = project
        BY <1>1, <1>2 DEF Copied, ReadAndShown, Busy
      <3> QED BY <1>4, <3>1 DEF InLine, Section
    <2>3. calm => \A n \in 1 .. 7 : n <= at => InLine(n)
      <3>1. \A n \in 1 .. 7 : n <= at => n < at \/ n = at
        BY <1>2 DEF SyncTypes
      <3> QED BY <1>1, <1>2, <2>2, <3>1 DEF Behind
    <2> QED BY <1>1, <1>2, <1>3, <2>1, <2>3, Leaving DEF SyncTypes
  <1>5. CASE differs # {}
    <2>1. /\ shown' = differs /\ step' = "ask" /\ at' = at /\ mine' = mine /\ got' = got
          /\ agreed' = agreed /\ others' = others /\ ended' = ended
      BY <1>5 DEF Diff
    <2>2. Section' = Section /\ Applies(Section)' = Applies(Section)
      BY <1>1, <2>1 DEF Section, Applies
    <2>3. Section # "webhooks"
      <3>1. DiffWithRemote("webhooks", mine, got) = {}
        BY Fields DEF DiffWithRemote, SettingsOf
      <3> QED BY <1>5, <3>1
    <2>4. SyncTypes'
      BY <1>1, <1>2, <2>1 DEF SyncTypes, Busy
    <2>5. Copied'
      BY <1>1, <1>2, <2>1 DEF Copied
    <2>6. ReadAndShown'
      BY <1>1, <1>2, <2>1, <2>2, <2>3 DEF ReadAndShown, Busy
    <2>7. Behind'
      BY <1>1, <1>2, <1>3, <2>1 DEF Behind
    <2> QED BY <2>4, <2>5, <2>6, <2>7 DEF SyncInv
  <1> QED BY <1>4, <1>5

\* The confirmation: a refusal ends the calm.
LEMMA SyncAsk == ASSUME SyncInv, Ask PROVE SyncInv'
  <1>1. /\ step = "ask" /\ files' = files /\ project' = project
        /\ config' = config /\ enabled' = enabled
    BY DEF Ask, files
  <1>2. SyncTypes /\ Copied /\ Behind /\ ReadAndShown
    BY DEF SyncInv
  <1>3. CASE NextSection /\ calm' = FALSE
    BY <1>1, <1>2, <1>3, Leaving DEF SyncTypes
  <1>4. CASE /\ step' = "put"
             /\ UNCHANGED <<at, mine, got, shown, agreed, others, ended, calm>>
    <2>1. Section' = Section /\ Applies(Section)' = Applies(Section)
      BY <1>1, <1>4 DEF Section, Applies
    <2>2. \A n \in 1 .. 7 : InLine(n)' = InLine(n)
      BY <1>1 DEF InLine, Applies, NeverSettles
    <2>3. SyncTypes'
      BY <1>1, <1>2, <1>4 DEF SyncTypes, Busy
    <2>4. Copied'
      BY <1>1, <1>2, <1>4 DEF Copied
    <2>5. ReadAndShown'
      BY <1>1, <1>2, <1>4, <2>1 DEF ReadAndShown, Busy, DiffWithRemote
    <2>6. Behind'
      BY <1>1, <1>2, <1>4, <2>2 DEF Behind
    <2> QED BY <2>3, <2>4, <2>5, <2>6 DEF SyncInv
  <1> QED BY <1>3, <1>4 DEF Ask

\* The update: the section is as declared.
LEMMA SyncPut == ASSUME SyncInv, Put PROVE SyncInv'
  <1>1. step = "put" /\ files' = files /\ calm' = calm /\ Take /\ NextSection
    BY DEF Put
  <1>2. SyncTypes
    BY DEF SyncInv
  <1>3. /\ project' \in [Settings -> Setting]
        /\ \A k \in Settings : project'[k] \in ProjectSettings(k)
    BY <1>1, TakeAllowed
  <1>4. calm' => \A n \in 1 .. 7 : n <= at => InLine(n)'
    BY <1>1, TakeInLine
  <1> QED BY <1>1, <1>2, <1>3, <1>4, Leaving DEF SyncTypes

\* A failed request: nothing is left to hold of this push.
LEMMA SyncFails == ASSUME SyncInv, Fails PROVE SyncInv'
  <1>1. /\ step \in {"get", "put"} /\ config' = config /\ calm' = FALSE
        /\ project' = project \/ Take
        /\ got' = Unread /\ mine' = Unread /\ at' = 1 /\ agreed' = FALSE
        /\ step' = "idle" /\ ended' = "failed"
    BY DEF Fails, files, Ends, LeaveSection
  <1>2. SyncTypes
    BY DEF SyncInv
  <1>3. /\ project' \in [Settings -> Setting]
        /\ \A k \in Settings : project'[k] \in ProjectSettings(k)
    BY <1>1, <1>2, TakeAllowed DEF SyncTypes
  <1>4. Unread \in [Settings -> Setting] /\ at' \in 1 .. 7
    <2>1. Unread \in [Settings -> Setting]
      BY OffAllowed DEF Unread
    <2> QED BY <1>1, <2>1
  <1>5. SyncTypes'
    BY <1>1, <1>2, <1>3, <1>4 DEF SyncTypes, Busy
  <1>6. Copied' /\ ReadAndShown' /\ Behind'
    BY <1>1 DEF Copied, ReadAndShown, Behind, Busy
  <1> QED BY <1>5, <1>6 DEF SyncInv

\* A change by somebody else: its setting is one of the others.
LEMMA SyncWrite == ASSUME SyncInv, Write PROVE SyncInv'
  <1>1. PICK k \in Settings : \E v \in ProjectSettings(k) :
          /\ project' = [project EXCEPT ![k] = v]
          /\ others' = others \cup {k}
    <2>1. SettingsOf(Section) \subseteq Settings
      BY AtSection DEF SyncInv
    <2> QED BY <2>1 DEF Write
  <1>10. PICK v \in ProjectSettings(k) :
           /\ project' = [project EXCEPT ![k] = v]
           /\ others' = others \cup {k}
    BY <1>1
  <1>2. /\ step \notin {"idle", "get"} /\ calm' = FALSE
        /\ config' = config /\ enabled' = enabled /\ at' = at /\ step' = step /\ mine' = mine
        /\ got' = got /\ shown' = shown /\ agreed' = agreed /\ ended' = ended
    BY DEF Write, files
  <1>3. SyncTypes /\ Copied /\ Behind /\ ReadAndShown
    BY DEF SyncInv
  <1>4. /\ project' \in [Settings -> Setting]
        /\ \A j \in Settings : project'[j] \in ProjectSettings(j)
    BY <1>10, <1>3, AllowedSettings DEF SyncTypes
  <1>5. SyncTypes'
    BY <1>2, <1>3, <1>4 DEF SyncTypes, Busy
  <1>6. Copied' /\ Behind'
    BY <1>2, <1>3 DEF Copied, Behind
  <1>7. Section' = Section /\ Applies(Section)' = Applies(Section)
    BY <1>2 DEF Section, Applies
  <1>8. \A j \in SettingsOf(Section) \ others' : project'[j] = got[j]
    <2>1. \A j \in SettingsOf(Section) : j # k => project'[j] = project[j]
      BY <1>10, <1>3, AtSection DEF SyncTypes
    <2> QED BY <1>10, <1>2, <1>3, <2>1 DEF ReadAndShown, SyncTypes
  <1>9. ReadAndShown'
    BY <1>2, <1>3, <1>7, <1>8 DEF ReadAndShown, Busy, DiffWithRemote
  <1> QED BY <1>5, <1>6, <1>9 DEF SyncInv

\* Every step keeps the invariant.
LEMMA SyncStep == SyncInv /\ [ConfigNext]_configVars => SyncInv'
  <1> SUFFICES ASSUME SyncInv, [ConfigNext]_configVars PROVE SyncInv'
    OBVIOUS
  <1>1. CASE ConfigNext
    BY <1>1, SyncPush, SyncSkip, SyncGet, SyncConfirmCost, SyncDiff, SyncAsk, SyncPut,
       SyncFails, SyncWrite
    DEF ConfigNext
  <1>2. CASE UNCHANGED configVars
    BY <1>2
    DEF configVars, SyncInv, SyncTypes, Copied, ReadAndShown, Behind, InLine, Applies,
        Section, NeverSettles, DiffWithRemote
  <1> QED BY <1>1, <1>2

-----------------------------------------------------------------------------
(***************************************************************************)
(* The theorems.                                                           *)
(***************************************************************************)

\* The invariant of a push, whatever the settings, the answers and the failures.
THEOREM SyncInvariant == ConfigSpec => []SyncInv
  BY SyncInit, SyncStep, PTL DEF ConfigSpec

\* When a push has ended, all its sections are behind it.
LEMMA BehindSettles == SyncInv => PushSettles
  <1> SUFFICES ASSUME SyncInv, ended = "done", calm,
                      NEW n \in 1 .. Len(Sections)
               PROVE  InLine(n)
    BY DEF PushSettles, InLine
  <1>1. n \in 1 .. 7
    BY SectionOf
  <1> QED BY <1>1 DEF SyncInv, Behind

\* UpdateRemoteConfig: after a push in which nothing failed, was declined or was
\* changed by somebody else, a second one has nothing to show, but for the
\* settings of NeverSettles.
THEOREM PushIsComplete == ConfigSpec => []PushSettles
  BY SyncInvariant, BehindSettles, PTL

\* The only step that changes the project and ends or leaves an update takes it.
LEMMA UpdateTakes ==
  ASSUME SyncInv, ConfigNext, Updates
  PROVE  step = "put" /\ (project' = project \/ Take)
  BY DEF Updates, ConfigNext, Push, Skip, Get, ConfirmCost, Diff, Ask, Put, Fails, Write

\* A setting that its section does not send stays.
LEMMA NotSent ==
  ASSUME NEW k, NEW c, NEW r \in Setting, To(k, c) = {}
  PROVE  Updated(k, c, r) = r
  BY DEF Updated, Merge, Setting

\* Nothing is sent of a setting that is not declared.
LEMMA UndeclaredNotSent ==
  ASSUME NEW k \in Pointers, k # "webhooks", NEW c, ~c[k].decl
  PROVE  To(k, c) = {}
  BY Fields
  DEF Pointers, ToSettings, ToSsl, ToCaptcha, ToPasskey, ToWebauthn, ToHook, ToSmtp,
      ToTemplate, ToNotification, ToExternal, ToStorage, ToDeclared

\* An update leaves a setting alone that is not declared.
LEMMA UndeclaredStep ==
  ASSUME SyncInv, ConfigNext, Updates, NEW k \in Pointers, ~config[k].decl
  PROVE  project'[k] = project[k]
  <1>1. /\ step = "put" /\ SyncTypes /\ Copied /\ ReadAndShown
        /\ project' = project \/ Take
    BY UpdateTakes DEF SyncInv
  <1>2. k \in Settings
    <2>1. \E n \in 1 .. 7 : k \in SettingsOf(Sections[n])
      BY SectionOf DEF Pointers, SettingsOf
    <2> QED BY <2>1, InSettings
  <1>3. CASE project' = project
    BY <1>3
  <1>4. CASE Take /\ k \notin SettingsOf(Section)
    BY <1>2, <1>4 DEF Take
  <1>5. CASE Take /\ k \in SettingsOf(Section)
    <2>1. project'[k] = Updated(k, mine, project[k]) /\ project[k] \in Setting
      BY <1>1, <1>2, <1>5 DEF Take, SyncTypes
    <2>2. ~mine[k].decl
      BY <1>1, <1>2 DEF Copied
    <2>3. k # "webhooks"
      <3>1. Section = "webhooks" => config.webhooks.decl
        BY <1>1 DEF ReadAndShown, Busy, Applies
      <3>2. "webhooks" \in SettingsOf(Section) => Section = "webhooks"
        BY <1>1, AtSection DEF SettingsOf
      <3> QED BY <1>5, <3>1, <3>2
    <2> QED BY <2>1, <2>2, <2>3, UndeclaredNotSent, NotSent
  <1> QED BY <1>1, <1>3, <1>4, <1>5

\* "When local config is not set, we assume platform defaults should not
\* change": a setting that neither config.toml nor the defaults under it
\* declare keeps its value on the project.
THEOREM UndeclaredStays == ConfigSpec => UndeclaredKept
  <1>1. SyncInv /\ [ConfigNext]_configVars =>
          [Updates => \A k \in Pointers : ~config[k].decl =>
                        project'[k] = project[k]]_configVars
    BY UndeclaredStep
  <1> QED BY <1>1, SyncInvariant, PTL DEF ConfigSpec, UndeclaredKept

\* An update that enables the add-on has been agreed to.
LEMMA CostStep ==
  ASSUME SyncInv, ConfigNext, Updates, ~project.mfa.on, project'.mfa.on
  PROVE  agreed \/ "mfa" \in others
  <1>1. /\ step = "put" /\ SyncTypes /\ ReadAndShown
        /\ project' = project \/ Take
    BY UpdateTakes DEF SyncInv
  <1>2. "mfa" \in SettingsOf("auth") /\ "mfa" \in Settings
    <2>1. "mfa" \in SettingsOf("auth")
      BY DEF SettingsOf
    <2> QED BY <2>1, InSettings, SectionOf
  <1>3. Take /\ "mfa" \in SettingsOf(Section)
    BY <1>1, <1>2 DEF Take
  <1>4. Section = "auth" /\ at = 5
    BY <1>1, <1>3, AtSection DEF SettingsOf
  <1>5. mine.mfa.on
    <2>1. project'.mfa = Updated("mfa", mine, project.mfa)
      BY <1>2, <1>3 DEF Take
    <2>2. Updated("mfa", mine, project.mfa).on = mine.mfa.on
      BY Fields DEF Updated, Merge, Sent, ToMFA
    <2> QED BY <2>1, <2>2
  <1>6. agreed \/ got.mfa.on
    BY <1>1, <1>4, <1>5 DEF ReadAndShown, Busy
  <1>7. "mfa" \in others \/ project.mfa = got.mfa
    BY <1>1, <1>2, <1>4 DEF ReadAndShown, Busy
  <1> QED BY <1>6, <1>7

\* The add-on that costs money is enabled only by a push whose user has agreed
\* to its price, unless the project had it enabled when the push read it.
THEOREM CostIsConfirmed == ConfigSpec => CostConfirmed
  <1>1. SyncInv /\ [ConfigNext]_configVars =>
          [Updates /\ ~project.mfa.on /\ project'.mfa.on =>
             agreed \/ "mfa" \in others]_configVars
    BY CostStep
  <1> QED BY <1>1, SyncInvariant, PTL DEF ConfigSpec, CostConfirmed

\* An update changes what has been shown, with two exceptions.
LEMMA ShownStep ==
  ASSUME SyncInv, ConfigNext, Updates, NEW k \in Settings \ (shown \cup others)
  PROVE  \/ project'[k] = project[k]
         \/ k = "sessions" /\ project[k].val # Whole(project[k].val)
         \/ k \in {"max_rows", "search_path"} /\ "schemas" \in shown
  <1>1. /\ step = "put" /\ SyncTypes /\ Copied /\ ReadAndShown
        /\ project' = project \/ Take
    BY UpdateTakes DEF SyncInv
  <1>2. CASE project' = project
    BY <1>2
  <1>3. CASE Take /\ k \notin SettingsOf(Section)
    BY <1>3 DEF Take
  <1>4. CASE Take /\ k \in SettingsOf(Section)
    <2>1. /\ SettingsOf(Section) \subseteq Settings
          /\ Section \in {"api", "settings", "network", "ssl", "auth", "storage", "webhooks"}
      BY <1>1, AtSection
    <2>2. shown = IF Section = "webhooks" THEN {"webhooks"}
                  ELSE DiffWithRemote(Section, mine, got)
      BY <1>1 DEF ReadAndShown, Busy
    <2>3. Section # "webhooks"
      BY <1>4, <2>2 DEF SettingsOf
    <2>4. project'[k] = Updated(k, mine, project[k]) /\ project[k] = got[k]
      BY <1>1, <1>4 DEF Take, ReadAndShown, Busy
    <2>5. From(k, mine, got) = mine[k]
      BY <1>4, <2>2, <2>3 DEF DiffWithRemote
    <2>6. \/ Updated(k, mine, got[k]) = got[k]
          \/ k = "sessions" /\ got[k].val # Whole(got[k].val)
          \/ k \in {"max_rows", "search_path"} /\ From("schemas", mine, got) # mine["schemas"]
      <3>1. /\ mine \in [Settings -> Setting] /\ got \in [Settings -> Setting]
            /\ \A j \in Settings : mine[j] \in LocalSettings(j)
            /\ got[k] \in ProjectSettings(k)
        BY <1>1, <2>1, <1>4, <2>4 DEF SyncTypes, Copied
      <3> QED BY <3>1, <1>4, <2>1, <2>3, <2>5, GetThenPut
    <2>7. ASSUME k \in {"max_rows", "search_path"}, From("schemas", mine, got) # mine["schemas"]
          PROVE  "schemas" \in shown
      <3>1. Section = "api"
        BY <1>4, <2>1, <2>7 DEF SettingsOf
      <3> QED BY <2>2, <2>7, <3>1 DEF DiffWithRemote, SettingsOf
    <2> QED BY <2>4, <2>6, <2>7
  <1> QED BY <1>1, <1>2, <1>3, <1>4

\* An update changes no setting that has not been shown, or that somebody else
\* changed since it was read; the two exceptions are those of OnlyShownChanges.
THEOREM ShownIsSent == ConfigSpec => OnlyShownChanges
  <1>1. SyncInv /\ [ConfigNext]_configVars =>
          [Updates =>
             \A k \in Settings \ (shown \cup others) :
               \/ project'[k] = project[k]
               \/ k = "sessions" /\ project[k].val # Whole(project[k].val)
               \/ k \in {"max_rows", "search_path"} /\ "schemas" \in shown]_configVars
    BY ShownStep
  <1> QED BY <1>1, SyncInvariant, PTL DEF ConfigSpec, OnlyShownChanges

-----------------------------------------------------------------------------
(***************************************************************************)
(* Storage: a finite set in a strict order.                                *)
(***************************************************************************)

StrictOrder(S, R) ==
  /\ \A x \in S : <<x, x>> \notin R
  /\ \A x, y \in S : x = y \/ <<x, y>> \in R \/ <<y, x>> \in R
  /\ \A x, y, z \in S : <<x, y>> \in R /\ <<y, z>> \in R => <<x, z>> \in R

\* The elements of a finite set in a strict order: each of them stands behind
\* as many as come before it.
LEMMA Ranks ==
  ASSUME NEW S, IsFiniteSet(S), NEW R, StrictOrder(S, R)
  PROVE  /\ Cardinality(S) \in Nat
         /\ \A x \in S : Rank(x, S, R) \in 0 .. Cardinality(S) - 1
         /\ Sorted(S, R) \in [1 .. Cardinality(S) -> S]
         /\ \A x \in S : Sorted(S, R)[Rank(x, S, R) + 1] = x
<1> DEFINE before(x) == {f \in S : <<f, x>> \in R}
           n == Cardinality(S)
           rank(x) == Rank(x, S, R)
<1>1. n \in Nat
  BY FS_CardinalityType
<1>2. /\ \A x \in S : rank(x) = Cardinality(before(x)) /\ before(x) \in SUBSET (S \ {x})
      /\ \A x, y \in S : <<x, y>> \in R =>
            before(x) \in SUBSET (before(y) \ {x}) /\ x \in before(y)
  BY DEF StrictOrder, Rank
<1> HIDE DEF before, rank
<1>3. ASSUME NEW x \in S
      PROVE  IsFiniteSet(before(x)) /\ rank(x) \in 0 .. n - 1
  <2>1. IsFiniteSet(S \ {x}) /\ Cardinality(S \ {x}) = n - 1
    BY FS_RemoveElement
  <2>2. IsFiniteSet(before(x)) /\ Cardinality(before(x)) <= n - 1
    BY <1>2, <2>1, FS_Subset
  <2>3. Cardinality(before(x)) \in Nat
    BY <2>2, FS_CardinalityType
  <2> QED
    BY <1>1, <1>2, <2>2, <2>3
<1> HIDE DEF n
<1>4. ASSUME NEW x \in S, NEW y \in S, <<x, y>> \in R
      PROVE  rank(x) < rank(y)
  <2>1. IsFiniteSet(before(y)) /\ x \in before(y)
    BY <1>2, <1>3, <1>4
  <2>2. /\ IsFiniteSet(before(y) \ {x})
        /\ Cardinality(before(y) \ {x}) = Cardinality(before(y)) - 1
    BY <2>1, FS_RemoveElement
  <2>3. Cardinality(before(x)) <= Cardinality(before(y)) - 1
    BY <1>2, <1>4, <2>2, FS_Subset
  <2>4. rank(x) <= rank(y) - 1
    BY <1>2, <2>3
  <2> QED
    BY <1>1, <1>3, <2>4
<1>5. ASSUME NEW x \in S, NEW y \in S, rank(x) = rank(y)
      PROVE  x = y
  <2>1. /\ rank(x) \in Int /\ rank(y) \in Int
        /\ <<x, y>> \in R => rank(x) < rank(y)
        /\ <<y, x>> \in R => rank(y) < rank(x)
    BY <1>1, <1>3, <1>4
  <2>2. x = y \/ <<x, y>> \in R \/ <<y, x>> \in R
    BY DEF StrictOrder
  <2> QED
    BY <1>5, <2>1, <2>2
<1> DEFINE place == [x \in S |-> rank(x) + 1]
<1>6. place \in Injection(S, 1 .. n)
  <2>1. ASSUME NEW x \in S PROVE rank(x) + 1 \in 1 .. n
    BY <1>1, <1>3
  <2>2. ASSUME NEW x \in S, NEW y \in S, rank(x) + 1 = rank(y) + 1 PROVE x = y
    <3>1. rank(x) \in Int /\ rank(y) \in Int
      BY <1>1, <1>3
    <3> QED
      BY <1>5, <2>2, <3>1
  <2> QED
    BY <2>1, <2>2 DEF Injection, IsInjective
<1>7. place \in Surjection(S, 1 .. n)
  <2>1. IsFiniteSet(1 .. n) /\ Cardinality(1 .. n) = n
    BY <1>1, FS_Interval
  <2> HIDE DEF place
  <2> QED
    BY <1>6, <2>1, FS_Injection DEF n
<1>8. ASSUME NEW k \in 1 .. n PROVE \E x \in S : rank(x) = k - 1
  <2>1. PICK x \in S : place[x] = k
    BY <1>7 DEF Surjection
  <2>2. rank(x) \in Int /\ rank(x) + 1 = k
    BY <1>1, <1>3, <2>1
  <2> QED
    BY <2>2
<1>9. Sorted(S, R) \in [1 .. n -> S]
  BY <1>8 DEF Sorted, rank, n
<1>10. ASSUME NEW x \in S PROVE Sorted(S, R)[rank(x) + 1] = x
  <2>1. PICK k \in 1 .. n : k = rank(x) + 1 /\ k - 1 = rank(x)
    BY <1>1, <1>3
  <2>2. Sorted(S, R)[k] = CHOOSE e \in S : rank(e) = k - 1
    BY DEF Sorted, rank, n
  <2>3. \A e \in S : rank(e) = k - 1 => e = x
    BY <1>5, <2>1
  <2> QED
    BY <2>1, <2>2, <2>3
<1> QED
  BY <1>1, <1>3, <1>9, <1>10 DEF rank, n

-----------------------------------------------------------------------------
(***************************************************************************)
(* Paths, and what is listed in a directory.                               *)
(***************************************************************************)

Names == 1 .. NumNames
AnEntry == [name : Names, isDir : BOOLEAN]

LEMMA PrefixElements ==
  ASSUME NEW s \in Seq(Names), NEW t \in Seq(Names)
  PROVE  /\ Len(s) \in Nat /\ Len(t) \in Nat
         /\ IsPrefix(s, t) <=> Len(s) <= Len(t) /\ \A i \in 1 .. Len(s) : s[i] = t[i]
         /\ IsStrictPrefix(s, t) <=> Len(s) < Len(t) /\ \A i \in 1 .. Len(s) : s[i] = t[i]
<1>1. Len(s) \in Nat /\ Len(t) \in Nat
  BY LenProperties
<1>2. SubSeq(s, 1, Len(s)) = s
  BY SubSeqFull
<1>3. ASSUME Len(s) <= Len(t)
      PROVE  s = SubSeq(t, 1, Len(s)) <=> \A i \in 1 .. Len(s) : s[i] = t[i]
  <2> DEFINE u == SubSeq(t, 1, Len(s))
  <2>1. \A i \in 1 .. Len(s) : t[i] \in Names
    BY <1>1, <1>3, ElementOfSeq
  <2>2. u \in Seq(Names) /\ Len(u) = Len(s) /\ \A i \in 1 .. Len(s) : u[i] = t[i]
    BY <1>1, <2>1, SubSeqProperties
  <2> HIDE DEF u
  <2>3. s = u <=> \A i \in 1 .. Len(s) : s[i] = u[i]
    BY <2>2, SeqEqual
  <2> QED
    BY <2>2, <2>3 DEF u
<1>4. IsPrefix(s, t) <=> Len(s) <= Len(t) /\ \A i \in 1 .. Len(s) : s[i] = t[i]
  BY <1>2, <1>3 DEF IsPrefix
<1>5. s = t <=> Len(s) = Len(t) /\ \A i \in 1 .. Len(s) : s[i] = t[i]
  BY SeqEqual
<1> QED
  BY <1>1, <1>4, <1>5 DEF IsStrictPrefix

LEMMA AppendElements ==
  ASSUME NEW d \in Seq(Names), NEW x \in Names
  PROVE  /\ Append(d, x) \in Seq(Names) /\ Len(Append(d, x)) = Len(d) + 1
         /\ IsStrictPrefix(d, Append(d, x))
         /\ \A q \in Seq(Names) :
              /\ IsPrefix(Append(d, x), q) <=> IsStrictPrefix(d, q) /\ q[Len(d) + 1] = x
              /\ IsStrictPrefix(Append(d, x), q) <=>
                   IsStrictPrefix(d, q) /\ q[Len(d) + 1] = x /\ Len(q) > Len(d) + 1
         /\ \A f \in Seq(Names) : IsPrefix(f, d) => IsStrictPrefix(f, Append(d, x))
<1> DEFINE a == Append(d, x)
<1>1. /\ a \in Seq(Names) /\ Len(a) = Len(d) + 1 /\ a[Len(d) + 1] = x
      /\ \A i \in 1 .. Len(d) : a[i] = d[i]
  BY AppendProperties
<1> HIDE DEF a
<1>2. Len(d) \in Nat
  BY LenProperties
<1>3. IsStrictPrefix(d, a)
  BY <1>1, <1>2, PrefixElements
<1>4. ASSUME NEW q \in Seq(Names)
      PROVE  /\ IsPrefix(a, q) <=> IsStrictPrefix(d, q) /\ q[Len(d) + 1] = x
             /\ IsStrictPrefix(a, q) <=>
                  IsStrictPrefix(d, q) /\ q[Len(d) + 1] = x /\ Len(q) > Len(d) + 1
  <2>1. Len(q) \in Nat
    BY LenProperties
  <2>2. /\ IsPrefix(a, q) <=> Len(a) <= Len(q) /\ \A i \in 1 .. Len(a) : a[i] = q[i]
        /\ IsStrictPrefix(a, q) <=> Len(a) < Len(q) /\ \A i \in 1 .. Len(a) : a[i] = q[i]
        /\ IsStrictPrefix(d, q) <=> Len(d) < Len(q) /\ \A i \in 1 .. Len(d) : d[i] = q[i]
    BY <1>1, PrefixElements
  <2>3. (\A i \in 1 .. Len(a) : a[i] = q[i]) <=>
          (\A i \in 1 .. Len(d) : d[i] = q[i]) /\ q[Len(d) + 1] = x
    BY <1>1, <1>2
  <2> QED
    BY <1>1, <1>2, <2>1, <2>2, <2>3
<1>5. ASSUME NEW f \in Seq(Names), IsPrefix(f, d) PROVE IsStrictPrefix(f, a)
  <2>1. Len(f) \in Nat /\ Len(f) <= Len(d) /\ \A i \in 1 .. Len(f) : f[i] = d[i]
    BY <1>5, PrefixElements
  <2>2. \A i \in 1 .. Len(f) : f[i] = a[i]
    BY <1>1, <1>2, <2>1
  <2> QED
    BY <1>1, <1>2, <2>1, <2>2, PrefixElements
<1> QED
  BY <1>1, <1>3, <1>4, <1>5 DEF a

\* What stands in a sequence that is put together or taken apart.
LEMMA Members ==
  ASSUME NEW T, NEW s \in Seq(T)
  PROVE  /\ ToSet(s) \subseteq T
         /\ \A x : x \in ToSet(s) <=> \E i \in 1 .. Len(s) : x = s[i]
         /\ s = <<>> => ToSet(s) = {}
         /\ \A t \in Seq(T) : s \o t \in Seq(T) /\ ToSet(s \o t) = ToSet(s) \cup ToSet(t)
         /\ \A x \in T : Append(s, x) \in Seq(T) /\ ToSet(Append(s, x)) = ToSet(s) \cup {x}
         /\ s # <<>> => /\ Last(s) \in T /\ Front(s) \in Seq(T)
                        /\ Last(s) \in ToSet(s) /\ ToSet(Front(s)) \subseteq ToSet(s)
                        /\ ToSet(s) \subseteq ToSet(Front(s)) \cup {Last(s)}
         /\ s # <<>> => /\ Head(s) \in T /\ Tail(s) \in Seq(T)
                        /\ Head(s) \in ToSet(s) /\ ToSet(Tail(s)) \subseteq ToSet(s)
                        /\ ToSet(s) \subseteq ToSet(Tail(s)) \cup {Head(s)}
<1>1. \A t \in Seq(T) : \A x : x \in ToSet(t) <=> \E i \in 1 .. Len(t) : x = t[i]
  BY LenProperties DEF ToSet
<1>2. ToSet(s) \subseteq T
  BY <1>1, ElementOfSeq
<1>3. ASSUME s = <<>> PROVE ToSet(s) = {}
  <2>1. Len(s) = 0
    BY <1>3, EmptySeq
  <2>2. ASSUME NEW x \in ToSet(s) PROVE FALSE
    <3>1. PICK i \in 1 .. Len(s) : x = s[i]
      BY <1>1
    <3> QED
      BY <2>1, <3>1
  <2> QED
    BY <2>2
<1>4. ASSUME NEW t \in Seq(T)
      PROVE  s \o t \in Seq(T) /\ ToSet(s \o t) = ToSet(s) \cup ToSet(t)
  <2> DEFINE u == s \o t
  <2>1. Len(s) \in Nat /\ Len(t) \in Nat
    BY LenProperties
  <2>2. /\ u \in Seq(T) /\ Len(u) = Len(s) + Len(t)
        /\ \A i \in 1 .. Len(s) + Len(t) : u[i] = IF i <= Len(s) THEN s[i] ELSE t[i - Len(s)]
    BY ConcatProperties
  <2> HIDE DEF u
  <2>3. ASSUME NEW x \in ToSet(u) PROVE x \in ToSet(s) \cup ToSet(t)
    <3>1. PICK i \in 1 .. Len(s) + Len(t) : x = u[i]
      BY <1>1, <2>2
    <3>2. CASE i <= Len(s)
      BY <1>1, <2>1, <2>2, <3>1, <3>2
    <3>3. CASE ~(i <= Len(s))
      <4>1. i - Len(s) \in 1 .. Len(t) /\ x = t[i - Len(s)]
        BY <2>1, <2>2, <3>1, <3>3
      <4> QED
        BY <1>1, <4>1
    <3> QED
      BY <3>2, <3>3
  <2>4. ASSUME NEW x \in ToSet(s) PROVE x \in ToSet(u)
    <3>1. PICK i \in 1 .. Len(s) : x = s[i]
      BY <1>1
    <3>2. i \in 1 .. Len(u) /\ x = u[i]
      BY <2>1, <2>2, <3>1
    <3> QED
      BY <1>1, <2>2, <3>2
  <2>5. ASSUME NEW x \in ToSet(t) PROVE x \in ToSet(u)
    <3>1. PICK i \in 1 .. Len(t) : x = t[i]
      BY <1>1
    <3>2. PICK k \in 1 .. Len(s) + Len(t) : k = i + Len(s)
      BY <2>1, <3>1
    <3>3. ~(k <= Len(s)) /\ k - Len(s) = i
      BY <2>1, <3>1, <3>2
    <3>4. x = u[k]
      BY <2>2, <3>1, <3>3
    <3> QED
      BY <1>1, <2>2, <3>4
  <2> QED
    BY <2>2, <2>3, <2>4, <2>5 DEF u
<1>5. ASSUME NEW x \in T
      PROVE  Append(s, x) \in Seq(T) /\ ToSet(Append(s, x)) = ToSet(s) \cup {x}
  <2> DEFINE u == Append(s, x)
  <2>1. Len(s) \in Nat
    BY LenProperties
  <2>2. /\ u \in Seq(T) /\ Len(u) = Len(s) + 1 /\ u[Len(s) + 1] = x
        /\ \A i \in 1 .. Len(s) : u[i] = s[i]
    BY AppendProperties
  <2> HIDE DEF u
  <2>3. ASSUME NEW y \in ToSet(u) PROVE y \in ToSet(s) \cup {x}
    <3>1. PICK i \in 1 .. Len(s) + 1 : y = u[i]
      BY <1>1, <2>2
    <3> QED
      BY <1>1, <2>1, <2>2, <3>1
  <2>4. x \in ToSet(u)
    BY <1>1, <2>1, <2>2
  <2>5. ASSUME NEW y \in ToSet(s) PROVE y \in ToSet(u)
    <3>1. PICK i \in 1 .. Len(s) : y = s[i]
      BY <1>1
    <3> QED
      BY <1>1, <2>1, <2>2, <3>1
  <2> QED
    BY <2>2, <2>3, <2>4, <2>5 DEF u
<1>6. ASSUME s # <<>>
      PROVE  /\ Last(s) \in T /\ Front(s) \in Seq(T)
             /\ Last(s) \in ToSet(s) /\ ToSet(Front(s)) \subseteq ToSet(s)
             /\ ToSet(s) \subseteq ToSet(Front(s)) \cup {Last(s)}
  <2> DEFINE n == Len(s)
             u == SubSeq(s, 1, n - 1)
  <2>1. n \in Nat \ {0}
    BY <1>6, EmptySeq
  <2>2. \A i \in 1 .. n - 1 : s[i] \in T
    BY <2>1, ElementOfSeq
  <2>3. u \in Seq(T) /\ Len(u) = n - 1 /\ \A i \in 1 .. n - 1 : u[i] = s[i]
    <3>1. /\ u \in Seq(T) /\ Len(u) = IF 1 <= n - 1 THEN n - 1 - 1 + 1 ELSE 0
          /\ \A i \in 1 .. n - 1 - 1 + 1 : u[i] = s[1 + i - 1]
      BY <2>1, <2>2, SubSeqProperties
    <3> HIDE DEF u
    <3>2. Len(u) = n - 1
      <4> HIDE DEF n
      <4>1. n \in Int /\ n >= 1
        BY <2>1
      <4>2. CASE n >= 2
        BY <3>1, <4>1, <4>2
      <4>3. CASE n = 1
        BY <3>1, <4>3
      <4> QED
        BY <4>1, <4>2, <4>3
    <3>3. \A i \in 1 .. n - 1 : i \in 1 .. n - 1 - 1 + 1 /\ 1 + i - 1 = i
      BY <2>1
    <3> QED
      BY <3>1, <3>2, <3>3
  <2>4. u = Front(s) /\ s[n] = Last(s)
    BY DEF Front, Last
  <2> HIDE DEF u
  <2>5. s[n] \in T /\ s[n] \in ToSet(s)
    BY <1>1, <2>1, ElementOfSeq
  <2>6. ToSet(u) \subseteq ToSet(s)
    BY <1>1, <2>1, <2>3
  <2>7. ASSUME NEW x \in ToSet(s) PROVE x \in ToSet(u) \cup {s[n]}
    <3>1. PICK i \in 1 .. n : x = s[i]
      BY <1>1
    <3> QED
      BY <1>1, <2>1, <2>3, <3>1
  <2> QED
    BY <2>3, <2>4, <2>5, <2>6, <2>7
<1>7. ASSUME s # <<>>
      PROVE  /\ Head(s) \in T /\ Tail(s) \in Seq(T)
             /\ Head(s) \in ToSet(s) /\ ToSet(Tail(s)) \subseteq ToSet(s)
             /\ ToSet(s) \subseteq ToSet(Tail(s)) \cup {Head(s)}
  <2>1. Len(s) \in Nat \ {0}
    BY <1>7, EmptySeq
  <2>2. /\ Head(s) \in T /\ Tail(s) \in Seq(T) /\ Len(Tail(s)) = Len(s) - 1
        /\ \A i \in 1 .. Len(s) - 1 : Tail(s)[i] = s[i + 1]
    BY <1>7, HeadTailProperties
  <2>3. Head(s) = s[1]
    BY <1>7
  <2>4. Head(s) \in ToSet(s)
    BY <1>1, <2>1, <2>3
  <2>5. ASSUME NEW x \in ToSet(Tail(s)) PROVE x \in ToSet(s)
    <3>0. PICK i \in 1 .. Len(Tail(s)) : x = Tail(s)[i]
      BY <1>1, <2>2
    <3>1. i \in 1 .. Len(s) - 1 /\ x = s[i + 1]
      BY <2>2, <3>0
    <3>2. i + 1 \in 1 .. Len(s)
      BY <2>1
    <3> QED
      BY <1>1, <3>1, <3>2
  <2>6. ASSUME NEW x \in ToSet(s) PROVE x \in ToSet(Tail(s)) \cup {Head(s)}
    <3>1. PICK i \in 1 .. Len(s) : x = s[i]
      BY <1>1
    <3>2. CASE i = 1
      BY <2>3, <3>1, <3>2
    <3>3. CASE i # 1
      <4>1. i - 1 \in 1 .. Len(s) - 1 /\ Tail(s)[i - 1] = s[i]
        BY <2>1, <2>2, <3>3
      <4> QED
        BY <1>1, <2>2, <3>1, <4>1
    <3> QED
      BY <3>2, <3>3
  <2> QED
    BY <2>2, <2>4, <2>5, <2>6
<1> QED
  BY <1>1, <1>2, <1>3, <1>4, <1>5, <1>6, <1>7

-----------------------------------------------------------------------------
(***************************************************************************)
(* The listing of a directory, and its pages.                              *)
(***************************************************************************)

Stored == IsFiniteSet(DOMAIN objects) /\ DOMAIN objects \subseteq Seq(Names)

EntryIn(d, p) == [name |-> p[Len(d) + 1], isDir |-> Len(p) > Len(d) + 1]

\* What is below a directory is listed in it, through one of finitely many
\* entries in a strict order.
LEMMA EntriesAreListed ==
  ASSUME Stored, NEW d \in Seq(Names)
  PROVE  /\ IsFiniteSet(Entries(d)) /\ Entries(d) \subseteq AnEntry
         /\ \A e \in Entries(d) : \E p \in DOMAIN objects :
              IsStrictPrefix(d, p) /\ e = EntryIn(d, p)
         /\ \A p \in DOMAIN objects : IsStrictPrefix(d, p) => EntryIn(d, p) \in Entries(d)
         /\ StrictOrder(Entries(d), Earlier(Entries(d)))
<1> DEFINE below == {q \in DOMAIN objects : IsStrictPrefix(d, q)}
           entry == [p \in below |-> EntryIn(d, p)]
<1>1. below \subseteq DOMAIN objects /\ Entries(d) = {entry[p] : p \in below}
  BY DEF Entries, EntryIn
<1>2. /\ \A e \in Entries(d) : \E p \in DOMAIN objects : IsStrictPrefix(d, p) /\ e = EntryIn(d, p)
      /\ \A p \in DOMAIN objects : IsStrictPrefix(d, p) => EntryIn(d, p) \in Entries(d)
  BY DEF Entries, EntryIn
<1>3. Entries(d) \subseteq AnEntry
  <2> SUFFICES ASSUME NEW p \in DOMAIN objects, IsStrictPrefix(d, p)
               PROVE  EntryIn(d, p) \in AnEntry
    BY <1>2
  <2>1. p \in Seq(Names)
    BY DEF Stored
  <2>2. Len(d) \in Nat /\ Len(p) \in Nat /\ Len(d) < Len(p)
    BY <2>1, PrefixElements
  <2>3. Len(d) + 1 \in 1 .. Len(p)
    BY <2>2
  <2>4. p[Len(d) + 1] \in Names
    BY <2>1, <2>3, ElementOfSeq
  <2>5. (Len(p) > Len(d) + 1) \in BOOLEAN
    OBVIOUS
  <2> QED
    BY <2>4, <2>5 DEF EntryIn, AnEntry
<1>4. IsFiniteSet(Entries(d))
  <2>1. entry \in Surjection(below, Entries(d))
    BY <1>1 DEF Surjection
  <2>2. IsFiniteSet(below)
    BY <1>1, FS_Subset DEF Stored
  <2> HIDE DEF below, entry
  <2> QED
    BY <2>1, <2>2, FS_Surjection
<1> DEFINE S == Entries(d)
           R == Earlier(S)
<1>5. \A e, f \in S : <<e, f>> \in R <=> \/ e.name < f.name
                                         \/ e.name = f.name /\ ~e.isDir /\ f.isDir
  BY DEF Earlier
<1>6. \A e \in S : e.name \in Nat /\ e.isDir \in BOOLEAN /\ e = [name |-> e.name, isDir |-> e.isDir]
  BY <1>3, StorageAssumption DEF AnEntry, Names
<1> HIDE DEF S, R
<1>7. \A e \in S : <<e, e>> \notin R
  BY <1>5, <1>6
<1>8. ASSUME NEW e \in S, NEW f \in S PROVE e = f \/ <<e, f>> \in R \/ <<f, e>> \in R
  <2>1. e.name < f.name \/ f.name < e.name \/ e.name = f.name
    BY <1>6
  <2>2. CASE e.name < f.name \/ f.name < e.name
    BY <1>5, <2>2
  <2>3. CASE e.name = f.name
    <3>1. CASE e.isDir = f.isDir
      BY <1>6, <2>3, <3>1
    <3>2. CASE e.isDir # f.isDir
      <4>1. (~e.isDir /\ f.isDir) \/ (~f.isDir /\ e.isDir)
        BY <1>6, <3>2, Zenon
      <4> QED
        BY <1>5, <2>3, <4>1
    <3> QED
      BY <3>1, <3>2
  <2> QED
    BY <2>1, <2>2, <2>3
<1>9. ASSUME NEW e \in S, NEW f \in S, NEW g \in S, <<e, f>> \in R, <<f, g>> \in R
      PROVE  <<e, g>> \in R
  <2>1. e.name < f.name \/ (e.name = f.name /\ ~e.isDir /\ f.isDir)
    BY <1>5, <1>9, Zenon
  <2>2. f.name < g.name \/ (f.name = g.name /\ ~f.isDir /\ g.isDir)
    BY <1>5, <1>9, Zenon
  <2>3. e.name < g.name \/ (e.name = g.name /\ ~e.isDir /\ g.isDir)
    BY <1>6, <2>1, <2>2
  <2> QED
    BY <1>5, <2>3
<1>10. StrictOrder(S, R)
  BY <1>7, <1>8, <1>9 DEF StrictOrder
<1> QED
  BY <1>2, <1>3, <1>4, <1>10 DEF S, R

\* A page has the entries with its ranks, and if it is not full there are none
\* behind it.
LEMMA PageOfListing ==
  ASSUME Stored, NEW d \in Seq(Names), NEW n \in Nat
  PROVE  /\ Page(d, n) \in Seq(AnEntry) /\ ToSet(Page(d, n)) \subseteq Entries(d)
         /\ PAGE_LIMIT * n \in Nat /\ PAGE_LIMIT * (n + 1) \in Nat
         /\ \A e \in Entries(d) : Rank(e, Entries(d), Earlier(Entries(d))) \in Nat
         /\ \A e \in Entries(d) : Rank(e, Entries(d), Earlier(Entries(d))) >= PAGE_LIMIT * n =>
              \/ e \in ToSet(Page(d, n))
              \/ /\ Rank(e, Entries(d), Earlier(Entries(d))) >= PAGE_LIMIT * (n + 1)
                 /\ IsFull(Page(d, n))
<1> DEFINE S == Entries(d)
           rank(e) == Rank(e, S, Earlier(S))
           a == PAGE_LIMIT * n
           b == PAGE_LIMIT * (n + 1)
           c == Cardinality(S)
           s == Listing(d)
           m == Min({b, Len(s)})
           page == SubSeq(s, a + 1, m)
<1>1. a \in Nat /\ b = a + PAGE_LIMIT /\ PAGE_LIMIT \in Nat \ {0}
  BY StorageAssumption
<1>2. IsFiniteSet(S) /\ StrictOrder(S, Earlier(S)) /\ S \subseteq AnEntry
  BY EntriesAreListed
<1>3. /\ c \in Nat /\ s \in [1 .. c -> S]
      /\ \A e \in S : rank(e) \in 0 .. c - 1 /\ s[rank(e) + 1] = e
  <2> HIDE DEF S
  <2> QED
    BY <1>2, Ranks DEF Listing, S
<1>4. page = Page(d, n)
  BY DEF Page
<1> HIDE DEF S, rank, s, a, b, c
<1>5. s \in Seq(S) /\ Len(s) = c
  BY <1>3
<1>6. m = IF b <= c THEN b ELSE c
  <2>1. m \in {b, c} /\ \A y \in {b, c} : m <= y
    <3>1. \E x \in {b, c} : \A y \in {b, c} : x <= y
      BY <1>1, <1>3
    <3> QED
      BY <1>5, <3>1 DEF Min
  <2> QED
    BY <1>1, <1>3, <2>1
<1> HIDE DEF m
<1>7. \A i \in a + 1 .. m : s[i] \in S
  BY <1>1, <1>3, <1>6
<1>8. /\ page \in Seq(S) /\ Len(page) = IF a + 1 <= m THEN m - (a + 1) + 1 ELSE 0
      /\ \A i \in 1 .. m - (a + 1) + 1 : page[i] = s[a + 1 + i - 1]
  <2>1. a + 1 \in Int /\ m \in Int
    BY <1>1, <1>3, <1>6
  <2> QED
    BY <1>7, <2>1, SubSeqProperties
<1> HIDE DEF page
<1>9. page \in Seq(AnEntry) /\ ToSet(page) \subseteq S
  BY <1>2, <1>8, Members, SeqMonotonic
<1>10. ASSUME NEW e \in S, rank(e) >= a
       PROVE  e \in ToSet(page) \/ (rank(e) >= b /\ IsFull(page))
  <2>1. rank(e) \in 0 .. c - 1
    BY <1>3
  <2>2. CASE rank(e) < b
    <3>1. PICK i \in Int : i = rank(e) + 1 - a
      BY <1>1, <1>3, <2>1
    <3>2. rank(e) + 1 <= m
      BY <1>1, <1>3, <1>6, <2>1, <2>2
    <3>3. i \in 1 .. m - (a + 1) + 1 /\ a + 1 + i - 1 = rank(e) + 1
      <4>1. m \in Int /\ a \in Int /\ rank(e) \in Int
        BY <1>1, <1>3, <1>6, <2>1
      <4> QED
        BY <1>10, <3>1, <3>2, <4>1
    <3>4. page[i] = e
      BY <1>3, <1>8, <3>3
    <3>5. i \in 1 .. Len(page)
      BY <1>1, <1>3, <1>6, <1>8, <3>3
    <3> QED
      BY <1>8, <3>4, <3>5, Members
  <2>3. CASE rank(e) >= b
    <3>1. m = b
      BY <1>1, <1>3, <1>6, <2>1, <2>3
    <3>2. Len(page) = PAGE_LIMIT
      BY <1>1, <1>8, <3>1
    <3> QED
      BY <2>3, <3>2 DEF IsFull
  <2> QED
    BY <1>1, <1>3, <2>1, <2>2, <2>3
<1>11. \A e \in S : rank(e) \in Nat
  BY <1>3
<1> QED
  BY <1>1, <1>4, <1>9, <1>10, <1>11 DEF S, rank, a, b

\* The directories among some entries, in their order, and the files.
LEMMA DirsAndFiles ==
  ASSUME NEW es \in Seq(AnEntry), dir \in Seq(Names)
  PROVE  /\ DirsOf(es) \in Seq(Seq(Names))
         /\ \A q : q \in ToSet(DirsOf(es)) <=> \E e \in ToSet(es) : e.isDir /\ q = Path(e)
         /\ \A q : q \in FilesOf(es) <=> \E e \in ToSet(es) : ~e.isDir /\ q = Path(e)
         /\ \A e \in ToSet(es) : Path(e) \in Seq(Names)
<1> DEFINE where == {i \in 1 .. Len(es) : es[i].isDir}
           R == Ascending(where)
           found == Sorted(where, R)
           n == Len(found)
           res == [k \in 1 .. n |-> Path(es[found[k]])]
<1>1. Len(es) \in Nat /\ \A i \in 1 .. Len(es) : es[i] \in AnEntry
  BY LenProperties, ElementOfSeq
<1>2. \A e \in AnEntry : Path(e) \in Seq(Names)
  BY AppendElements DEF AnEntry, Path
<1>3. IsFiniteSet(where) /\ where \subseteq 1 .. Len(es)
  <2>1. where \in SUBSET (1 .. Len(es))
    OBVIOUS
  <2>2. IsFiniteSet(1 .. Len(es))
    BY <1>1, FS_Interval
  <2> HIDE DEF where
  <2> QED
    BY <2>1, <2>2, FS_Subset
<1>4. \A i \in where : es[i].isDir /\ i \in 1 .. Len(es)
  OBVIOUS
<1>5. \A i \in 1 .. Len(es) : es[i].isDir => i \in where
  OBVIOUS
<1>6. DirsOf(es) = res
  BY DEF DirsOf
<1> HIDE DEF where
<1>7. StrictOrder(where, R)
  <2>1. where \subseteq Int
    BY <1>1, <1>3
  <2>2. \A x, y \in where : <<x, y>> \in R <=> x < y
    BY DEF Ascending
  <2> HIDE DEF R
  <2> QED
    BY <2>1, <2>2 DEF StrictOrder
<1> HIDE DEF R
<1>8. /\ Cardinality(where) \in Nat
      /\ found \in [1 .. Cardinality(where) -> where]
      /\ \A i \in where : Rank(i, where, R) \in 0 .. Cardinality(where) - 1
      /\ \A i \in where : found[Rank(i, where, R) + 1] = i
  BY <1>3, <1>7, Ranks
<1> HIDE DEF found
<1>9. found \in Seq(where) /\ n = Cardinality(where)
  BY <1>8
<1> HIDE DEF n
<1>10. \A k \in 1 .. n : found[k] \in where /\ es[found[k]] \in AnEntry /\ es[found[k]].isDir
  BY <1>1, <1>4, <1>8, <1>9
<1>11. res \in Seq(Seq(Names)) /\ Len(res) = n /\ \A k \in 1 .. n : res[k] = Path(es[found[k]])
  <2>1. \A k \in 1 .. n : Path(es[found[k]]) \in Seq(Names)
    BY <1>2, <1>10
  <2> DEFINE P(k) == Path(es[found[k]])
  <2> HIDE DEF P
  <2>2. res = [k \in 1 .. n |-> P(k)]
    BY DEF P
  <2>3. n \in Nat /\ \A k \in 1 .. n : P(k) \in Seq(Names)
    BY <1>8, <1>9, <2>1 DEF P
  <2> HIDE DEF res
  <2>4. /\ res \in Seq(Seq(Names)) /\ Len(res) = n
        /\ \A k \in 1 .. n : res[k] = P(k)
    BY <2>2, <2>3
  <2> QED
    BY <2>4 DEF P
<1> HIDE DEF res
<1>12. ASSUME NEW q
       PROVE  q \in ToSet(res) <=> \E e \in ToSet(es) : e.isDir /\ q = Path(e)
  <2>1. ASSUME q \in ToSet(res) PROVE \E e \in ToSet(es) : e.isDir /\ q = Path(e)
    <3>1. PICK k \in 1 .. n : q = res[k]
      BY <1>11, <2>1, Members
    <3>2. es[found[k]] \in ToSet(es)
      BY <1>4, <1>10, Members
    <3> QED
      BY <1>10, <1>11, <3>1, <3>2
  <2>2. ASSUME NEW e \in ToSet(es), e.isDir, q = Path(e) PROVE q \in ToSet(res)
    <3>1. PICK i \in 1 .. Len(es) : e = es[i]
      BY Members
    <3>2. i \in where
      BY <1>5, <2>2, <3>1
    <3>3. PICK k \in 1 .. n : k = Rank(i, where, R) + 1
      BY <1>8, <1>9, <3>2
    <3>4. res[k] = q
      BY <1>8, <1>11, <2>2, <3>1, <3>2, <3>3
    <3> QED
      BY <1>11, <3>4, Members
  <2> QED
    BY <2>1, <2>2
<1>13. \A e \in ToSet(es) : Path(e) \in Seq(Names)
  BY <1>2, Members
<1>14. \A q : q \in FilesOf(es) <=> \E e \in ToSet(es) : ~e.isDir /\ q = Path(e)
  BY DEF FilesOf
<1> QED
  BY <1>6, <1>11, <1>12, <1>13, <1>14

\* A set that grows moves its elements no further to the front.
LEMMA RankGrows ==
  ASSUME NEW S, NEW T, S \subseteq T, IsFiniteSet(T), NEW e \in S
  PROVE  /\ Rank(e, S, Earlier(S)) <= Rank(e, T, Earlier(T))
         /\ Rank(e, S, Earlier(S)) \in Nat /\ Rank(e, T, Earlier(T)) \in Nat
<1> DEFINE A == {f \in S : <<f, e>> \in Earlier(S)}
           B == {f \in T : <<f, e>> \in Earlier(T)}
<1>1. A \in SUBSET B /\ B \in SUBSET T
  BY DEF Earlier
<1>2. Rank(e, S, Earlier(S)) = Cardinality(A) /\ Rank(e, T, Earlier(T)) = Cardinality(B)
  BY DEF Rank
<1> HIDE DEF A, B
<1>3. IsFiniteSet(B)
  BY <1>1, FS_Subset
<1>4. IsFiniteSet(A) /\ Cardinality(A) <= Cardinality(B)
  BY <1>1, <1>3, FS_Subset
<1>5. Cardinality(A) \in Nat /\ Cardinality(B) \in Nat
  BY <1>3, <1>4, FS_CardinalityType
<1> QED
  BY <1>2, <1>4, <1>5

LEMMA PrefixOrder ==
  ASSUME NEW s \in Seq(Names), NEW t \in Seq(Names), NEW u \in Seq(Names)
  PROVE  /\ IsPrefix(s, s)
         /\ IsPrefix(s, t) => Len(s) <= Len(t)
         /\ IsStrictPrefix(s, t) <=> IsPrefix(s, t) /\ s # t
         /\ IsStrictPrefix(s, t) => Len(s) < Len(t)
         /\ IsPrefix(s, t) /\ Len(s) = Len(t) => s = t
         /\ IsPrefix(s, t) /\ IsPrefix(t, u) => IsPrefix(s, u)
         /\ IsPrefix(s, t) /\ IsStrictPrefix(t, u) => IsStrictPrefix(s, u)
         /\ IsPrefix(s, u) /\ IsPrefix(t, u) /\ Len(s) <= Len(t) => IsPrefix(s, t)
<1>1. Len(s) \in Nat /\ Len(t) \in Nat /\ Len(u) \in Nat
  BY LenProperties
<1>2. /\ IsPrefix(s, s) <=> Len(s) <= Len(s) /\ \A i \in 1 .. Len(s) : s[i] = s[i]
      /\ IsPrefix(s, t) <=> Len(s) <= Len(t) /\ \A i \in 1 .. Len(s) : s[i] = t[i]
      /\ IsPrefix(t, u) <=> Len(t) <= Len(u) /\ \A i \in 1 .. Len(t) : t[i] = u[i]
      /\ IsPrefix(s, u) <=> Len(s) <= Len(u) /\ \A i \in 1 .. Len(s) : s[i] = u[i]
      /\ IsStrictPrefix(s, t) <=> Len(s) < Len(t) /\ \A i \in 1 .. Len(s) : s[i] = t[i]
      /\ IsStrictPrefix(t, u) <=> Len(t) < Len(u) /\ \A i \in 1 .. Len(t) : t[i] = u[i]
      /\ IsStrictPrefix(s, u) <=> Len(s) < Len(u) /\ \A i \in 1 .. Len(s) : s[i] = u[i]
  BY PrefixElements
<1>3. IsPrefix(s, t) /\ Len(s) = Len(t) => s = t
  BY <1>2, SeqEqual
<1>4. IsStrictPrefix(s, t) <=> IsPrefix(s, t) /\ s # t
  BY DEF IsStrictPrefix
<1>5. ASSUME IsPrefix(s, t), IsPrefix(t, u) PROVE IsPrefix(s, u)
  BY <1>1, <1>2, <1>5
<1>6. ASSUME IsPrefix(s, t), IsStrictPrefix(t, u) PROVE IsStrictPrefix(s, u)
  BY <1>1, <1>2, <1>6
<1>7. ASSUME IsPrefix(s, u), IsPrefix(t, u), Len(s) <= Len(t) PROVE IsPrefix(s, t)
  BY <1>1, <1>2, <1>7
<1>8. /\ IsPrefix(s, s) /\ (IsPrefix(s, t) => Len(s) <= Len(t))
      /\ IsStrictPrefix(s, t) => Len(s) < Len(t)
  BY <1>1, <1>2
<1> QED
  BY <1>3, <1>4, <1>5, <1>6, <1>7, <1>8

\* What is moved keeps its place below the destination.
LEMMA Destinations ==
  ASSUME from \in Seq(Names), command.to \in Seq(Names),
         NEW p \in Seq(Names), IsPrefix(from, p)
  PROVE  /\ Destination(p) \in Seq(Names) /\ IsPrefix(command.to, Destination(p))
         /\ Len(Destination(p)) = Len(command.to) + (Len(p) - Len(from))
         /\ p = from => Destination(p) = command.to
<1> DEFINE to == command.to
           rest == SubSeq(p, Len(from) + 1, Len(p))
           d == to \o rest
<1>1. Len(from) \in Nat /\ Len(p) \in Nat /\ Len(from) <= Len(p) /\ Len(to) \in Nat
  BY LenProperties, PrefixOrder
<1>2. \A i \in Len(from) + 1 .. Len(p) : p[i] \in Names
  BY <1>1, ElementOfSeq
<1>3. /\ rest \in Seq(Names)
      /\ Len(rest) = IF Len(from) + 1 <= Len(p) THEN Len(p) - (Len(from) + 1) + 1 ELSE 0
  BY <1>1, <1>2, SubSeqProperties
<1>4. p = from => rest = <<>>
  BY <1>1, SubSeqEmpty
<1> HIDE DEF rest, to
<1>5. Len(rest) = Len(p) - Len(from)
  <2>1. CASE Len(from) = Len(p)
    BY <1>1, <1>3, <2>1
  <2>2. CASE Len(from) < Len(p)
    BY <1>1, <1>3, <2>2
  <2> QED
    BY <1>1, <2>1, <2>2
<1>6. to \in Seq(Names)
  BY DEF to
<1>7. /\ d \in Seq(Names) /\ Len(d) = Len(to) + Len(rest)
      /\ \A i \in 1 .. Len(to) + Len(rest) : d[i] = IF i <= Len(to) THEN to[i] ELSE rest[i - Len(to)]
  BY <1>3, <1>6, ConcatProperties
<1>8. rest = <<>> => d = to
  BY <1>6, ConcatEmptySeq
<1> HIDE DEF d
<1>9. IsPrefix(to, d)
  <2>1. Len(rest) \in Nat
    BY <1>3, LenProperties
  <2>2. Len(to) <= Len(d) /\ \A i \in 1 .. Len(to) : to[i] = d[i]
    BY <1>1, <1>7, <2>1
  <2> QED
    BY <1>6, <1>7, <2>2, PrefixElements
<1>10. Destination(p) = d
  BY DEF Destination, d, rest, to
<1> QED
  BY <1>4, <1>5, <1>7, <1>8, <1>9, <1>10 DEF to

\* A queue with one directory in it.
LEMMA OneMember == ASSUME NEW T, NEW x \in T PROVE <<x>> \in Seq(T) /\ ToSet(<<x>>) = {x}
<1>1. <<x>> \in Seq(T) /\ Len(<<x>>) = 1 /\ <<x>>[1] = x
  OBVIOUS
<1>2. \A y : y \in ToSet(<<x>>) <=> \E i \in 1 .. Len(<<x>>) : y = <<x>>[i]
  BY <1>1, Members
<1>3. ASSUME NEW y PROVE y \in ToSet(<<x>>) <=> y = x
  BY <1>1, <1>2
<1> QED
  BY <1>1, <1>3

-----------------------------------------------------------------------------
(***************************************************************************)
(* The invariant.                                                          *)
(***************************************************************************)

to == command.to
Queued == ToSet(dirs)
Found == ToSet(paths)
Reading == phase \in {"list", "act"}
Walking == phase \in {"pop", "list", "act"}

ObjectTypes ==
  /\ Stored
  /\ objects \in [DOMAIN objects -> first \cup {<<>>}]

StorageTypes ==
  /\ ObjectTypes
  /\ IsFiniteSet(first) /\ first \subseteq Seq(Names) \ {<<>>}
  /\ command.op \in {"rm", "mv"}
  /\ from \in Seq(Names) /\ to \in Seq(Names)
  /\ dirs \in Seq(Seq(Names)) /\ dir \in Seq(Names)
  /\ pages \in Nat /\ paths \in Seq(AnEntry)

\* What is walked through is at or below the given directory, which is no object.
WalkInv ==
  /\ IsPrefix(from, to) => Len(to) <= Len(from) + 1
  /\ phase = "try" => objects = [p \in first |-> p]
  /\ phase # "over" => outcome = "none"
  /\ Walking => /\ command.recursive /\ from \notin first
                /\ \A d \in Queued : IsPrefix(from, d)
  /\ Reading => IsPrefix(from, dir)

\* The entry of the listed directory through which it lists p.
EntryOf(p) == EntryIn(dir, p)
RankOf(e) == Rank(e, Entries(dir), Earlier(Entries(dir)))

\* The walk still comes to p: one of the directories above p is in the queue
\* or, in the one that is listed, the entry of p has been or will be read.
Pending(p) ==
  \/ \E d \in Queued : IsStrictPrefix(d, p)
  \/ /\ Reading /\ IsStrictPrefix(dir, p)
     /\ \/ EntryOf(p) \in Found
        \/ phase = "list" /\ RankOf(EntryOf(p)) >= PAGE_LIMIT * pages

\* The walk never comes to q, whatever is there.
Unreached(q) ==
  /\ \A d \in Queued : ~IsStrictPrefix(d, q)
  /\ phase = "list" => ~IsStrictPrefix(dir, q)
  /\ Reading => \A e \in Found : ~IsPrefix(Path(e), q)

\* What a removal or a move has still to do, it will come to.
Removing ==
  command.op = "rm" /\ Walking => \A p \in Asked : StaysAt(p, p) => Pending(p)

Moving ==
  command.op = "mv" /\ ~MovesIntoItself /\ ~MovesBack /\ Walking =>
    \A p \in Asked : \/ StaysAt(p, p) /\ Pending(p)
                     \/ StaysAt(p, Destination(p)) /\ Unreached(Destination(p))

\* Nothing has been moved while the given directory itself is to be listed.
Unmoved == \A q \in DOMAIN objects : objects[q] \in {q, <<>>}
FirstListed ==
  /\ Walking /\ from \in Queued => phase = "pop" /\ dirs = <<from>> /\ Unmoved
  /\ phase = "list" /\ dir = from => Unmoved

\* A destination in the given directory is not listed.
Inside == command.op = "mv" /\ IsPrefix(from, to) /\ Len(to) = Len(from) + 1
Aside ==
  Inside /\ ~MovesIntoItself =>
    /\ Walking => \A d \in Queued : ~IsPrefix(to, d)
    /\ Reading => ~IsPrefix(to, dir) /\ \A e \in Found : ~IsPrefix(to, Path(e))

\* The two properties.
Spared == \A p \in first \ Asked : StaysAt(p, p)
Done ==
  /\ outcome = "declined" => \A p \in first : StaysAt(p, p)
  /\ outcome = "ok" =>
       /\ command.op = "rm" => \A p \in Asked : ~StaysAt(p, p)
       /\ command.op = "mv" /\ ~MovesIntoItself /\ ~MovesBack =>
            \A p \in Asked : StaysAt(p, Destination(p))

StorageInv ==
  /\ StorageTypes /\ WalkInv /\ Removing /\ Moving /\ FirstListed /\ Aside
  /\ Spared /\ Done

\* What a command is given does not change.
LEMMA GivenStays ==
  ASSUME [StorageNext]_storageVars
  PROVE  UNCHANGED <<first, command>>
<1>1. ASSUME NEW how, Over(how) PROVE UNCHANGED <<first, command>>
  BY <1>1 DEF Over
<1>2. ASSUME StartsWalk PROVE UNCHANGED <<first, command>>
  BY <1>2 DEF StartsWalk
<1>3. CASE UNCHANGED storageVars
  BY <1>3 DEF storageVars
<1>4. CASE DeclineDelete \/ TryDelete \/ TryMove \/ Finish \/ RequestFails
  BY <1>1, <1>2, <1>4 DEF DeclineDelete, TryDelete, TryMove, Finish, RequestFails
<1>5. CASE PopDirectory \/ ListObjects \/ MoveObject \/ Upload
  BY <1>5 DEF PopDirectory, ListObjects, MoveObject, Upload
<1>6. CASE DeleteObjects
  BY <1>1, <1>6 DEF DeleteObjects
<1> QED
  BY <1>3, <1>4, <1>5, <1>6 DEF StorageNext

LEMMA GivenMeans ==
  ASSUME UNCHANGED <<first, command>>
  PROVE  /\ from' = from /\ to' = to /\ Asked' = Asked /\ (MovesBack <=> MovesBack')
         /\ \A p : Destination(p)' = Destination(p)
         /\ (Inside <=> Inside')
<1>1. from' = from /\ to' = to
  BY DEF from, to
<1>2. \A p : Destination(p)' = Destination(p)
  BY <1>1 DEF Destination, from
<1>3. Asked' = Asked
  BY <1>1 DEF Asked, IsBelow, from
<1>4. MovesBack' <=> MovesBack
  BY <1>1, <1>2, <1>3 DEF MovesBack, IsBelow
<1> QED
  BY <1>1, <1>2, <1>3, <1>4 DEF Inside

-----------------------------------------------------------------------------
(***************************************************************************)
(* What the requests do to the objects.                                    *)
(***************************************************************************)

LEMMA SameObjects ==
  ASSUME UNCHANGED <<objects, first, command>>
  PROVE  /\ ObjectTypes => ObjectTypes'
         /\ \A p, q : StaysAt(p, q)' <=> StaysAt(p, q)
         /\ (MovesIntoItself <=> MovesIntoItself') /\ (Unmoved <=> Unmoved')
         /\ Spared => Spared'
<1>1. from' = from /\ to' = to /\ Asked' = Asked
  BY GivenMeans
<1>2. \A p, q : StaysAt(p, q)' <=> StaysAt(p, q)
  BY DEF StaysAt, Finds
<1>3. ObjectTypes => ObjectTypes'
  BY DEF ObjectTypes, Stored
<1>4. MovesIntoItself <=> MovesIntoItself'
  BY <1>1 DEF MovesIntoItself
<1>5. Unmoved <=> Unmoved'
  BY DEF Unmoved
<1> QED
  BY <1>1, <1>2, <1>3, <1>4, <1>5 DEF Spared

LEMMA ObjectsRemoved ==
  ASSUME ObjectTypes, NEW R, objects' = Without(R), first' = first
  PROVE  /\ ObjectTypes'
         /\ \A p, q : StaysAt(p, q)' <=> StaysAt(p, q) /\ q \notin R
         /\ Unmoved => Unmoved'
<1>1. DOMAIN objects' = DOMAIN objects \ R /\ \A q \in DOMAIN objects' : objects'[q] = objects[q]
  BY DEF Without
<1>2. objects' \in [DOMAIN objects' -> first' \cup {<<>>}]
  <2>1. objects' = [q \in DOMAIN objects \ R |-> objects[q]]
    BY DEF Without
  <2> QED
    BY <2>1 DEF ObjectTypes
<1>3. Stored'
  <2>1. DOMAIN objects' \in SUBSET DOMAIN objects
    BY <1>1
  <2> QED
    BY <2>1, FS_Subset DEF ObjectTypes, Stored
<1>4. \A p, q : StaysAt(p, q)' <=> StaysAt(p, q) /\ q \notin R
  BY <1>1 DEF StaysAt, Finds
<1>5. Unmoved => Unmoved'
  BY <1>1 DEF Unmoved
<1> QED
  BY <1>2, <1>3, <1>4, <1>5 DEF ObjectTypes

LEMMA ObjectMoved ==
  ASSUME ObjectTypes, NEW p, NEW q \in Seq(Names), CanMove(p, q), objects' = Moved(p, q),
         UNCHANGED <<first, command>>
  PROVE  /\ ObjectTypes' /\ p # q
         /\ \A r : StaysAt(r, p) => StaysAt(r, q)'
         /\ \A r, s : s \notin {p, q} => (StaysAt(r, s)' <=> StaysAt(r, s))
         /\ MovesIntoItself => MovesIntoItself'
<1>1. p \in DOMAIN objects /\ q \notin DOMAIN objects
  BY DEF CanMove, Finds
<1>2. objects' = [r \in (DOMAIN objects \ {p}) \cup {q} |->
                    IF r = q THEN objects[p] ELSE objects[r]]
  BY DEF Moved
<1>3. /\ DOMAIN objects' = (DOMAIN objects \ {p}) \cup {q}
      /\ objects'[q] = objects[p]
      /\ \A r \in DOMAIN objects \ {p} : objects'[r] = objects[r]
  BY <1>1, <1>2
<1>4. objects' \in [DOMAIN objects' -> first' \cup {<<>>}]
  BY <1>1, <1>2 DEF ObjectTypes
<1>5. Stored'
  <2>1. IsFiniteSet(DOMAIN objects \ {p})
    BY FS_RemoveElement DEF ObjectTypes, Stored
  <2>2. IsFiniteSet((DOMAIN objects \ {p}) \cup {q})
    BY <2>1, FS_AddElement
  <2> QED
    BY <1>3, <2>2 DEF ObjectTypes, Stored
<1>6. ASSUME NEW r, StaysAt(r, p) PROVE StaysAt(r, q)'
  BY <1>3, <1>6 DEF StaysAt, Finds
<1>7. ASSUME NEW r, NEW s, s \notin {p, q} PROVE StaysAt(r, s)' <=> StaysAt(r, s)
  BY <1>3, <1>7 DEF StaysAt, Finds
<1>8. ASSUME MovesIntoItself PROVE MovesIntoItself'
  <2>1. from' = from /\ to' = to
    BY GivenMeans
  <2>2. ASSUME NEW r \in DOMAIN objects, objects[r] = <<>>
        PROVE  \E s \in DOMAIN objects' : objects'[s] = <<>>
    <3>1. CASE r = p
      BY <1>3, <2>2, <3>1
    <3>2. CASE r # p
      BY <1>3, <2>2, <3>2
    <3> QED
      BY <3>1, <3>2
  <2> QED
    BY <1>8, <2>1, <2>2 DEF MovesIntoItself, to
<1> QED
  BY <1>1, <1>4, <1>5, <1>6, <1>7, <1>8 DEF ObjectTypes

LEMMA ObjectUploaded ==
  ASSUME ObjectTypes, Upload
  PROVE  /\ ObjectTypes' /\ DOMAIN objects \subseteq DOMAIN objects'
         /\ \A r, s : StaysAt(r, s) => StaysAt(r, s)'
         /\ \A r, s : r # <<>> => (StaysAt(r, s)' => StaysAt(r, s))
         /\ MovesIntoItself => MovesIntoItself'
         /\ Unmoved => Unmoved'
<1>1. PICK p \in Paths \ DOMAIN objects :
        objects' = [q \in DOMAIN objects \cup {p} |-> IF q = p THEN <<>> ELSE objects[q]]
  BY DEF Upload
<1>2. UNCHANGED <<first, command>>
  BY DEF Upload
<1>3. p \in Seq(Names)
  <2>1. PICK n \in 1 .. MaxDepth : p \in [1 .. n -> 1 .. NumNames]
    BY <1>1 DEF Paths
  <2> QED
    BY <2>1, StorageAssumption DEF Names
<1>4. /\ DOMAIN objects' = DOMAIN objects \cup {p} /\ objects'[p] = <<>>
      /\ \A q \in DOMAIN objects : objects'[q] = objects[q]
  BY <1>1
<1>5. objects' \in [DOMAIN objects' -> first' \cup {<<>>}]
  BY <1>1, <1>2 DEF ObjectTypes
<1>6. Stored'
  BY <1>3, <1>4, FS_AddElement DEF ObjectTypes, Stored
<1>7. ASSUME NEW r, NEW s, StaysAt(r, s) PROVE StaysAt(r, s)'
  BY <1>4, <1>7 DEF StaysAt, Finds
<1>8. ASSUME NEW r, NEW s, r # <<>>, StaysAt(r, s)' PROVE StaysAt(r, s)
  BY <1>4, <1>8 DEF StaysAt, Finds
<1>9. MovesIntoItself => MovesIntoItself'
  <2>1. from' = from
    BY <1>2, GivenMeans
  <2> QED
    BY <1>2, <1>4, <2>1 DEF MovesIntoItself
<1>10. Unmoved => Unmoved'
  BY <1>1, <1>4 DEF Unmoved
<1> QED
  BY <1>4, <1>5, <1>6, <1>7, <1>8, <1>9, <1>10 DEF ObjectTypes

-----------------------------------------------------------------------------
(***************************************************************************)
(* Every step preserves the invariant.                                     *)
(***************************************************************************)

\* A command that ends must have kept its promise, and nothing else counts.
LEMMA StorageEnds ==
  ASSUME StorageInv, NEW how, Over(how), ObjectTypes', Spared', Done'
  PROVE  StorageInv'
<1>1. /\ UNCHANGED <<first, command, dirs, dir, pages, paths>>
      /\ phase' = "over"
  BY DEF Over
<1>2. from' = from /\ to' = to
  BY <1>1, GivenMeans
<1>3. StorageTypes'
  BY <1>1, <1>2 DEF StorageInv, StorageTypes
<1>4. ~Walking' /\ ~Reading'
  BY <1>1 DEF Walking, Reading
<1>5. WalkInv'
  BY <1>1, <1>2, <1>4 DEF StorageInv, WalkInv
<1>6. Removing' /\ Moving' /\ FirstListed' /\ Aside'
  BY <1>1, <1>4 DEF Removing, Moving, FirstListed, Aside
<1> QED
  BY <1>3, <1>5, <1>6 DEF StorageInv

\* A failure changes nothing.
LEMMA FailureStays ==
  ASSUME StorageInv, Over("failed"), UNCHANGED objects
  PROVE  StorageInv'
<1>1. UNCHANGED <<first, command>> /\ outcome' = "failed"
  BY DEF Over
<1>2. ObjectTypes' /\ Spared'
  BY <1>1, SameObjects DEF StorageInv, StorageTypes
<1>3. Done'
  BY <1>1 DEF Done
<1> QED
  BY <1>2, <1>3, StorageEnds

\* Nor does a declined removal.
LEMMA DeclineDeleteStep == ASSUME StorageInv, DeclineDelete PROVE StorageInv'
<1>1. /\ phase = "try" /\ Over("declined") /\ UNCHANGED objects
      /\ UNCHANGED <<first, command>> /\ outcome' = "declined"
  BY DEF DeclineDelete, Over
<1>2. ObjectTypes' /\ Spared' /\ \A p, q : StaysAt(p, q)' <=> StaysAt(p, q)
  BY <1>1, SameObjects DEF StorageInv, StorageTypes
<1>3. \A p \in first : StaysAt(p, p)
  BY <1>1 DEF StorageInv, WalkInv, StaysAt, Finds
<1>4. Done'
  BY <1>1, <1>2, <1>3 DEF Done
<1> QED
  BY <1>1, <1>2, <1>4, StorageEnds

LEMMA RequestFailsStep == ASSUME StorageInv, RequestFails PROVE StorageInv'
  BY FailureStays DEF RequestFails

\* The walk begins at the given directory, before anything has been changed.
LEMMA WalkBegins ==
  ASSUME StorageInv, phase = "try", ~Finds(from), command.recursive, StartsWalk
  PROVE  StorageInv'
<1>1. /\ dirs' = <<from>> /\ phase' = "pop"
      /\ UNCHANGED <<objects, first, command, dir, pages, paths, outcome>>
  BY DEF StartsWalk
<1>2. /\ from' = from /\ to' = to /\ Asked' = Asked
      /\ \A p : Destination(p)' = Destination(p)
      /\ Inside <=> Inside'
  BY <1>1, GivenMeans
<1>3. /\ ObjectTypes' /\ Spared' /\ \A p, q : StaysAt(p, q)' <=> StaysAt(p, q)
  BY <1>1, SameObjects DEF StorageInv, StorageTypes
<1>4. /\ from \in Seq(Names) /\ to \in Seq(Names) /\ first \subseteq Seq(Names)
      /\ objects = [p \in first |-> p] /\ outcome = "none"
  BY DEF StorageInv, StorageTypes, WalkInv
<1>5. dirs' \in Seq(Seq(Names)) /\ Queued' = {from}
  BY <1>1, <1>4, OneMember DEF Queued
<1>6. Walking' /\ ~Reading'
  BY <1>1 DEF Walking, Reading
<1>7. StorageTypes'
  BY <1>1, <1>2, <1>3, <1>5 DEF StorageInv, StorageTypes
<1>8. from \notin first
  BY <1>4 DEF Finds
<1>9. WalkInv'
  <2>1. IsPrefix(from, from)
    BY <1>4, PrefixOrder
  <2> QED
    BY <1>1, <1>2, <1>4, <1>5, <1>6, <1>8, <2>1 DEF StorageInv, WalkInv
<1>10. ASSUME NEW p \in Asked PROVE StaysAt(p, p)' /\ Pending(p)'
  <2>1. p \in first /\ IsStrictPrefix(from, p)
    BY <1>8 DEF Asked, IsBelow
  <2>2. StaysAt(p, p)'
    BY <1>3, <1>4, <2>1 DEF StaysAt, Finds
  <2>3. Pending(p)'
    BY <1>5, <2>1 DEF Pending
  <2> QED
    BY <2>2, <2>3
<1>11. Removing' /\ Moving'
  BY <1>2, <1>10 DEF Removing, Moving
<1>12. FirstListed'
  <2>1. Unmoved'
    BY <1>1, <1>4 DEF Unmoved
  <2> QED
    BY <1>1, <1>2, <2>1 DEF FirstListed
<1>13. Aside'
  <2>1. ASSUME Inside PROVE ~IsPrefix(to, from)
    <3>1. Len(from) \in Nat /\ Len(to) = Len(from) + 1
      BY <1>4, <2>1, LenProperties DEF Inside
    <3> QED
      BY <1>4, <3>1, PrefixOrder
  <2> QED
    BY <1>2, <1>5, <1>6, <2>1 DEF Aside
<1>14. Done'
  BY <1>1, <1>4 DEF Done
<1> QED
  BY <1>3, <1>7, <1>9, <1>11, <1>12, <1>13, <1>14 DEF StorageInv

LEMMA TryDeleteStep == ASSUME StorageInv, TryDelete PROVE StorageInv'
<1>1. phase = "try" /\ command.op = "rm" /\ objects = [p \in first |-> p]
  BY DEF TryDelete, StorageInv, WalkInv
<1>2. CASE Over("failed") /\ UNCHANGED objects
  BY <1>2, FailureStays
<1>3. CASE Finds(from) /\ objects' = Without({from}) /\ Over("ok")
  <2>1. UNCHANGED <<first, command>>
    BY <1>3 DEF Over
  <2>2. Asked = {from} /\ Asked' = Asked
    BY <1>1, <1>3, <2>1, GivenMeans DEF Asked, Finds
  <2>3. ObjectTypes' /\ \A p, q : StaysAt(p, q)' <=> StaysAt(p, q) /\ q \notin {from}
    BY <1>3, <2>1, ObjectsRemoved DEF StorageInv, StorageTypes
  <2>4. Spared'
    BY <2>1, <2>2, <2>3 DEF Spared, StorageInv
  <2>5. Done'
    BY <1>1, <1>3, <2>1, <2>2, <2>3 DEF Done, Over
  <2> QED
    BY <1>3, <2>3, <2>4, <2>5, StorageEnds
<1>4. CASE from # <<>> /\ ~Finds(from) /\ ~command.recursive /\ Over("ok") /\ UNCHANGED objects
  <2>1. UNCHANGED <<first, command>>
    BY <1>4 DEF Over
  <2>2. Asked' = {}
    BY <1>1, <1>4, <2>1, GivenMeans DEF Asked, Finds
  <2>3. ObjectTypes' /\ Spared'
    BY <1>4, <2>1, SameObjects DEF StorageInv, StorageTypes
  <2>4. Done'
    BY <1>1, <1>4, <2>1, <2>2 DEF Done, Over
  <2> QED
    BY <1>4, <2>3, <2>4, StorageEnds
<1>5. CASE ~Finds(from) /\ command.recursive /\ StartsWalk
  BY <1>1, <1>5, WalkBegins
<1> QED
  BY <1>2, <1>3, <1>4, <1>5 DEF TryDelete

LEMMA TryMoveStep == ASSUME StorageInv, TryMove PROVE StorageInv'
<1>1. phase = "try" /\ command.op = "mv" /\ objects = [p \in first |-> p]
  BY DEF TryMove, StorageInv, WalkInv
<1>2. CASE Over("failed") /\ UNCHANGED objects
  BY <1>2, FailureStays
<1>3. CASE CanMove(from, command.to) /\ objects' = Moved(from, command.to) /\ Over("ok")
  <2>1. UNCHANGED <<first, command>>
    BY <1>3 DEF Over
  <2>2. from \in first /\ Asked = {from} /\ Asked' = Asked
    BY <1>1, <1>3, <2>1, GivenMeans DEF Asked, Finds, CanMove
  <2>3. from \in Seq(Names) /\ to \in Seq(Names) /\ to = command.to
    BY DEF StorageInv, StorageTypes, to
  <2>4. /\ ObjectTypes' /\ \A r : StaysAt(r, from) => StaysAt(r, to)'
        /\ \A r, s : s \notin {from, to} => (StaysAt(r, s)' <=> StaysAt(r, s))
    <3>1. from' = from /\ to' = to
      BY <2>1, GivenMeans
    <3>2. /\ ObjectTypes' /\ \A r : StaysAt(r, from) => StaysAt(r, to)'
          /\ \A r, s : s \notin {from, to} => (StaysAt(r, s)' <=> StaysAt(r, s))
      <4> DEFINE p == from
                 q == to
      <4> HIDE DEF p, q
      <4>1. CanMove(p, q) /\ objects' = Moved(p, q) /\ q \in Seq(Names)
        BY <1>3, <2>3 DEF p, q
      <4>2. /\ ObjectTypes' /\ \A r : StaysAt(r, p) => StaysAt(r, q)'
            /\ \A r, s : s \notin {p, q} => (StaysAt(r, s)' <=> StaysAt(r, s))
        BY <2>1, <3>1, <4>1, ObjectMoved DEF StorageInv, StorageTypes, p, q
      <4> QED
        BY <3>1, <4>2 DEF p, q
    <3> QED
      BY <3>2
  <2>5. Spared'
    <3>1. ASSUME NEW p \in first \ {from} PROVE StaysAt(p, p)'
      <4>1. p # to
        BY <1>1, <1>3, <2>3, <3>1 DEF CanMove, Finds
      <4>2. StaysAt(p, p)
        BY <2>2 DEF StorageInv, Spared
      <4> QED
        BY <2>4, <4>1, <4>2
    <3> QED
      BY <2>1, <2>2, <3>1 DEF Spared
  <2>6. Done'
    <3>1. StaysAt(from, from)
      BY <1>1, <2>2 DEF StaysAt, Finds
    <3>2. IsPrefix(from, from)
      BY <2>3, PrefixOrder
    <3>3. Destination(from) = to
      BY <2>3, <3>2, Destinations
    <3>4. Destination(from)' = to
      BY <2>1, <3>3, GivenMeans
    <3>5. \A p \in Asked : StaysAt(p, Destination(p))'
      BY <2>1, <2>2, <2>4, <3>1, <3>4, GivenMeans
    <3> QED
      BY <1>1, <1>3, <2>1, <2>2, <3>5 DEF Done, Over
  <2> QED
    BY <1>3, <2>4, <2>5, <2>6, StorageEnds
<1>4. CASE ~Finds(from) /\ command.recursive /\ StartsWalk
  BY <1>1, <1>4, WalkBegins
<1> QED
  BY <1>2, <1>3, <1>4 DEF TryMove

\* A step of the walk that changes no object has only to keep what the walk
\* comes to, and what it never comes to.
LEMMA WalkGoesOn ==
  ASSUME StorageInv, Walking, phase' # "over",
         UNCHANGED <<objects, first, command, outcome>>,
         \A p \in DOMAIN objects : Pending(p) => Pending(p)',
         \A q \in Seq(Names) : Unreached(q) => Unreached(q)'
  PROVE  Removing' /\ Moving' /\ Spared' /\ Done'
<1>1. /\ from' = from /\ to' = to /\ Asked' = Asked /\ (MovesBack <=> MovesBack')
      /\ \A p : Destination(p)' = Destination(p)
  BY GivenMeans
<1>2. /\ \A p, q : StaysAt(p, q)' <=> StaysAt(p, q)
      /\ MovesIntoItself <=> MovesIntoItself'
      /\ Spared => Spared'
  BY SameObjects
<1>3. \A p, q : StaysAt(p, q) => q \in DOMAIN objects
  BY DEF StaysAt, Finds
<1>4. Removing'
  BY <1>1, <1>2, <1>3 DEF Removing, StorageInv
<1>5. Moving'
  <2>1. SUFFICES ASSUME Moving, ~MovesIntoItself, ~MovesBack, command.op = "mv",
                        NEW p \in Asked
                 PROVE  \/ StaysAt(p, p)' /\ Pending(p)'
                        \/ (StaysAt(p, Destination(p)) /\ Unreached(Destination(p)))'
    BY <1>1, <1>2 DEF Moving, StorageInv
  <2>2. CASE StaysAt(p, p) /\ Pending(p)
    BY <1>2, <1>3, <2>2
  <2>3. CASE StaysAt(p, Destination(p)) /\ Unreached(Destination(p))
    <3> DEFINE q == Destination(p)
    <3>1. q \in Seq(Names)
      BY <1>3, <2>3 DEF StorageInv, StorageTypes, ObjectTypes, Stored
    <3>2. q' = q
      BY <1>1
    <3> HIDE DEF q
    <3>3. StaysAt(p, q)' /\ Unreached(q)'
      <4>1. StaysAt(p, q) /\ Unreached(q)
        BY <2>3 DEF q
      <4> QED
        BY <1>2, <3>1, <3>2, <4>1
    <3> QED
      BY <3>3 DEF q
  <2> QED
    BY <2>1, <2>2, <2>3 DEF Moving
<1>6. Done'
  BY DEF StorageInv, WalkInv, Walking, Done
<1> QED
  BY <1>2, <1>4, <1>5, <1>6 DEF StorageInv

LEMMA PopDirectoryStep == ASSUME StorageInv, PopDirectory PROVE StorageInv'
<1>1. /\ phase = "pop" /\ dirs # <<>> /\ dir' = Last(dirs) /\ dirs' = Front(dirs)
      /\ phase' = "list" /\ pages' = 0 /\ paths' = <<>>
      /\ UNCHANGED <<objects, first, command, outcome>>
  BY DEF PopDirectory
<1>2. from' = from /\ to' = to /\ (Inside <=> Inside')
  BY <1>1, GivenMeans
<1>3. /\ dirs \in Seq(Seq(Names)) /\ from \in Seq(Names) /\ ObjectTypes'
  BY <1>1, SameObjects DEF StorageInv, StorageTypes
<1>4. /\ dir' \in Seq(Names) /\ dirs' \in Seq(Seq(Names))
      /\ dir' \in Queued /\ Queued' \subseteq Queued /\ Queued \subseteq Queued' \cup {dir'}
  BY <1>1, <1>3, Members DEF Queued
<1>5. Found' = {}
  BY <1>1 DEF Found, ToSet
<1>6. Walking /\ Walking' /\ Reading' /\ ~Reading
  BY <1>1 DEF Walking, Reading
<1>7. StorageTypes'
  BY <1>1, <1>2, <1>3, <1>4 DEF StorageInv, StorageTypes
<1>8. WalkInv'
  BY <1>1, <1>2, <1>4, <1>6 DEF StorageInv, WalkInv
<1>9. ASSUME NEW p \in DOMAIN objects, Pending(p) PROVE Pending(p)'
  <2>1. PICK d \in Queued : IsStrictPrefix(d, p)
    BY <1>6, <1>9 DEF Pending
  <2>2. CASE d \in Queued'
    BY <2>1, <2>2 DEF Pending
  <2>3. CASE d = dir'
    <3>1. Stored /\ d \in Seq(Names) /\ IsStrictPrefix(d, p)
      BY <1>4, <2>1, <2>3 DEF ObjectTypes, StorageInv, StorageTypes
    <3>2. EntryIn(d, p) \in Entries(d)
      BY <3>1, EntriesAreListed
    <3>3. Rank(EntryIn(d, p), Entries(d), Earlier(Entries(d))) \in Nat
      BY <3>1, <3>2, PageOfListing
    <3>4. PAGE_LIMIT * pages' = 0
      BY <1>1, StorageAssumption
    <3>5. /\ EntryOf(p)' = EntryIn(d, p)
          /\ RankOf(EntryOf(p))' = Rank(EntryIn(d, p), Entries(d), Earlier(Entries(d)))
      BY <1>1, <2>3 DEF EntryOf, RankOf, EntryIn, Entries
    <3>6. RankOf(EntryOf(p))' >= PAGE_LIMIT * pages'
      BY <3>3, <3>4, <3>5
    <3> QED
      BY <1>1, <1>6, <2>1, <2>3, <3>6 DEF Pending
  <2> QED
    BY <1>4, <2>2, <2>3
<1>10. ASSUME NEW q \in Seq(Names), Unreached(q) PROVE Unreached(q)'
  BY <1>4, <1>5, <1>10 DEF Unreached
<1>11. Removing' /\ Moving' /\ Spared' /\ Done'
  BY <1>1, <1>6, <1>9, <1>10, WalkGoesOn
<1>12. FirstListed'
  <2>1. ASSUME from \in Queued' PROVE FALSE
    <3>1. dirs = <<from>>
      BY <1>4, <1>6, <2>1 DEF FirstListed, StorageInv
    <3>2. Front(dirs) = <<>>
      BY <1>3, <3>1 DEF Front
    <3> QED
      BY <1>1, <2>1, <3>2 DEF Queued, ToSet
  <2>2. dir' = from => Unmoved'
    BY <1>1, <1>4, <1>6, SameObjects DEF FirstListed, StorageInv
  <2> QED
    BY <1>2, <2>1, <2>2 DEF FirstListed
<1>13. Aside'
  <2>1. MovesIntoItself <=> MovesIntoItself'
    BY <1>1, SameObjects
  <2> QED
    BY <1>2, <1>4, <1>5, <1>6, <2>1 DEF Aside, StorageInv
<1> QED
  BY <1>7, <1>8, <1>11, <1>12, <1>13 DEF StorageInv

LEMMA ListObjectsStep == ASSUME StorageInv, ListObjects PROVE StorageInv'
<1> DEFINE page == Page(dir, pages)
<1>1. /\ phase = "list" /\ paths' = paths \o page
      /\ phase' = IF IsFull(page) THEN "list" ELSE "act"
      /\ pages' = pages + 1
      /\ UNCHANGED <<objects, first, command, dirs, dir, outcome>>
  BY DEF ListObjects
<1>2. from' = from /\ to' = to /\ (Inside <=> Inside')
  BY <1>1, GivenMeans
<1>3. /\ Stored /\ ObjectTypes' /\ pages \in Nat /\ dir \in Seq(Names) /\ paths \in Seq(AnEntry)
      /\ from \in Seq(Names) /\ to \in Seq(Names)
  BY <1>1, SameObjects DEF StorageInv, StorageTypes, ObjectTypes
<1>4. /\ page \in Seq(AnEntry) /\ ToSet(page) \subseteq Entries(dir)
      /\ \A e \in Entries(dir) : RankOf(e) >= PAGE_LIMIT * pages =>
           e \in ToSet(page) \/ (RankOf(e) >= PAGE_LIMIT * (pages + 1) /\ IsFull(page))
  BY <1>3, PageOfListing DEF RankOf
<1> HIDE DEF page
<1>5. paths' \in Seq(AnEntry) /\ Found' = Found \cup ToSet(page)
  <2>1. \A t \in Seq(AnEntry) :
          paths \o t \in Seq(AnEntry) /\ ToSet(paths \o t) = ToSet(paths) \cup ToSet(t)
    BY <1>3, Members
  <2> QED
    BY <1>1, <1>4, <2>1 DEF Found
<1>6. /\ Walking /\ Walking' /\ Reading /\ Reading' /\ Queued' = Queued
      /\ \A e : RankOf(e)' = RankOf(e) /\ Path(e)' = Path(e)
      /\ \A p : EntryOf(p)' = EntryOf(p)
  BY <1>1 DEF Walking, Reading, Queued, RankOf, Entries, Path, EntryOf
<1>7. StorageTypes'
  BY <1>1, <1>2, <1>3, <1>5 DEF StorageInv, StorageTypes
<1>8. WalkInv'
  BY <1>1, <1>2, <1>6 DEF StorageInv, WalkInv
<1>9. ASSUME NEW p \in DOMAIN objects, Pending(p) PROVE Pending(p)'
  <2>1. CASE \E d \in Queued : IsStrictPrefix(d, p)
    BY <1>6, <2>1 DEF Pending
  <2>2. CASE IsStrictPrefix(dir, p) /\ EntryOf(p) \in Found
    BY <1>1, <1>5, <1>6, <2>2 DEF Pending
  <2>3. CASE IsStrictPrefix(dir, p) /\ RankOf(EntryOf(p)) >= PAGE_LIMIT * pages
    <3>1. EntryOf(p) \in Entries(dir)
      BY <1>3, <2>3, EntriesAreListed DEF EntryOf
    <3>2. CASE EntryOf(p) \in ToSet(page)
      BY <1>1, <1>5, <1>6, <2>3, <3>2 DEF Pending
    <3>3. CASE RankOf(EntryOf(p)) >= PAGE_LIMIT * (pages + 1) /\ IsFull(page)
      BY <1>1, <1>6, <2>3, <3>3 DEF Pending
    <3> QED
      BY <1>4, <2>3, <3>1, <3>2, <3>3
  <2> QED
    BY <1>9, <2>1, <2>2, <2>3 DEF Pending
<1>10. \A e \in ToSet(page) : e \in Entries(dir) /\ e.name \in Names
  <2>1. Entries(dir) \subseteq AnEntry
    BY <1>3, EntriesAreListed
  <2> QED
    BY <1>4, <2>1 DEF AnEntry
<1>11. ASSUME NEW q \in Seq(Names), Unreached(q) PROVE Unreached(q)'
  <2>1. \A e \in ToSet(page) : ~IsPrefix(Path(e), q)
    <3>1. ASSUME NEW e \in ToSet(page), IsPrefix(Path(e), q) PROVE FALSE
      <4>1. e.name \in Names
        BY <1>10, <3>1
      <4>2. IsStrictPrefix(dir, q)
        BY <1>3, <3>1, <4>1, AppendElements DEF Path
      <4> QED
        BY <1>1, <1>11, <4>2 DEF Unreached
    <3> QED
      BY <3>1
  <2> QED
    BY <1>1, <1>5, <1>6, <1>11, <2>1 DEF Unreached
<1>12. Removing' /\ Moving' /\ Spared' /\ Done'
  BY <1>1, <1>6, <1>9, <1>11, WalkGoesOn
<1>13. Unmoved' <=> Unmoved
  BY <1>1, SameObjects
<1>14. FirstListed'
  BY <1>1, <1>2, <1>6, <1>13 DEF FirstListed, StorageInv
<1>15. Aside'
  <2>1. MovesIntoItself <=> MovesIntoItself'
    BY <1>1, SameObjects
  <2>2. ASSUME Inside, ~MovesIntoItself, NEW e \in ToSet(page), IsPrefix(to, Path(e))
        PROVE  FALSE
    <3>1. ~IsPrefix(to, dir) /\ IsPrefix(from, dir)
      BY <1>6, <2>2 DEF StorageInv, Aside, WalkInv
    <3>2. e \in Entries(dir) /\ e.name \in Names
      BY <1>10, <2>2
    <3>3. /\ Path(e) \in Seq(Names) /\ Len(Path(e)) = Len(dir) + 1
          /\ IsPrefix(dir, Path(e))
      BY <1>3, <3>2, AppendElements DEF Path, IsStrictPrefix
    <3>4. Len(to) = Len(dir) + 1
      <4>1. Len(to) \in Nat /\ Len(dir) \in Nat /\ Len(to) <= Len(dir) + 1
        BY <1>3, <2>2, <3>3, PrefixOrder, LenProperties
      <4>2. ~(Len(to) <= Len(dir))
        BY <1>3, <2>2, <3>1, <3>3, PrefixOrder
      <4> QED
        BY <4>1, <4>2
    <3>5. to = Path(e)
      BY <1>3, <2>2, <3>3, <3>4, PrefixOrder
    <3>6. dir = from
      <4>1. Len(from) \in Nat /\ Len(dir) \in Nat /\ Len(from) = Len(dir)
        BY <1>3, <2>2, <3>4, LenProperties DEF Inside
      <4> QED
        BY <1>3, <3>1, <4>1, PrefixOrder
    <3>7. Unmoved
      BY <1>1, <3>6 DEF FirstListed, StorageInv
    <3>8. PICK p \in DOMAIN objects : IsStrictPrefix(dir, p) /\ e = EntryIn(dir, p)
      BY <1>3, <3>2, EntriesAreListed
    <3>9. p \in Seq(Names)
      BY <1>3 DEF Stored
    <3>10. IsPrefix(to, p)
      <4>1. p[Len(dir) + 1] = e.name
        BY <3>8 DEF EntryIn
      <4> QED
        BY <1>3, <3>2, <3>5, <3>8, <3>9, <4>1, AppendElements DEF Path
    <3>11. objects[p] # <<>>
      BY <2>2 DEF MovesIntoItself, Inside, to
    <3>12. p \in first
      <4>1. objects[p] = p
        BY <3>7, <3>11 DEF Unmoved
      <4> QED
        BY <3>11, <4>1 DEF StorageInv, StorageTypes, ObjectTypes
    <3> QED
      BY <2>2, <3>10, <3>12 DEF MovesIntoItself, Inside, to
  <2>3. ASSUME Inside, ~MovesIntoItself
        PROVE  /\ \A d \in Queued : ~IsPrefix(to, d)
               /\ ~IsPrefix(to, dir) /\ \A e \in Found : ~IsPrefix(to, Path(e))
    BY <1>6, <2>3 DEF Aside, StorageInv
  <2>4. ASSUME Inside, ~MovesIntoItself PROVE \A e \in Found' : ~IsPrefix(to, Path(e))
    BY <1>5, <2>2, <2>3, <2>4
  <2> QED
    BY <1>1, <1>2, <1>6, <2>1, <2>3, <2>4 DEF Aside
<1> QED
  BY <1>7, <1>8, <1>12, <1>14, <1>15 DEF StorageInv

\* An upload adds an entry at most to what is listed, and moves no other forward.
LEMMA UploadStep == ASSUME StorageInv, Upload PROVE StorageInv'
<1>1. /\ phase \notin {"try", "over"}
      /\ UNCHANGED <<first, command, phase, dirs, dir, pages, paths, count, outcome>>
  BY DEF Upload
<1>2. /\ from' = from /\ to' = to /\ Asked' = Asked /\ (MovesBack <=> MovesBack')
      /\ \A p : Destination(p)' = Destination(p)
      /\ Inside <=> Inside'
  BY <1>1, GivenMeans
<1>3. /\ ObjectTypes' /\ DOMAIN objects \subseteq DOMAIN objects'
      /\ \A r, s : StaysAt(r, s) => StaysAt(r, s)'
      /\ \A r, s : r # <<>> => (StaysAt(r, s)' => StaysAt(r, s))
      /\ MovesIntoItself => MovesIntoItself'
      /\ Unmoved => Unmoved'
  BY ObjectUploaded DEF StorageInv, StorageTypes
<1>4. Stored /\ dir \in Seq(Names) /\ first \subseteq Seq(Names) \ {<<>>}
  BY DEF StorageInv, StorageTypes, ObjectTypes
<1>5. /\ Queued' = Queued /\ Found' = Found /\ (Walking <=> Walking') /\ (Reading <=> Reading')
      /\ \A e : Path(e)' = Path(e)
      /\ \A p : EntryOf(p)' = EntryOf(p)
  BY <1>1 DEF Queued, Found, Walking, Reading, Path, EntryOf
<1>6. StorageTypes' /\ WalkInv'
  BY <1>1, <1>2, <1>3, <1>5 DEF StorageInv, StorageTypes, WalkInv
<1>7. ASSUME NEW e \in Entries(dir)
      PROVE  RankOf(e) <= RankOf(e)' /\ RankOf(e) \in Nat /\ RankOf(e)' \in Nat
  <2> DEFINE S == Entries(dir)
             T == Entries(dir)'
  <2>1. PICK p : DOMAIN objects' = DOMAIN objects \cup {p}
    BY DEF Upload
  <2>2. S \subseteq T
    BY <1>1, <1>3 DEF Entries
  <2>3. T \in SUBSET (S \cup {EntryIn(dir, p)})
    BY <1>1, <2>1 DEF Entries, EntryIn
  <2>4. RankOf(e) = Rank(e, S, Earlier(S)) /\ RankOf(e)' = Rank(e, T, Earlier(T))
    BY DEF RankOf
  <2>5. IsFiniteSet(S) /\ e \in S
    BY <1>4, EntriesAreListed
  <2> HIDE DEF S, T
  <2>6. IsFiniteSet(T)
    <3>1. IsFiniteSet(S \cup {EntryIn(dir, p)})
      BY <2>5, FS_AddElement
    <3> QED
      BY <2>3, <3>1, FS_Subset
  <2> QED
    BY <2>2, <2>4, <2>5, <2>6, RankGrows
<1>8. ASSUME NEW p \in DOMAIN objects, Pending(p) PROVE Pending(p)'
  <2>1. CASE \E d \in Queued : IsStrictPrefix(d, p)
    BY <1>5, <2>1 DEF Pending
  <2>2. CASE Reading /\ IsStrictPrefix(dir, p) /\ EntryOf(p) \in Found
    BY <1>1, <1>5, <2>2 DEF Pending
  <2>3. CASE /\ phase = "list" /\ IsStrictPrefix(dir, p)
             /\ RankOf(EntryOf(p)) >= PAGE_LIMIT * pages
    <3>1. EntryOf(p) \in Entries(dir)
      BY <1>4, <2>3, EntriesAreListed DEF EntryOf
    <3>2. PAGE_LIMIT * pages \in Nat
      <4>1. pages \in Nat
        BY DEF StorageInv, StorageTypes
      <4> QED
        BY <4>1, StorageAssumption
    <3>3. RankOf(EntryOf(p))' >= PAGE_LIMIT * pages
      BY <1>5, <1>7, <2>3, <3>1, <3>2
    <3> QED
      BY <1>1, <1>5, <2>3, <3>3 DEF Pending, Reading
  <2> QED
    BY <1>8, <2>1, <2>2, <2>3 DEF Pending
<1>9. \A q : Unreached(q) => Unreached(q)'
  BY <1>1, <1>5 DEF Unreached
<1>10. \A p, q : StaysAt(p, q) => q \in DOMAIN objects
  BY DEF StaysAt, Finds
<1>11. Asked \subseteq first
  BY DEF Asked
<1>12. Removing'
  BY <1>1, <1>2, <1>3, <1>4, <1>5, <1>8, <1>10, <1>11 DEF Removing, StorageInv
<1>13. Moving'
  <2>1. SUFFICES ASSUME Moving, ~MovesIntoItself, ~MovesBack, command.op = "mv", Walking,
                        NEW p \in Asked
                 PROVE  \/ StaysAt(p, p)' /\ Pending(p)'
                        \/ (StaysAt(p, Destination(p)) /\ Unreached(Destination(p)))'
    BY <1>1, <1>2, <1>3, <1>5 DEF Moving, StorageInv
  <2>2. CASE StaysAt(p, p) /\ Pending(p)
    BY <1>3, <1>8, <1>10, <2>2
  <2>3. CASE StaysAt(p, Destination(p)) /\ Unreached(Destination(p))
    BY <1>2, <1>3, <1>9, <2>3
  <2> QED
    BY <2>1, <2>2, <2>3 DEF Moving
<1>14. FirstListed' /\ Aside'
  BY <1>1, <1>2, <1>3, <1>5 DEF FirstListed, Aside, StorageInv
<1>15. Spared'
  BY <1>1, <1>2, <1>3 DEF Spared, StorageInv
<1>16. Done'
  BY <1>1 DEF Done, StorageInv, WalkInv
<1> QED
  BY <1>6, <1>12, <1>13, <1>14, <1>15, <1>16 DEF StorageInv

\* After the last directory nothing is pending.
LEMMA FinishStep == ASSUME StorageInv, Finish PROVE StorageInv'
<1>1. /\ phase = "pop" /\ dirs = <<>> /\ objects' = objects
      /\ \E how \in {"ok", "failed"} : Over(how)
  BY DEF Finish
<1>2. PICK how \in {"ok", "failed"} : Over(how)
  BY <1>1
<1>3. UNCHANGED <<objects, first, command>>
  BY <1>1, <1>2 DEF Over
<1>4. Walking /\ ~Reading /\ Queued = {}
  BY <1>1 DEF Walking, Reading, Queued, ToSet
<1>5. \A p : ~Pending(p)
  BY <1>4 DEF Pending
<1>6. /\ Asked' = Asked /\ (MovesBack <=> MovesBack')
      /\ \A p : Destination(p)' = Destination(p)
  BY <1>3, GivenMeans
<1>7. /\ ObjectTypes' /\ Spared' /\ (MovesIntoItself <=> MovesIntoItself')
      /\ \A p, q : StaysAt(p, q)' <=> StaysAt(p, q)
  BY <1>3, SameObjects DEF StorageInv, StorageTypes
<1>8. Done'
  <2>1. command.op = "rm" => \A p \in Asked : ~StaysAt(p, p)
    BY <1>4, <1>5 DEF StorageInv, Removing
  <2>2. command.op = "mv" /\ ~MovesIntoItself /\ ~MovesBack =>
          \A p \in Asked : StaysAt(p, Destination(p))
    BY <1>4, <1>5 DEF StorageInv, Moving
  <2>3. \A p : StaysAt(p, Destination(p)) => StaysAt(p, Destination(p))'
    BY <1>6, <1>7
  <2>4. outcome' \in {"ok", "failed"}
    BY <1>2 DEF Over
  <2> QED
    BY <1>3, <1>6, <1>7, <2>1, <2>2, <2>3, <2>4 DEF Done
<1> QED
  BY <1>2, <1>7, <1>8, StorageEnds

\* The entry of an object is the object, or a directory above it.
LEMMA EntryLeads ==
  ASSUME dir \in Seq(Names), NEW p \in Seq(Names), IsStrictPrefix(dir, p)
  PROVE  /\ EntryOf(p).isDir => IsStrictPrefix(Path(EntryOf(p)), p)
         /\ ~EntryOf(p).isDir => Path(EntryOf(p)) = p
<1> DEFINE x == p[Len(dir) + 1]
           q == Append(dir, x)
<1>1. Len(dir) \in Nat /\ Len(p) \in Nat /\ Len(dir) < Len(p)
  BY PrefixElements
<1>2. x \in Names
  BY <1>1, ElementOfSeq
<1>3. Path(EntryOf(p)) = q
  BY DEF Path, EntryOf, EntryIn
<1>4. q \in Seq(Names) /\ Len(q) = Len(dir) + 1 /\ IsPrefix(q, p)
  BY <1>2, AppendElements
<1> HIDE DEF q
<1>5. EntryOf(p).isDir = (Len(p) > Len(dir) + 1)
  BY DEF EntryOf, EntryIn
<1>6. ASSUME Len(p) > Len(dir) + 1 PROVE IsStrictPrefix(q, p)
  BY <1>1, <1>4, <1>6, PrefixOrder
<1>7. ASSUME ~(Len(p) > Len(dir) + 1) PROVE q = p
  <2>1. Len(p) = Len(q)
    BY <1>1, <1>4, <1>7
  <2> QED
    BY <1>4, <2>1, PrefixOrder
<1> QED
  BY <1>3, <1>5, <1>6, <1>7, Zenon

\* What is removed is below the given directory, and pending no more.
LEMMA DeleteObjectsStep == ASSUME StorageInv, DeleteObjects PROVE StorageInv'
<1>1. phase = "act" /\ command.op = "rm"
  BY DEF DeleteObjects
<1>2. CASE Over("failed") /\ UNCHANGED objects
  BY <1>2, FailureStays
<1>3. CASE /\ dirs' = dirs \o DirsOf(paths) /\ objects' = Without(FilesOf(paths))
           /\ phase' = "pop" /\ paths' = <<>>
           /\ UNCHANGED <<first, command, dir, pages, count, outcome>>
  <2>1. from' = from /\ to' = to /\ Asked' = Asked /\ (Inside <=> Inside')
    BY <1>3, GivenMeans
  <2>2. /\ dirs \in Seq(Seq(Names)) /\ dir \in Seq(Names) /\ paths \in Seq(AnEntry)
        /\ from \in Seq(Names) /\ to \in Seq(Names) /\ first \subseteq Seq(Names)
    BY DEF StorageInv, StorageTypes
  <2>3. /\ DirsOf(paths) \in Seq(Seq(Names))
        /\ \A q : q \in ToSet(DirsOf(paths)) <=> \E e \in Found : e.isDir /\ q = Path(e)
        /\ \A q : q \in FilesOf(paths) <=> \E e \in Found : ~e.isDir /\ q = Path(e)
    BY <2>2, DirsAndFiles DEF Found
  <2>4. /\ dirs' \in Seq(Seq(Names))
        /\ Queued' = Queued \cup ToSet(DirsOf(paths))
    <3>1. \A t \in Seq(Seq(Names)) :
            dirs \o t \in Seq(Seq(Names)) /\ ToSet(dirs \o t) = ToSet(dirs) \cup ToSet(t)
      BY <2>2, Members
    <3> QED
      BY <1>3, <2>3, <3>1 DEF Queued
  <2>5. Walking /\ Reading /\ Walking' /\ ~Reading' /\ paths' \in Seq(AnEntry)
    BY <1>1, <1>3 DEF Walking, Reading
  <2>6. /\ command.recursive /\ from \notin first /\ IsPrefix(from, dir)
        /\ \A d \in Queued : IsPrefix(from, d)
        /\ outcome = "none"
    BY <1>1, <2>5 DEF StorageInv, WalkInv
  <2>7. /\ ObjectTypes'
        /\ Unmoved => Unmoved'
        /\ \A p, q : StaysAt(p, q)' <=> StaysAt(p, q) /\ q \notin FilesOf(paths)
    BY <1>3, ObjectsRemoved DEF StorageInv, StorageTypes
  <2>8. \A e \in Found : /\ e.name \in Names /\ Path(e) \in Seq(Names)
                         /\ IsStrictPrefix(from, Path(e)) /\ IsPrefix(from, Path(e))
    <3>1. \A e \in Found : e \in AnEntry
      BY <2>2, Members DEF Found
    <3>2. \A e \in Found : e.name \in Names
      BY <3>1 DEF AnEntry
    <3> QED
      BY <2>2, <2>6, <3>2, AppendElements DEF Path, IsStrictPrefix
  <2>9. StorageTypes'
    BY <1>3, <2>1, <2>2, <2>4, <2>5, <2>7 DEF StorageInv, StorageTypes
  <2>10. WalkInv'
    BY <1>3, <2>1, <2>3, <2>4, <2>5, <2>6, <2>8 DEF StorageInv, WalkInv
  <2>11. Removing'
    <3>1. SUFFICES ASSUME NEW p \in Asked, StaysAt(p, p)' PROVE Pending(p)'
      BY <2>1 DEF Removing
    <3>2. StaysAt(p, p) /\ p \notin FilesOf(paths) /\ p \in Seq(Names)
      BY <2>2, <2>7, <3>1 DEF Asked
    <3>3. Pending(p)
      BY <1>1, <2>5, <3>2 DEF StorageInv, Removing
    <3>4. CASE \E d \in Queued : IsStrictPrefix(d, p)
      BY <2>4, <3>4 DEF Pending
    <3>5. CASE IsStrictPrefix(dir, p) /\ EntryOf(p) \in Found
      <4>1. CASE EntryOf(p).isDir
        <5>1. IsStrictPrefix(Path(EntryOf(p)), p)
          BY <2>2, <3>2, <3>5, <4>1, EntryLeads
        <5> QED
          BY <2>3, <2>4, <3>5, <4>1, <5>1 DEF Pending
      <4>2. CASE ~EntryOf(p).isDir
        <5>1. p = Path(EntryOf(p))
          BY <2>2, <3>2, <3>5, <4>2, EntryLeads
        <5> QED
          BY <2>3, <3>2, <3>5, <4>2, <5>1
      <4> QED
        BY <4>1, <4>2
    <3> QED
      BY <1>1, <3>3, <3>4, <3>5 DEF Pending
  <2>12. Moving' /\ Aside'
    BY <1>1, <1>3 DEF Moving, Aside, Inside
  <2>13. FirstListed'
    <3>1. from \notin Queued
      BY <1>1, <2>5 DEF StorageInv, FirstListed
    <3>2. from \notin Queued'
      BY <2>3, <2>4, <2>8, <3>1 DEF IsStrictPrefix
    <3> QED
      BY <1>3, <2>1, <3>2 DEF FirstListed
  <2>14. Spared'
    <3>1. SUFFICES ASSUME NEW p \in first \ Asked PROVE StaysAt(p, p)'
      BY <1>3, <2>1 DEF Spared
    <3>2. ~IsStrictPrefix(from, p) /\ StaysAt(p, p)
      BY <2>6, <3>1 DEF Asked, IsBelow, StorageInv, Spared
    <3> QED
      BY <2>3, <2>7, <2>8, <3>2
  <2>15. Done'
    BY <1>3, <2>6 DEF Done
  <2> QED
    BY <2>9, <2>10, <2>11, <2>12, <2>13, <2>14, <2>15 DEF StorageInv
<1> QED
  BY <1>2, <1>3 DEF DeleteObjects

\* What a move puts somewhere it does not come to again, unless it moves into
\* the source or back to it.
LEMMA MovedAway ==
  ASSUME StorageInv, phase = "act", command.op = "mv", ~MovesIntoItself, ~MovesBack,
         NEW p \in Asked, NEW f \in Found, p = Path(f)
  PROVE  Destination(p) \in Seq(Names) /\ Unreached(Destination(p))
<1> DEFINE q == Destination(p)
<1>1. /\ from \in Seq(Names) /\ to \in Seq(Names) /\ dir \in Seq(Names)
      /\ paths \in Seq(AnEntry) /\ dirs \in Seq(Seq(Names)) /\ first \subseteq Seq(Names)
  BY DEF StorageInv, StorageTypes
<1>2. Walking /\ Reading
  BY DEF Walking, Reading
<1>3. /\ from \notin first /\ IsPrefix(from, dir) /\ \A d \in Queued : IsPrefix(from, d)
      /\ IsPrefix(from, to) => Len(to) <= Len(from) + 1
  BY <1>2 DEF StorageInv, WalkInv
<1>4. p \in first /\ p \in Seq(Names) /\ IsStrictPrefix(from, p) /\ IsPrefix(from, p)
  BY <1>1, <1>3 DEF Asked, IsBelow, IsStrictPrefix
<1>5. Len(from) \in Nat /\ Len(to) \in Nat /\ Len(p) \in Nat /\ Len(dir) \in Nat
  BY <1>1, <1>4, LenProperties
<1>6. \A e \in Found : e.name \in Names
  <2>1. Found \subseteq AnEntry
    BY <1>1, Members DEF Found
  <2> QED
    BY <2>1 DEF AnEntry
<1>7. \A e \in Found : /\ Path(e) \in Seq(Names) /\ IsStrictPrefix(from, Path(e))
                       /\ Len(Path(e)) = Len(dir) + 1
  BY <1>1, <1>3, <1>6, AppendElements DEF Path
<1>8. \A d \in Queued : d \in Seq(Names) /\ IsStrictPrefix(from, d)
  <2>1. Queued \subseteq Seq(Names)
    BY <1>1, Members DEF Queued
  <2>2. from \notin Queued
    BY <1>2 DEF StorageInv, FirstListed
  <2> QED
    BY <1>3, <2>1, <2>2 DEF IsStrictPrefix
<1>9. q \in Seq(Names) /\ IsPrefix(to, q) /\ Len(q) = Len(to) + (Len(p) - Len(from))
  BY <1>1, <1>4, Destinations DEF to
<1> HIDE DEF q
\* Something in the queue, or found, that is at or above the destination.
<1>10. ASSUME NEW x \in Seq(Names), IsStrictPrefix(from, x), IsPrefix(x, q),
              \/ x \in Queued /\ x # q
              \/ \E e \in Found : x = Path(e)
       PROVE  FALSE
  <2>1. /\ IsPrefix(from, x) /\ Len(x) \in Nat /\ Len(x) >= Len(from) + 1
        /\ Len(q) \in Nat /\ Len(x) <= Len(q)
    <3>1. IsPrefix(from, x) /\ Len(from) < Len(x) /\ Len(x) <= Len(q)
      BY <1>1, <1>9, <1>10, PrefixOrder
    <3> QED
      BY <1>5, <1>9, <1>10, <3>1, LenProperties
  <2>2. CASE IsPrefix(from, to)
    <3>1. Len(to) = Len(from) + 1
      <4>1. Len(from) <= Len(to) /\ Len(to) <= Len(from) + 1
        BY <1>1, <1>3, <2>2, PrefixOrder
      <4>2. Len(to) # Len(from)
        <5>1. SUFFICES ASSUME Len(to) = Len(from) PROVE FALSE
          OBVIOUS
        <5>2. to = from
          BY <1>1, <2>2, <5>1, PrefixOrder
        <5> QED
          BY <1>4, <2>2, <5>2 DEF MovesIntoItself, to
      <4> QED
        BY <1>5, <4>1, <4>2
    <3>2. IsPrefix(to, x)
      BY <1>1, <1>9, <1>10, <2>1, <3>1, PrefixOrder
    <3>3. Inside
      BY <2>2, <3>1 DEF Inside
    <3> QED
      BY <1>2, <1>10, <3>2, <3>3 DEF StorageInv, Aside
  <2>3. CASE ~IsPrefix(from, to)
    <3>1. IsStrictPrefix(from, q) /\ IsPrefix(from, q)
      <4>1. IsPrefix(from, q) /\ Len(from) # Len(q)
        BY <1>1, <1>5, <1>9, <1>10, <2>1, PrefixOrder
      <4> QED
        BY <4>1 DEF IsStrictPrefix
    <3>2. ~(Len(q) > Len(from) + 1)
      BY <2>3, <3>1 DEF MovesBack, IsBelow, q, to
    <3>3. Len(x) = Len(q) /\ Len(q) = Len(from) + 1
      BY <1>5, <2>1, <3>2
    <3>4. x = q
      BY <1>9, <1>10, <3>3, PrefixOrder
    <3>5. PICK e \in Found : x = Path(e)
      BY <1>10, <3>4
    <3>6. Len(dir) = Len(from) /\ Len(p) = Len(from) + 1 /\ Len(to) = Len(from)
      <4>1. Len(x) = Len(dir) + 1 /\ Len(p) = Len(dir) + 1
        BY <1>7, <3>5
      <4> QED
        BY <1>5, <1>9, <3>3, <4>1
    <3>7. IsPrefix(from, to)
      BY <1>1, <1>5, <1>9, <3>1, <3>6, PrefixOrder
    <3> QED
      BY <2>3, <3>7
  <2> QED
    BY <2>2, <2>3
<1>11. \A d \in Queued : ~IsStrictPrefix(d, q)
  BY <1>8, <1>10 DEF IsStrictPrefix
<1>12. \A e \in Found : ~IsPrefix(Path(e), q)
  BY <1>7, <1>10
<1>13. Unreached(q)
  BY <1>11, <1>12 DEF Unreached
<1> QED
  BY <1>9, <1>13 DEF q

LEMMA MoveObjectStep == ASSUME StorageInv, MoveObject PROVE StorageInv'
<1>1. /\ phase = "act" /\ command.op = "mv"
      /\ UNCHANGED <<first, command, dir, pages>>
  BY DEF MoveObject
<1>2. /\ from' = from /\ to' = to /\ Asked' = Asked /\ (MovesBack <=> MovesBack')
      /\ \A p : Destination(p)' = Destination(p)
      /\ Inside <=> Inside'
  BY <1>1, GivenMeans
<1>3. /\ dirs \in Seq(Seq(Names)) /\ dir \in Seq(Names) /\ paths \in Seq(AnEntry)
      /\ from \in Seq(Names) /\ to \in Seq(Names) /\ first \subseteq Seq(Names)
      /\ ObjectTypes
  BY DEF StorageInv, StorageTypes
<1>4. Walking /\ Reading
  BY <1>1 DEF Walking, Reading
<1>5. /\ from \notin first /\ IsPrefix(from, dir) /\ \A d \in Queued : IsPrefix(from, d)
      /\ outcome = "none"
  BY <1>1, <1>4 DEF StorageInv, WalkInv
<1>6. /\ \A e : Path(e)' = Path(e)
      /\ \A p : EntryOf(p)' = EntryOf(p)
  BY <1>1 DEF Path, EntryOf
<1>7. from \notin Queued
  BY <1>1, <1>4 DEF StorageInv, FirstListed
<1>8. CASE /\ paths = <<>> /\ phase' = "pop"
           /\ UNCHANGED <<objects, dirs, paths, count, outcome>>
  <2>1. /\ ObjectTypes' /\ (MovesIntoItself <=> MovesIntoItself')
        /\ Queued' = Queued /\ Walking' /\ ~Reading' /\ Found = {}
    BY <1>1, <1>3, <1>8, SameObjects DEF Queued, Walking, Reading, Found, ToSet
  <2>2. StorageTypes' /\ WalkInv'
    BY <1>1, <1>2, <1>4, <1>8, <2>1 DEF StorageInv, StorageTypes, WalkInv
  <2>3. \A p : Pending(p) => Pending(p)'
    BY <1>1, <2>1 DEF Pending
  <2>4. \A q : Unreached(q) => Unreached(q)'
    BY <1>8, <2>1 DEF Unreached
  <2>5. Removing' /\ Moving' /\ Spared' /\ Done'
    BY <1>1, <1>4, <1>8, <2>3, <2>4, WalkGoesOn
  <2>6. FirstListed'
    BY <1>2, <1>7, <1>8, <2>1 DEF FirstListed
  <2>7. Aside'
    BY <1>2, <1>4, <2>1 DEF StorageInv, Aside
  <2> QED
    BY <2>2, <2>5, <2>6, <2>7 DEF StorageInv
<1>9. CASE paths # <<>> /\ paths' = Tail(paths)
  <2> DEFINE f == Head(paths)
             p0 == Path(f)
  <2>1. /\ f \in Found /\ paths' \in Seq(AnEntry)
        /\ Found' \subseteq Found /\ Found \subseteq Found' \cup {f}
    BY <1>3, <1>9, Members DEF Found
  <2>2. \A e \in Found : /\ e.name \in Names /\ Path(e) \in Seq(Names)
                         /\ IsStrictPrefix(from, Path(e)) /\ IsPrefix(from, Path(e))
                         /\ IsPrefix(Path(e), Path(e)) /\ from # Path(e)
    <3>1. \A e \in Found : e \in AnEntry
      BY <1>3, Members DEF Found
    <3>2. \A e \in Found : e.name \in Names
      BY <3>1 DEF AnEntry
    <3> QED
      BY <1>3, <1>5, <3>2, AppendElements, PrefixOrder DEF Path, IsStrictPrefix
  <2>3. CASE f.isDir /\ dirs' = Append(dirs, p0) /\ UNCHANGED <<objects, phase, count, outcome>>
    <3>1. dirs' \in Seq(Seq(Names)) /\ Queued' = Queued \cup {p0}
      <4>1. \A x \in Seq(Names) : /\ Append(dirs, x) \in Seq(Seq(Names))
                                  /\ ToSet(Append(dirs, x)) = ToSet(dirs) \cup {x}
        BY <1>3, Members
      <4>2. p0 \in Seq(Names)
        BY <2>1, <2>2
      <4> HIDE DEF p0
      <4> QED
        BY <2>3, <4>1, <4>2 DEF Queued
    <3>2. Walking' /\ Reading'
      BY <1>4, <2>3 DEF Walking, Reading
    <3>3. ObjectTypes' /\ (MovesIntoItself <=> MovesIntoItself')
      BY <1>1, <1>3, <2>3, SameObjects
    <3>4. StorageTypes'
      BY <1>1, <1>2, <2>1, <3>1, <3>3 DEF StorageInv, StorageTypes
    <3>5. WalkInv'
      BY <1>1, <1>2, <1>4, <2>1, <2>2, <2>3, <3>1 DEF StorageInv, WalkInv
    <3>6. ASSUME NEW p \in DOMAIN objects, Pending(p) PROVE Pending(p)'
      <4>1. CASE \E d \in Queued : IsStrictPrefix(d, p)
        BY <3>1, <4>1 DEF Pending
      <4>2. CASE IsStrictPrefix(dir, p) /\ EntryOf(p) \in Found'
        BY <1>1, <1>6, <3>2, <4>2 DEF Pending
      <4>3. CASE IsStrictPrefix(dir, p) /\ EntryOf(p) = f
        <5>1. p \in Seq(Names)
          BY <1>3 DEF ObjectTypes, Stored
        <5>2. IsStrictPrefix(p0, p)
          BY <1>3, <2>3, <4>3, <5>1, EntryLeads
        <5> QED
          BY <3>1, <5>2 DEF Pending
      <4> QED
        BY <1>1, <2>1, <3>6, <4>1, <4>2, <4>3 DEF Pending
    <3>7. ASSUME NEW q \in Seq(Names), Unreached(q) PROVE Unreached(q)'
      <4>1. ~IsStrictPrefix(p0, q)
        BY <1>4, <2>1, <3>7 DEF Unreached, IsStrictPrefix
      <4> QED
        BY <1>1, <1>4, <1>6, <2>1, <2>3, <3>1, <3>7, <4>1 DEF Unreached
    <3>8. Removing' /\ Moving' /\ Spared' /\ Done'
      BY <1>1, <1>4, <2>3, <3>6, <3>7, WalkGoesOn
    <3>9. FirstListed'
      BY <1>1, <1>2, <1>7, <2>1, <2>2, <2>3, <3>1 DEF FirstListed
    <3>10. Aside'
      BY <1>1, <1>2, <1>4, <1>6, <2>1, <3>1, <3>3 DEF StorageInv, Aside
    <3> QED
      BY <3>4, <3>5, <3>8, <3>9, <3>10 DEF StorageInv
  <2>4. CASE /\ ~f.isDir /\ dirs' = dirs /\ CanMove(p0, Destination(p0))
             /\ objects' = Moved(p0, Destination(p0)) /\ UNCHANGED <<phase, outcome>>
    <3>1. PICK p1, q1 : p1 = p0 /\ q1 = Destination(p0)
      OBVIOUS
    <3>2. /\ p1 \in Seq(Names) /\ q1 \in Seq(Names) /\ IsStrictPrefix(from, p1)
          /\ p1 \in DOMAIN objects /\ q1 \notin DOMAIN objects
          /\ CanMove(p1, q1) /\ objects' = Moved(p1, q1) /\ Destination(p1) = q1
      <4>1. p1 \in Seq(Names) /\ IsPrefix(from, p1) /\ IsStrictPrefix(from, p1)
        BY <2>1, <2>2, <3>1
      <4>2. q1 \in Seq(Names) /\ Destination(p1) = q1
        BY <1>3, <3>1, <4>1, Destinations DEF to
      <4> QED
        BY <2>4, <3>1, <4>1, <4>2 DEF CanMove, Finds
    <3>3. /\ ObjectTypes' /\ (MovesIntoItself => MovesIntoItself')
          /\ \A r : StaysAt(r, p1) => StaysAt(r, q1)'
          /\ \A r, s : s \notin {p1, q1} => (StaysAt(r, s)' <=> StaysAt(r, s))
      BY <1>1, <1>3, <3>2, ObjectMoved
    <3>4. Queued' = Queued /\ Walking' /\ Reading' /\ phase' = "act"
      BY <1>1, <1>4, <2>4 DEF Queued, Walking, Reading
    <3>5. StorageTypes'
      BY <1>1, <1>2, <2>1, <2>4, <3>3 DEF StorageInv, StorageTypes
    <3>6. WalkInv'
      BY <1>1, <1>2, <1>4, <2>4, <3>4 DEF StorageInv, WalkInv
    <3>7. Removing' /\ Done'
      BY <1>1, <1>5, <2>4 DEF Removing, Done
    <3>8. FirstListed' /\ Aside'
      <4>1. FirstListed'
        BY <1>2, <1>7, <3>4 DEF FirstListed
      <4>2. Aside'
        BY <1>1, <1>2, <1>4, <1>6, <2>1, <3>3, <3>4 DEF StorageInv, Aside
      <4> QED
        BY <4>1, <4>2
    <3>9. Spared'
      <4>1. SUFFICES ASSUME NEW p \in first \ Asked PROVE StaysAt(p, p)'
        BY <1>1, <1>2 DEF Spared
      <4>2. ~IsStrictPrefix(from, p) /\ StaysAt(p, p)
        <5>1. command.recursive
          BY <1>4 DEF StorageInv, WalkInv
        <5> QED
          BY <1>5, <4>1, <5>1 DEF Asked, IsBelow, StorageInv, Spared
      <4>3. p \notin {p1, q1}
        BY <3>2, <4>2 DEF StaysAt, Finds
      <4> QED
        BY <3>3, <4>2, <4>3
    <3>10. Moving'
      <4>1. SUFFICES ASSUME ~MovesIntoItself, ~MovesBack, NEW p \in Asked
                     PROVE  \/ StaysAt(p, p)' /\ Pending(p)'
                            \/ (StaysAt(p, Destination(p)) /\ Unreached(Destination(p)))'
        BY <1>2, <3>3 DEF Moving
      <4>2. PICK q : q = Destination(p) /\ q = Destination(p)'
        BY <1>2
      <4>3. Unreached(q) => Unreached(q)'
        BY <1>1, <1>4, <1>6, <2>1, <3>4 DEF Unreached
      <4>4. CASE StaysAt(p, p) /\ Pending(p) /\ p = p1
        <5>1. q = q1 /\ Unreached(q)
          BY <1>1, <2>1, <3>1, <4>1, <4>2, <4>4, MovedAway
        <5>2. StaysAt(p, q)' /\ Unreached(q)'
          BY <3>3, <4>3, <4>4, <5>1
        <5> QED
          BY <4>2, <5>2
      <4>5. CASE StaysAt(p, p) /\ Pending(p) /\ p # p1
        <5>1. p \notin {p1, q1} /\ p \in Seq(Names)
          BY <1>3, <3>2, <4>5 DEF StaysAt, Finds, Asked
        <5>2. StaysAt(p, p)'
          BY <3>3, <4>5, <5>1
        <5>3. CASE \E d \in Queued : IsStrictPrefix(d, p)
          BY <3>4, <5>2, <5>3 DEF Pending
        <5>4. CASE IsStrictPrefix(dir, p) /\ EntryOf(p) \in Found
          <6>1. EntryOf(p) # f
            <7>1. EntryOf(p) = f => p = p0
              BY <1>3, <2>4, <5>1, <5>4, EntryLeads
            <7> QED
              BY <3>1, <4>5, <7>1
          <6> QED
            BY <1>1, <1>6, <2>1, <3>4, <5>2, <5>4, <6>1 DEF Pending
        <5> QED
          BY <1>1, <4>5, <5>3, <5>4 DEF Pending
      <4>6. CASE StaysAt(p, q) /\ Unreached(q)
        <5>1. q # q1
          BY <3>2, <4>6 DEF StaysAt, Finds
        <5>2. q # p1
          BY <1>4, <2>1, <2>2, <3>1, <4>6 DEF Unreached
        <5>3. StaysAt(p, q)' /\ Unreached(q)'
          BY <3>3, <4>3, <4>6, <5>1, <5>2
        <5> QED
          BY <4>2, <5>3
      <4> QED
        BY <1>1, <1>4, <4>1, <4>2, <4>4, <4>5, <4>6 DEF StorageInv, Moving
    <3> QED
      BY <3>5, <3>6, <3>7, <3>8, <3>9, <3>10 DEF StorageInv
  <2>5. CASE /\ ~f.isDir /\ dirs' = dirs
             /\ phase' = "over" /\ outcome' = "failed" /\ UNCHANGED objects
    <3>1. ObjectTypes' /\ Spared'
      BY <1>1, <1>3, <2>5, SameObjects DEF StorageInv
    <3>2. StorageTypes'
      BY <1>1, <1>2, <2>1, <2>5, <3>1 DEF StorageInv, StorageTypes
    <3>3. ~Walking' /\ ~Reading'
      BY <2>5 DEF Walking, Reading
    <3>4. WalkInv' /\ Done'
      BY <1>1, <1>2, <2>5, <3>3 DEF StorageInv, WalkInv, Done
    <3>5. Removing' /\ Moving' /\ FirstListed' /\ Aside'
      BY <2>5, <3>3 DEF Removing, Moving, FirstListed, Aside
    <3> QED
      BY <3>1, <3>2, <3>4, <3>5 DEF StorageInv
  <2> QED
    BY <1>1, <1>9, <2>3, <2>4, <2>5 DEF MoveObject
<1> QED
  BY <1>8, <1>9 DEF MoveObject

LEMMA StorageStarts == StorageInit => StorageInv
<1> SUFFICES ASSUME StorageInit PROVE StorageInv
  OBVIOUS
<1>1. PICK n \in 0 .. MaxObjects : \E f \in [1 .. n -> Paths] : first = {f[i] : i \in 1 .. n}
  BY DEF StorageInit
<1>2. PICK f \in [1 .. n -> Paths] : first = {f[i] : i \in 1 .. n}
  BY <1>1
<1>3. first \subseteq Seq(Names) \ {<<>>}
  <2>1. ASSUME NEW p \in Paths PROVE p \in Seq(Names) /\ p # <<>>
    <3>1. PICK k \in 1 .. MaxDepth : p \in [1 .. k -> 1 .. NumNames]
      BY DEF Paths
    <3>2. p \in Seq(Names) /\ Len(p) = k /\ k >= 1
      BY <3>1, StorageAssumption DEF Names
    <3> QED
      BY <3>2, EmptySeq
  <2> QED
    BY <1>2, <2>1
<1>4. IsFiniteSet(first)
  <2>1. f \in Surjection(1 .. n, first)
    BY <1>2 DEF Surjection
  <2>2. n \in Int /\ IsFiniteSet(1 .. n)
    BY StorageAssumption, FS_Interval
  <2> QED
    BY <2>1, <2>2, FS_Surjection
<1>5. objects = [p \in first |-> p] /\ DOMAIN objects = first
  BY DEF StorageInit
<1>6. ObjectTypes
  BY <1>3, <1>4, <1>5 DEF ObjectTypes, Stored
<1>7. /\ command \in [op : {"rm", "mv"}, from : Given, to : Given, recursive : BOOLEAN]
      /\ IsPrefix(from, to) => Len(to) <= Len(from) + 1
      /\ phase = "try" /\ dirs = <<>> /\ dir = <<>> /\ pages = 0 /\ paths = <<>>
      /\ outcome = "none"
  BY DEF StorageInit, to
<1>8. StorageTypes
  <2>1. command.op \in {"rm", "mv"} /\ from \in Seq(Names) /\ to \in Seq(Names)
    BY <1>7, StorageAssumption DEF from, to, Names
  <2>2. <<>> \in Seq(Seq(Names)) /\ <<>> \in Seq(Names) /\ <<>> \in Seq(AnEntry)
    BY EmptySeq
  <2> QED
    BY <1>3, <1>4, <1>6, <1>7, <2>1, <2>2 DEF StorageTypes
<1>9. ~Walking /\ ~Reading
  BY <1>7 DEF Walking, Reading
<1>10. WalkInv
  BY <1>5, <1>7, <1>9 DEF WalkInv
<1>11. Spared
  BY <1>5 DEF Spared, StaysAt, Finds
<1> QED
  BY <1>7, <1>8, <1>9, <1>10, <1>11
     DEF StorageInv, Removing, Moving, FirstListed, Aside, Done

LEMMA StorageStays == StorageInv /\ [StorageNext]_storageVars => StorageInv'
<1> SUFFICES ASSUME StorageInv, [StorageNext]_storageVars PROVE StorageInv'
  OBVIOUS
<1>1. CASE TryDelete
  BY <1>1, TryDeleteStep
<1>2. CASE TryMove
  BY <1>2, TryMoveStep
<1>3. CASE PopDirectory
  BY <1>3, PopDirectoryStep
<1>4. CASE ListObjects
  BY <1>4, ListObjectsStep
<1>5. CASE DeleteObjects
  BY <1>5, DeleteObjectsStep
<1>6. CASE MoveObject
  BY <1>6, MoveObjectStep
<1>7. CASE Finish
  BY <1>7, FinishStep
<1>8. CASE RequestFails
  BY <1>8, RequestFailsStep
<1>9. CASE Upload
  BY <1>9, UploadStep
<1>11. CASE DeclineDelete
  BY <1>11, DeclineDeleteStep
<1>10. CASE UNCHANGED storageVars
  <2>1. UNCHANGED <<objects, first, command, phase, dirs, dir, pages, paths, count, outcome>>
    BY <1>10 DEF storageVars
  <2>2. /\ from' = from /\ to' = to /\ Asked' = Asked /\ (MovesBack <=> MovesBack')
        /\ \A p : Destination(p)' = Destination(p)
        /\ Inside <=> Inside'
    BY <2>1, GivenMeans
  <2>3. /\ \A p, q : StaysAt(p, q)' <=> StaysAt(p, q)
        /\ (MovesIntoItself <=> MovesIntoItself') /\ (Unmoved <=> Unmoved')
        /\ Spared => Spared'
        /\ ObjectTypes => ObjectTypes'
    BY <2>1, SameObjects
  <2>4. /\ \A e : RankOf(e)' = RankOf(e) /\ Path(e)' = Path(e)
        /\ \A p : EntryOf(p)' = EntryOf(p)
        /\ Queued' = Queued /\ Found' = Found
        /\ (Walking <=> Walking') /\ (Reading <=> Reading')
    BY <2>1 DEF Walking, Reading, Queued, Found, RankOf, Entries, Path, EntryOf
  <2>5. /\ \A p : Pending(p)' <=> Pending(p)
        /\ \A p : Unreached(p)' <=> Unreached(p)
    BY <2>1, <2>4 DEF Pending, Unreached
  <2>6. StorageTypes' /\ WalkInv'
    BY <2>1, <2>2, <2>3, <2>4 DEF StorageInv, StorageTypes, WalkInv
  <2>7. Removing' /\ FirstListed' /\ Aside' /\ Spared'
    BY <2>1, <2>2, <2>3, <2>4, <2>5 DEF StorageInv, Removing, FirstListed, Aside
  <2>8. \A p : /\ StaysAt(p, Destination(p))' <=> StaysAt(p, Destination(p))
               /\ Unreached(Destination(p))' <=> Unreached(Destination(p))
    BY <2>2, <2>3, <2>5
  <2>9. Moving' /\ Done'
    BY <2>1, <2>2, <2>3, <2>4, <2>5, <2>8 DEF StorageInv, Moving, Done
  <2> QED
    BY <2>6, <2>7, <2>9 DEF StorageInv
<1> QED
  BY <1>1, <1>2, <1>3, <1>4, <1>5, <1>6, <1>7, <1>8, <1>9, <1>10, <1>11 DEF StorageNext

\* storage rm -r (RemoveStoragePathAll), for any paths, objects, page size and
\* number of uploads: if it was confirmed and reports success, no object below
\* the path is left of those that were there when it started; it never removes
\* another one; and if it was declined, which it reports as success too, it has
\* removed none.
THEOREM RemovalIsComplete == StorageSpec => []RemovesAll
<1>1. StorageInv => RemovesAll
  BY DEF StorageInv, Done, Spared, RemovesAll
<1> QED
  BY <1>1, StorageStarts, StorageStays, PTL DEF StorageSpec

\* storage mv -r (MoveStorageObjectAll), for any paths, objects, page size and
\* number of uploads: if it reports success, every object below the source is
\* where it belongs below the destination, unless the move goes into the
\* source or back to it; it never moves another one.
THEOREM MoveIsComplete == StorageSpec => []MovesAll
<1>1. StorageInv => MovesAll
  BY DEF StorageInv, Done, Spared, MovesAll
<1> QED
  BY <1>1, StorageStarts, StorageStays, PTL DEF StorageSpec

=============================================================================
