---------------------------- MODULE MCLoginWatch ----------------------------
(* Instances of LoginWatch: a page without a form, the login form a script  *)
(* puts there, and a login page that also wants a code.                     *)
EXTENDS LoginWatch, TLC
CONSTANTS r1, r2

Pass == Field("password", FALSE, FALSE, FALSE)
Code == Field("otp", TRUE, FALSE, TRUE)
Plain == Field("unknown", TRUE, FALSE, FALSE)
Captcha == Field("unknown", TRUE, TRUE, FALSE)
Tenant == Field("unknown", TRUE, FALSE, TRUE)

Doc(u, login, fs) == [url |-> u, form |-> [login |-> login, fields |-> fs]]
Empty == Doc("home", FALSE, <<>>)
Popup == Doc("home", TRUE, <<Plain, Tenant, Pass>>)
Coded == Doc("login", TRUE, <<Code, Captcha, Pass>>)
FirstDocs == {Empty}
AllDocs == {Empty, Popup, Coded}
=============================================================================
