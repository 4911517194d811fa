----------------------------- MODULE ClientCache -----------------------------
(***************************************************************************)
(* The cache of the web client: what the pages read from the server, under *)
(* which keys, what the requests of the pages change there, and which keys *)
(* each request drops when it is answered.  The first part is the          *)
(* catalogue of src/frontend/src/api; the second part is the machine that  *)
(* runs any one read next to any one request of the same session, with     *)
(* fetches in flight, other writers, pages that come and go, and requests  *)
(* of two steps of which the second may fail.                              *)
(***************************************************************************)
EXTENDS Naturals, Sequences, FiniteSets, SequencesExt

CONSTANTS
    None, Asked,
    MaxVersion    \* bound: changes of the data that is read

ASSUME CacheAssumption == MaxVersion \in Nat /\ None \notin Nat /\ Asked \notin Nat /\ None # Asked

(***************************************************************************)
(* A read has a key, the kinds of data it depends on and the time its      *)
(* answer counts as fresh: none, the minute after which the badges are     *)
(* read again, or long (five minutes or more).                             *)
(***************************************************************************)
Read(key, of, life) == [key |-> key, of |-> of, life |-> life]
Reads(domain, names, of) == {Read(<<domain, n>>, of, "none") : n \in names}

\* A request has the data it changes, the prefixes of the keys it drops, whether
\* it does so when it succeeds or however it ends, and its number of steps.
Calls(names, writes, drops, on, steps) ==
    {[name |-> n, writes |-> writes, drops |-> drops, on |-> on, steps |-> steps] : n \in names}

Badges == <<"badges">>

-----------------------------------------------------------------------------
(* The reads and requests of a club. *)

BookingReads ==
    Reads("bookings", {"venues"}, {"places"})
    \cup Reads("bookings", {"equipment", "equipment-usage"}, {"stock", "loans"})
    \cup Reads("bookings", {"availability", "availability-range", "fixed-occupancy"}, {"places", "rules", "bookings", "rooms"})
    \cup Reads("bookings", {"fixed-window"}, {"settings"})
    \cup Reads("bookings", {"activeRooms", "room-bookings"}, {"rooms"})
    \cup Reads("bookings", {"activeVenues", "venue-bookings"}, {"bookings"})
    \cup Reads("bookings", {"activeLoans", "returned", "equipment-loans"}, {"loans"})
BookingCalls ==
    LET drops == {<<"bookings">>, Badges} IN
    Calls({"createRoomBooking", "cancelRoomBooking"}, {"rooms"}, drops, "success", 1)
    \cup Calls({"createVenueBooking", "cancelVenueBooking"}, {"bookings", "requests"}, drops, "success", 1)
    \cup Calls({"createEquipmentLoan", "cancelEquipmentLoan"}, {"loans"}, drops, "success", 1)

ActivityReads == Reads("activities", {"list", "drafts", "approved", "closable", "detail", "semesters"}, {"activities"})
ReviewRead == Reads("activities", {"review"}, {"activities"})
OverviewRead == Reads("activities", {"overview"}, {"activities"})
ActivityCalls == Calls({"submitActivity"}, {"activities"}, {<<"activities">>, Badges}, "success", 1)

\* To delete an activity takes its bookings and loans along: every key is dropped.
DeleteCall == Calls({"deleteActivity"}, {"activities", "bookings", "loans"}, {<<>>}, "success", 1)

MaintenanceReads == Reads("maintenance", {"list", "recent"}, {"maintenance"})
MaintenanceCalls ==
    Calls({"submitMaintenance"}, {"maintenance"}, {<<"maintenance">>, Badges}, "settled", 2)
    \cup Calls({"addEvidence"}, {"maintenance"}, {<<"maintenance">>, Badges}, "settled", 2)
PostalReads == Reads("postal-changes", {"list", "recent"}, {"postal"})
PostalCalls ==
    Calls({"submitPostal"}, {"postal"}, {<<"postal-changes">>, Badges}, "settled", 2)
    \cup Calls({"addPassbook"}, {"postal"}, {<<"postal-changes">>, Badges}, "settled", 1)
CertificateReads == Reads("officer-certificates", {"list", "recent"}, {"certificates"})
CertificateCalls == Calls({"createCertificate"}, {"certificates"}, {<<"officer-certificates">>, Badges}, "success", 1)
OfficerNames == Reads("members", {"officer-names"}, {"members"})

AnnouncementReads == Reads("announcements", {"list"}, {"announcements", "seen"})
                     \cup Reads("announcements", {"takeover"}, {"announcements", "dismissed"})
AnnouncementCalls == Calls({"dismiss"}, {"dismissed"}, {<<"announcements">>}, "success", 1)
                     \cup Calls({"markRead"}, {"seen"}, {<<"announcements", "list">>}, "success", 1)

SignupReads == Reads("signups", {"list", "detail"}, {"items", "entries"})
SignupCalls == Calls({"saveDraft", "submitSignup"}, {"entries"}, {<<"signups">>, Badges}, "success", 1)

MemberReads == Reads("members", {"list", "semesters"}, {"members"})
MemberCalls == Calls({"createMember", "updateMember", "removeMember", "importCsv"}, {"members"}, {<<"members">>}, "success", 1)

AwardReads == Reads("eval", {"overview", "award"}, {"awards"})
AwardCalls == Calls({"uploadFile", "removeFile"}, {"awards"}, {<<"eval">>}, "success", 1)

ViolationRead == Reads("violations", {"list"}, {"violations"})
PublicReads == {Read(<<"publicClubs">>, {"clubs"}, "long")} \cup Reads("publicClubs", {"detail"}, {"clubs"})
               \cup Reads("publicClubs", {"activities"}, {"activities"})
ConfigRead == {Read(<<"club", "config">>, {"settings"}, "long")}
BadgesRead(of) == {Read(Badges, of, "poll")}

-----------------------------------------------------------------------------
(* Those of an administrator. *)

AdminBookingReads ==
    Reads("adminBookings", {"venues"}, {"places"})
    \cup Reads("adminBookings", {"venueBookings"}, {"bookings"})
    \cup Reads("adminBookings", {"equipmentLoans"}, {"loans"})
    \cup Reads("adminBookings", {"roomBookings"}, {"rooms"})
    \cup Reads("adminBookings", {"fixedWindow"}, {"settings"})
    \cup Reads("adminBookings", {"list", "semesters"}, {"bookings", "loans", "rooms"})
AdminBookingCalls ==
    LET drops == {<<"adminBookings">>, <<"bookings">>, Badges} IN
    Calls({"approveVenue", "rejectVenue"}, {"bookings", "requests"}, drops, "success", 1)
    \cup Calls({"revokeVenue"}, {"bookings"}, drops, "success", 1)
    \cup Calls({"approveLoan", "rejectLoan", "revokeLoan"}, {"loans"}, drops, "success", 1)
    \cup Calls({"approveRoom", "rejectRoom", "revokeRoom"}, {"rooms"}, drops, "success", 1)

\* A booking an administrator makes is approved at once: no request waits, but a
\* loan waits to be handed out.  The badges are not dropped.
ManualCalls ==
    Calls({"createVenue"}, {"bookings"}, {<<"adminBookings">>, <<"bookings">>}, "success", 1)
    \cup Calls({"createEquipment"}, {"loans"}, {<<"adminBookings">>, <<"bookings">>}, "success", 1)

AdminActivityReads == Reads("adminActivities", {"list", "paged", "detail", "semesters", "clubList"}, {"activities"})
AdminActivityCalls == Calls({"approve", "reject", "closeApprove", "closeReject", "unlock"}, {"activities"},
                            {<<"adminActivities">>, Badges}, "success", 1)
OpenViolations == Reads("adminOverview", {"openViolations"}, {"violations"})

\* One club's overview reads under the prefixes of the lists it is made from.
ClubOverviewReads ==
    Reads("adminActivities", {"club"}, {"activities"})
    \cup Reads("adminBookings", {"clubRooms"}, {"rooms"}) \cup Reads("adminBookings", {"clubVenues"}, {"bookings"})
    \cup Reads("adminBookings", {"loans"}, {"loans"})
    \cup Reads("adminBookings", {"loansOverdue"}, {"loans", "reminders"})
    \cup Reads("adminMaintenance", {"club"}, {"maintenance"})

ApplicationReads == Reads("adminApplications", {"certs", "pendingCerts"}, {"certificates"})
                    \cup Reads("adminApplications", {"postal", "pendingPostal"}, {"postal"})
ApplicationCalls == Calls({"applicationStatus"}, {"certificates", "postal"}, {<<"adminApplications">>, Badges}, "success", 1)
AdminMaintenanceReads == Reads("adminMaintenance", {"list", "pendingTotal"}, {"maintenance"})
AdminMaintenanceCalls == Calls({"maintenanceStatus"}, {"maintenance"}, {<<"adminMaintenance">>, Badges}, "success", 1)

AdminAnnouncementRead == Reads("adminAnnouncements", {"list"}, {"announcements"})
AdminAnnouncementCalls == Calls({"createAnnouncement", "setTakeover", "removeAnnouncement"}, {"announcements"},
                                {<<"adminAnnouncements">>}, "success", 1)

ClubReads == {Read(<<"adminClubs", n>>, {"clubs"}, "long") : n \in {"list", "options"}}
             \cup Reads("adminClubs", {"detail", "suspended"}, {"clubs"})
             \cup Reads("adminClubs", {"members", "memberSemesters"}, {"members"})
ClubCalls == Calls({"updateClub", "createClub", "resetPassword", "createAccount"}, {"clubs"},
                   {<<"adminClubs">>}, "success", 1)

\* To remove a club takes along, once that is confirmed, whatever hangs on it in any
\* table.  The keys of the clubs are dropped, and no other: not the badges.
RemovalCall == Calls({"removeClub"},
                     {"clubs", "members", "activities", "bookings", "requests", "rooms", "loans", "reminders", "maintenance",
                      "certificates", "postal", "violations", "entries", "sessions", "announcements", "awards", "merits",
                      "scores", "files"},
                     {<<"adminClubs">>}, "success", 1)

\* A suspension is written on the club; a reminder, which drops nothing, on the loan.
OverdueCalls == Calls({"suspend", "lift"}, {"clubs"}, {<<"adminClubs">>}, "success", 1)
                \cup Calls({"remind"}, {"reminders"}, {}, "success", 1)

AdminSignupReads == Reads("adminSignups", {"list"}, {"items", "entries"})
                    \cup Reads("adminSignups", {"openTotal"}, {"items"})
                    \cup Reads("adminSignups", {"registrations"}, {"entries", "sessions"})
                    \cup Reads("adminSignups", {"sessions"}, {"sessions"})
AdminSignupCalls ==
    Calls({"createItem", "updateItem"}, {"items"}, {<<"adminSignups">>}, "success", 1)
    \cup Calls({"addRegistration", "removeRegistration", "confirm"}, {"entries"}, {<<"adminSignups">>}, "success", 1)
    \cup Calls({"markAttendance"}, {"sessions"}, {<<"adminSignups">>}, "success", 1)
    \cup Calls({"createSession", "deleteSession"}, {"sessions"},
               {<<"adminSignups", "sessions">>, <<"adminSignups", "registrations">>}, "success", 1)

EvalReads == Reads("adminEval", {"clubs", "detail"}, {"awards", "merits"})
EvalCalls == Calls({"override", "revert", "merit"}, {"merits"}, {<<"adminEval">>}, "success", 1)
AuditReads == Reads("adminAudit", {"list"}, {"audit"}) \cup {Read(<<"adminAudit", "options">>, {"audit"}, "long")}

AdminViolationReads == Reads("adminViolations", {"list", "options"}, {"violations"})
AdminViolationCalls == Calls({"resolve"}, {"violations"}, {<<"adminViolations">>, <<"adminOverview">>, Badges}, "success", 1)
FileReads == Reads("adminFiles", {"usage", "repair", "large"}, {"files"})
FileCalls == Calls({"deleteFile"}, {"files"}, {<<"adminFiles">>}, "success", 1)

SettingsRead == {Read(<<"adminSettings">>, {"settings"}, "none")}
SettingsCalls == Calls({"updateSettings"}, {"settings"},
                       {<<"adminSettings">>, <<"bookings", "fixed-window">>, Badges}, "success", 1)
AccountReads == Reads("adminAccounts", {"list"}, {"accounts"})
AccountCalls == Calls({"createUser", "removeUser", "setActive", "resetUserPassword", "setPermissions"}, {"accounts"},
                      {<<"adminAccounts">>}, "success", 1)
VenueRead == {Read(<<"adminVenues">>, {"places"}, "none")}
VenueCalls == Calls({"newVenue", "updateVenue"}, {"places"}, {<<"adminVenues">>, <<"bookings">>}, "success", 1)
EquipmentRead == {Read(<<"adminEquipment">>, {"stock"}, "none")}
EquipmentCalls == Calls({"newEquipment", "updateEquipment"}, {"stock"}, {<<"adminEquipment">>, <<"bookings">>}, "success", 1)
HolidayRead == {Read(<<"adminHolidays">>, {"holidays"}, "none")}
HolidayCalls == Calls({"saveHoliday", "removeHoliday"}, {"holidays"}, {<<"adminHolidays">>, Badges}, "success", 1)
RuleReads == Reads("adminVenueRules", {"list"}, {"rules"})
RuleCalls == Calls({"createRule", "removeRule"}, {"rules"}, {<<"adminVenueRules">>, <<"bookings">>}, "success", 1)

-----------------------------------------------------------------------------
(* Those of a working student and of a reviewer. *)

StaffReads == Reads("staff", {"clubs"}, {"clubs"}) \cup {Read(<<"staffConfig">>, {"settings"}, "long")}
              \cup Reads("staff", {"violationItems"}, {"settings"})
              \cup Reads("staff", {"violations"}, {"violations"})
              \cup Reads("staff", {"loans"}, {"loans", "reminders"})
StaffCalls ==
    LET drops == {<<"staff">>, Badges} IN
    Calls({"fileViolation"}, {"violations"}, drops, "settled", 2)
    \cup Calls({"addAttachments"}, {"violations"}, drops, "settled", 2)
    \cup Calls({"checkout", "checkin"}, {"loans"}, drops, "success", 1)
    \cup Calls({"remindStaff"}, {"reminders"}, {}, "success", 1)

ViewerReads == Reads("viewer", {"assignments", "club-award", "done"}, {"awards", "scores"})
ViewerCalls == Calls({"saveScore"}, {"scores"}, {<<"viewer">>, Badges}, "success", 1)

-----------------------------------------------------------------------------
(* Sessions.  An administrator may hold the pages of the working student   *)
(* and of the reviewer too.  The badges count what waits for the session's *)
(* own role.                                                               *)

ClubSession ==
    [reads |-> BookingReads \cup ActivityReads \cup ReviewRead \cup OverviewRead \cup MaintenanceReads \cup PostalReads
               \cup CertificateReads \cup OfficerNames \cup AnnouncementReads \cup SignupReads \cup MemberReads \cup AwardReads
               \cup ViolationRead \cup PublicReads \cup ConfigRead
               \cup BadgesRead({"activities", "loans", "items", "entries", "maintenance", "postal", "violations", "settings"}),
     calls |-> BookingCalls \cup ActivityCalls \cup DeleteCall \cup MaintenanceCalls \cup PostalCalls \cup CertificateCalls
               \cup AnnouncementCalls \cup SignupCalls \cup MemberCalls \cup AwardCalls]
StaffSession ==
    [reads |-> StaffReads \cup BadgesRead({"loans", "settings", "holidays"}), calls |-> StaffCalls]
ViewerSession ==
    [reads |-> ViewerReads \cup BadgesRead({"scores"}), calls |-> ViewerCalls]
AdminSession ==
    [reads |-> BookingReads \cup AdminBookingReads \cup AdminActivityReads \cup OpenViolations \cup ClubOverviewReads
               \cup ApplicationReads \cup AdminMaintenanceReads \cup AdminAnnouncementRead \cup ClubReads \cup AdminSignupReads
               \cup EvalReads \cup AuditReads \cup AdminViolationReads \cup FileReads \cup SettingsRead \cup AccountReads
               \cup VenueRead \cup EquipmentRead \cup HolidayRead \cup RuleReads \cup StaffReads \cup ViewerReads \cup PublicReads
               \cup BadgesRead({"activities", "requests", "rooms", "loans", "settings", "holidays", "certificates", "postal",
                                "maintenance", "violations", "scores"}),
     calls |-> AdminBookingCalls \cup ManualCalls \cup AdminActivityCalls \cup DeleteCall \cup ApplicationCalls
               \cup AdminMaintenanceCalls \cup AdminAnnouncementCalls \cup ClubCalls \cup RemovalCall \cup OverdueCalls
               \cup AdminSignupCalls \cup EvalCalls \cup AdminViolationCalls \cup FileCalls \cup SettingsCalls \cup AccountCalls \cup VenueCalls
               \cup EquipmentCalls \cup HolidayCalls \cup RuleCalls \cup StaffCalls \cup ViewerCalls]
Sessions == {ClubSession, StaffSession, ViewerSession, AdminSession}

-----------------------------------------------------------------------------
(* Pages on which requests are made, and what they show meanwhile.  The    *)
(* shell around the pages shows its own reads throughout.                  *)

Page(shows, asks) == [shows |-> shows, asks |-> asks]

Shell == BadgesRead({}) \cup AnnouncementReads \cup {r \in BookingReads : r.key[2] = "fixed-window"}
         \cup {r \in ClubReads : r.key[2] = "options"}
InShell(r) == \E s \in Shell : s.key = r.key

ClubPages == {
    Page(AnnouncementReads \cup OverviewRead \cup MaintenanceReads \cup PostalReads \cup CertificateReads \cup BookingReads,
         AnnouncementCalls),
    Page(ActivityReads \cup ReviewRead, ActivityCalls \cup DeleteCall),
    Page(BookingReads \cup ActivityReads, BookingCalls),
    Page(MaintenanceReads \cup ConfigRead, MaintenanceCalls),
    Page(PostalReads, PostalCalls),
    Page(CertificateReads \cup OfficerNames \cup MemberReads, CertificateCalls),
    Page(SignupReads, SignupCalls),
    Page(MemberReads, MemberCalls),
    Page(AwardReads, AwardCalls)}
AdminPages == {
    Page(AdminActivityReads \cup ClubReads, AdminActivityCalls \cup DeleteCall),
    Page(AdminSignupReads \cup ClubReads, AdminSignupCalls),
    Page(AdminAnnouncementRead \cup ClubReads, AdminAnnouncementCalls),
    Page(AdminBookingReads \cup ClubReads \cup EquipmentRead, AdminBookingCalls),
    Page({r \in AdminBookingReads : r.key[2] = "venues"} \cup EquipmentRead, ManualCalls),
    Page({r \in AdminBookingReads : r.key[2] = "venues"} \cup RuleReads, RuleCalls),
    Page(ClubOverviewReads \cup AdminActivityReads \cup ClubReads,
         AdminBookingCalls \cup AdminActivityCalls),
    Page(ClubReads, {c \in ClubCalls : c.name \in {"updateClub", "resetPassword"}}),
    Page(ClubOverviewReads \cup ClubReads, OverdueCalls),
    Page(EvalReads, EvalCalls),
    Page(AccountReads \cup ClubReads, AccountCalls \cup ClubCalls \cup RemovalCall),
    Page(ApplicationReads, ApplicationCalls),
    Page(AdminMaintenanceReads, AdminMaintenanceCalls),
    Page(AdminViolationReads \cup OpenViolations, AdminViolationCalls),
    Page(FileReads, FileCalls),
    Page(SettingsRead \cup VenueRead \cup EquipmentRead \cup HolidayRead,
         SettingsCalls \cup VenueCalls \cup EquipmentCalls \cup HolidayCalls)}
StaffPages == {Page(StaffReads, StaffCalls)}
ViewerPages == {Page(ViewerReads, ViewerCalls)}
Pages == ClubPages \cup AdminPages \cup StaffPages \cup ViewerPages

Together(r, c) == InShell(r) \/ \E p \in Pages : r \in p.shows /\ c \in p.asks
Drops(c, r) == \E d \in c.drops : IsPrefix(d, r.key)

\* What one session may run: a read and a request that changes what it reads.
Pairs == UNION {{p \in s.reads \X s.calls : p[1].of \cap p[2].writes # {}} : s \in Sessions}

\* Reads that a request leaves as they are.  The page of overdue loans shows when
\* each was last reminded of and does not read it again after a reminder; what is
\* fresh for minutes is so through the requests that do not drop it.  Two requests
\* change what the badges count and do not drop them, whatever is said beside their
\* key: an official's own booking of equipment and the removal of a club.
Unread(r, c) == /\ ~Drops(c, r)
                /\ \/ c.writes = {"reminders"}
                   \/ r.life = "long"
                   \/ r.key = Badges /\ c.name \in {"createEquipment", "removeClub"}

-----------------------------------------------------------------------------
(* The machine. *)

VARIABLES
    read, call,  \* the read and the request looked at
    server,      \* version of the data on the server
    cached,      \* version in the cache, or None
    stale,       \* the cache was told that its data is out of date
    failed,      \* the last fetch failed
    shown,       \* a page that uses the read is open
    fetch,       \* None, Asked, or the version the server has read for it
    flight,      \* None, or the request: its step, whether the server has done that step, version it made
    told,        \* the newest version the user knows was saved: by a success,
    half,        \* and by an error that says the first step was done
    missed       \* the last drop, or the last answer, found a fetch under way that it does not replace

cacheVars == <<cached, stale, failed, fetch>>
vars == <<read, call, server, cacheVars, shown, flight, told, half, missed>>

Fetching == fetch # None

\* A fetch that begins now will read everything that was answered before.
Begin == fetch' = Asked /\ missed' = FALSE
Idle == UNCHANGED <<fetch, missed>>

\* A page opens: it reads again unless what is cached counts as fresh, or a fetch is already out.
Show == /\ ~shown /\ shown' = TRUE
        /\ CASE Fetching -> Idle
             [] ~Fetching /\ (cached = None \/ stale \/ failed \/ read.life = "none") -> Begin
             [] OTHER -> Begin \/ Idle
        /\ UNCHANGED <<read, call, server, cached, stale, failed, flight, told, half>>

Hide == /\ shown /\ ~InShell(read) /\ shown' = FALSE
        /\ UNCHANGED <<read, call, server, cacheVars, flight, told, half, missed>>

\* What no page has used for a while is forgotten.
Forget == /\ ~shown /\ ~Fetching /\ cached # None
          /\ cached' = None /\ stale' = FALSE /\ failed' = FALSE
          /\ UNCHANGED <<read, call, server, shown, fetch, flight, told, half, missed>>

\* The badges are read every minute and when the window is looked at again; a
\* failed read can be asked for again.
Poll == /\ shown /\ ~Fetching /\ (read.life = "poll" \/ failed)
        /\ Begin
        /\ UNCHANGED <<read, call, server, cached, stale, failed, shown, flight, told, half>>

Serve == /\ fetch = Asked /\ fetch' = server
         /\ UNCHANGED <<read, call, server, cached, stale, failed, shown, flight, told, half, missed>>

Land == /\ fetch \in Nat
        /\ cached' = fetch /\ stale' = FALSE /\ failed' = FALSE /\ fetch' = None
        /\ UNCHANGED <<read, call, server, shown, flight, told, half, missed>>

FetchFails == /\ Fetching
              /\ fetch' = None /\ failed' = TRUE
              /\ UNCHANGED <<read, call, server, cached, stale, shown, flight, told, half, missed>>

Others == /\ server < MaxVersion /\ server' = server + 1
          /\ UNCHANGED <<read, call, cacheVars, shown, flight, told, half, missed>>

\* The request leaves from its page: one that shows the read too, or another one.
Send == /\ flight = None
        /\ shown = Together(read, call)
        /\ flight' = [step |-> 1, done |-> FALSE, made |-> 0]
        /\ UNCHANGED <<read, call, server, cacheVars, shown, told, half, missed>>

Write == /\ flight # None /\ ~flight.done /\ server < MaxVersion
         /\ server' = server + 1
         /\ flight' = [flight EXCEPT !.done = TRUE]
         /\ UNCHANGED <<read, call, cacheVars, shown, told, half, missed>>

\* The answer to one step sends the next.
Proceed == /\ flight # None /\ flight.done /\ flight.step < call.steps
           /\ flight' = [step |-> flight.step + 1, done |-> FALSE, made |-> server]
           /\ UNCHANGED <<read, call, server, cacheVars, shown, told, half, missed>>

\* Mutant: the drop waits for the fetch that is under way.
DropWithoutCancel ==
    /\ stale' = (stale \/ cached # None)
    /\ IF shown /\ ~Fetching THEN Begin ELSE Idle
    /\ UNCHANGED <<cached, failed>>

\* To drop a key marks what is cached; where a page uses it, it is read again, and
\* a fetch under way gives way if there is something to show meanwhile.
Drop == /\ stale' = (stale \/ cached # None)
        /\ IF shown /\ (~Fetching \/ cached # None) THEN Begin
           ELSE fetch' = fetch /\ missed' = (missed \/ Fetching)
        /\ UNCHANGED <<cached, failed>>

\* An answer that does not drop the key may find the page of the read open, or a fetch under way.
Leave == /\ missed' = (missed \/ Fetching \/ (shown /\ ~Together(read, call)))
         /\ UNCHANGED cacheVars

\* Mutant: the keys are dropped only when both steps succeed.
SettleOnSuccess(ok) == IF Drops(call, read) /\ ok THEN Drop ELSE Leave

Settle(ok) == IF Drops(call, read) /\ (ok \/ call.on = "settled") THEN Drop ELSE Leave

Succeed == /\ flight # None /\ flight.done /\ flight.step = call.steps
           /\ flight' = None
           /\ told' = server
           /\ Settle(TRUE)
           /\ UNCHANGED <<read, call, server, shown, half>>

\* A step is refused, or its answer is lost: an error, that names what was done before.
Fails == /\ flight # None
         /\ flight' = None
         /\ half' = IF flight.step > 1 THEN flight.made ELSE half
         /\ Settle(FALSE)
         /\ UNCHANGED <<read, call, server, shown, told>>

Init == /\ \E p \in Pairs : read = p[1] /\ call = p[2]
        /\ server = 0 /\ cached = None /\ stale = FALSE /\ failed = FALSE
        /\ shown = InShell(read) /\ fetch = IF shown THEN Asked ELSE None
        /\ flight = None /\ told = 0 /\ half = 0 /\ missed = FALSE

Next == Show \/ Hide \/ Forget \/ Poll \/ Serve \/ Land \/ FetchFails \/ Others
        \/ Send \/ Write \/ Proceed \/ Succeed \/ Fails

Spec == Init /\ [][Next]_vars

-----------------------------------------------------------------------------
(* Types and properties. *)

TypeOK == /\ server \in 0 .. MaxVersion
          /\ cached \in {None} \cup 0 .. server
          /\ stale \in BOOLEAN /\ failed \in BOOLEAN /\ shown \in BOOLEAN /\ missed \in BOOLEAN
          /\ fetch \in {None, Asked} \cup 0 .. server
          /\ told \in 0 .. server /\ half \in 0 .. server

\* A page with nothing under way and no error.
Settled == shown /\ cached # None /\ ~Fetching /\ ~failed /\ ~missed

\* After a request was answered with success, a page that shows what it changed
\* and has nothing under way shows a version that has the change: the client
\* drops every key it must.  Not claimed of the reads a request leaves alone
\* (Unread; the two requests that should drop the badges are named there), nor
\* where the drop met a fetch that the client does not replace.
ReadYourWrites == Settled /\ ~Unread(read, call) => cached >= told

\* After a request of two steps failed in its second, the error tells the user not
\* to send it again and to look for it in the list: the list has it.
HalfDoneIsShown == Settled /\ ~Unread(read, call) => cached >= half

\* No cache is ahead of the server, and none hides what a failed request has saved.
CacheInv == TypeOK /\ HalfDoneIsShown

\* The comment on the badges' key ("every mutation that changes the number of
\* things to do must drop it, or the sidebar and the page disagree").  Refuted by
\* the two requests that Unread names.
BadgesFollow == Settled /\ read.key = Badges => cached >= told
=============================================================================
