-------------------------- MODULE ClientCacheProofs --------------------------
(***************************************************************************)
(* Theorems of ClientCache, for any number of changes of the data: first   *)
(* that the catalogue of keys is complete (a request drops every read that *)
(* a page shows next to it, or the read is one of those it is known to  *)
(* leave), then that the machine shows no page an answer older than what   *)
(* its user knows was saved.                                               *)
(***************************************************************************)
EXTENDS ClientCache, TLAPS

\* A request that changes what the read depends on drops it, or is known to leave it.
Clean(r, c) == r.of \cap c.writes # {} => Drops(c, r) \/ Unread(r, c)
CleanAll(R, C) == \A r \in R, c \in C : Clean(r, c)

\* The reads R have keys that begin with d, depend on kinds of data in X only,
\* and are not read again every minute, unless they are the badges.
Under(R, d) == \A r \in R : r.key = <<d>> \/ r.key = <<d, r.key[2]>>
Of(R, X) == \A r \in R : r.of \subseteq X
Plain(R) == \A r \in R : r.life \in {"none", "long"} \/ r.key = Badges

\* The requests C change only kinds of data in Y; each drops the prefix d; each
\* that has a second step drops its keys however it ends.
Writing(C, Y) == \A c \in C : c.writes \subseteq Y
Dropping(C, d) == \A c \in C : <<d>> \in c.drops
Settling(C) == \A c \in C : c.steps > 1 => c.on = "settled"

-----------------------------------------------------------------------------
(* Keys and prefixes. *)

LEMMA PrefixOfKey ==
  ASSUME NEW d, NEW n
  PROVE  /\ IsPrefix(<<d>>, <<d, n>>)
         /\ IsPrefix(<<d>>, <<d>>)
         /\ IsPrefix(<<d, n>>, <<d, n>>)
         /\ IsPrefix(<<>>, <<d, n>>)
         /\ IsPrefix(<<>>, <<d>>)
BY DEF IsPrefix

LEMMA DroppedIsClean ==
  ASSUME NEW R, NEW C, NEW d, Under(R, d), Dropping(C, d)
  PROVE  CleanAll(R, C)
BY PrefixOfKey DEF Under, Dropping, CleanAll, Clean, Drops

LEMMA ApartIsClean ==
  ASSUME NEW R, NEW C, NEW X, NEW Y, Of(R, X), Writing(C, Y), X \cap Y = {}
  PROVE  CleanAll(R, C)
BY DEF Of, Writing, CleanAll, Clean

\* What a page shows and asks may be taken apart.
LEMMA CleanUnion ==
  ASSUME NEW R, NEW S, NEW C
  PROVE  /\ CleanAll(R, C) /\ CleanAll(S, C) => CleanAll(R \cup S, C)
         /\ CleanAll(C, R) /\ CleanAll(C, S) => CleanAll(C, R \cup S)
BY DEF CleanAll

LEMMA ReadsAre ==
  ASSUME NEW d, NEW names, NEW of
  PROVE  /\ Under(Reads(d, names, of), d)
         /\ Of(Reads(d, names, of), of)
         /\ Plain(Reads(d, names, of))
BY DEF Reads, Read, Under, Of, Plain

LEMMA ReadIs ==
  ASSUME NEW d, NEW names, NEW of, NEW r \in Reads(d, names, of)
  PROVE  r.key = <<d, r.key[2]>> /\ r.key[2] \in names /\ r.of = of /\ r.life = "none"
BY DEF Reads, Read

LEMMA CallsAre ==
  ASSUME NEW names, NEW writes, NEW drops, NEW on, NEW steps, NEW c \in Calls(names, writes, drops, on, steps)
  PROVE  c.name \in names /\ c.writes = writes /\ c.drops = drops /\ c.on = on /\ c.steps = steps
BY DEF Calls

(* The groups of reads and requests, as the catalogue has them. *)

LEMMA ClubReadGroups ==
  /\ Under(BookingReads, "bookings") /\ Of(BookingReads, {"places", "stock", "loans", "rules", "bookings", "rooms", "settings"}) /\ Plain(BookingReads)
  /\ Under(ActivityReads, "activities") /\ Of(ActivityReads, {"activities"}) /\ Plain(ActivityReads)
  /\ Under(ReviewRead, "activities") /\ Of(ReviewRead, {"activities"}) /\ Plain(ReviewRead)
  /\ Under(OverviewRead, "activities") /\ Of(OverviewRead, {"activities"}) /\ Plain(OverviewRead)
  /\ Under(MaintenanceReads, "maintenance") /\ Of(MaintenanceReads, {"maintenance"}) /\ Plain(MaintenanceReads)
  /\ Under(PostalReads, "postal-changes") /\ Of(PostalReads, {"postal"}) /\ Plain(PostalReads)
  /\ Under(CertificateReads, "officer-certificates") /\ Of(CertificateReads, {"certificates"}) /\ Plain(CertificateReads)
  /\ Under(OfficerNames, "members") /\ Of(OfficerNames, {"members"}) /\ Plain(OfficerNames)
  /\ Under(AnnouncementReads, "announcements") /\ Of(AnnouncementReads, {"announcements", "seen", "dismissed"}) /\ Plain(AnnouncementReads)
  /\ Under(SignupReads, "signups") /\ Of(SignupReads, {"items", "entries"}) /\ Plain(SignupReads)
  /\ Under(MemberReads, "members") /\ Of(MemberReads, {"members"}) /\ Plain(MemberReads)
  /\ Under(AwardReads, "eval") /\ Of(AwardReads, {"awards"}) /\ Plain(AwardReads)
  /\ Under(ViolationRead, "violations") /\ Of(ViolationRead, {"violations"}) /\ Plain(ViolationRead)
  /\ Under(PublicReads, "publicClubs") /\ Of(PublicReads, {"clubs", "activities"}) /\ Plain(PublicReads)
  /\ Under(ConfigRead, "club") /\ Of(ConfigRead, {"settings"}) /\ Plain(ConfigRead)
<1>1. Under(BookingReads, "bookings") /\ Of(BookingReads, {"places", "stock", "loans", "rules", "bookings", "rooms", "settings"}) /\ Plain(BookingReads)
  BY ReadsAre DEF BookingReads, Under, Of, Plain
<1>2. Under(ActivityReads, "activities") /\ Of(ActivityReads, {"activities"}) /\ Plain(ActivityReads)
  BY ReadsAre DEF ActivityReads, Under, Of, Plain
<1>3. Under(ReviewRead, "activities") /\ Of(ReviewRead, {"activities"}) /\ Plain(ReviewRead)
  BY ReadsAre DEF ReviewRead, Under, Of, Plain
<1>4. Under(OverviewRead, "activities") /\ Of(OverviewRead, {"activities"}) /\ Plain(OverviewRead)
  BY ReadsAre DEF OverviewRead, Under, Of, Plain
<1>5. Under(MaintenanceReads, "maintenance") /\ Of(MaintenanceReads, {"maintenance"}) /\ Plain(MaintenanceReads)
  BY ReadsAre DEF MaintenanceReads, Under, Of, Plain
<1>6. Under(PostalReads, "postal-changes") /\ Of(PostalReads, {"postal"}) /\ Plain(PostalReads)
  BY ReadsAre DEF PostalReads, Under, Of, Plain
<1>7. Under(CertificateReads, "officer-certificates") /\ Of(CertificateReads, {"certificates"}) /\ Plain(CertificateReads)
  BY ReadsAre DEF CertificateReads, Under, Of, Plain
<1>8. Under(OfficerNames, "members") /\ Of(OfficerNames, {"members"}) /\ Plain(OfficerNames)
  BY ReadsAre DEF OfficerNames, Under, Of, Plain
<1>9. Under(AnnouncementReads, "announcements") /\ Of(AnnouncementReads, {"announcements", "seen", "dismissed"}) /\ Plain(AnnouncementReads)
  BY ReadsAre DEF AnnouncementReads, Under, Of, Plain
<1>10. Under(SignupReads, "signups") /\ Of(SignupReads, {"items", "entries"}) /\ Plain(SignupReads)
  BY ReadsAre DEF SignupReads, Under, Of, Plain
<1>11. Under(MemberReads, "members") /\ Of(MemberReads, {"members"}) /\ Plain(MemberReads)
  BY ReadsAre DEF MemberReads, Under, Of, Plain
<1>12. Under(AwardReads, "eval") /\ Of(AwardReads, {"awards"}) /\ Plain(AwardReads)
  BY ReadsAre DEF AwardReads, Under, Of, Plain
<1>13. Under(ViolationRead, "violations") /\ Of(ViolationRead, {"violations"}) /\ Plain(ViolationRead)
  BY ReadsAre DEF ViolationRead, Under, Of, Plain
<1>14. Under(PublicReads, "publicClubs") /\ Of(PublicReads, {"clubs", "activities"}) /\ Plain(PublicReads)
  BY ReadsAre DEF PublicReads, Under, Of, Plain, Read
<1>15. Under(ConfigRead, "club") /\ Of(ConfigRead, {"settings"}) /\ Plain(ConfigRead)
  BY ReadsAre DEF ConfigRead, Under, Of, Plain, Read
<1>. QED
  BY <1>1, <1>2, <1>3, <1>4, <1>5, <1>6, <1>7, <1>8, <1>9, <1>10, <1>11, <1>12, <1>13, <1>14, <1>15

LEMMA AdminReadGroups ==
  /\ Under(AdminBookingReads, "adminBookings") /\ Of(AdminBookingReads, {"places", "bookings", "loans", "rooms", "settings"}) /\ Plain(AdminBookingReads)
  /\ Under(AdminActivityReads, "adminActivities") /\ Of(AdminActivityReads, {"activities"}) /\ Plain(AdminActivityReads)
  /\ Under(OpenViolations, "adminOverview") /\ Of(OpenViolations, {"violations"}) /\ Plain(OpenViolations)
  /\ Under(ApplicationReads, "adminApplications") /\ Of(ApplicationReads, {"certificates", "postal"}) /\ Plain(ApplicationReads)
  /\ Under(AdminMaintenanceReads, "adminMaintenance") /\ Of(AdminMaintenanceReads, {"maintenance"}) /\ Plain(AdminMaintenanceReads)
  /\ Under(AdminAnnouncementRead, "adminAnnouncements") /\ Of(AdminAnnouncementRead, {"announcements"}) /\ Plain(AdminAnnouncementRead)
  /\ Under(ClubReads, "adminClubs") /\ Of(ClubReads, {"clubs", "members"}) /\ Plain(ClubReads)
  /\ Under(AdminSignupReads, "adminSignups") /\ Of(AdminSignupReads, {"items", "entries", "sessions"}) /\ Plain(AdminSignupReads)
  /\ Under(EvalReads, "adminEval") /\ Of(EvalReads, {"awards", "merits"}) /\ Plain(EvalReads)
  /\ Under(AuditReads, "adminAudit") /\ Of(AuditReads, {"audit"}) /\ Plain(AuditReads)
  /\ Under(AdminViolationReads, "adminViolations") /\ Of(AdminViolationReads, {"violations"}) /\ Plain(AdminViolationReads)
  /\ Under(FileReads, "adminFiles") /\ Of(FileReads, {"files"}) /\ Plain(FileReads)
  /\ Under(SettingsRead, "adminSettings") /\ Of(SettingsRead, {"settings"}) /\ Plain(SettingsRead)
  /\ Under(AccountReads, "adminAccounts") /\ Of(AccountReads, {"accounts"}) /\ Plain(AccountReads)
  /\ Under(VenueRead, "adminVenues") /\ Of(VenueRead, {"places"}) /\ Plain(VenueRead)
  /\ Under(EquipmentRead, "adminEquipment") /\ Of(EquipmentRead, {"stock"}) /\ Plain(EquipmentRead)
  /\ Under(HolidayRead, "adminHolidays") /\ Of(HolidayRead, {"holidays"}) /\ Plain(HolidayRead)
  /\ Under(RuleReads, "adminVenueRules") /\ Of(RuleReads, {"rules"}) /\ Plain(RuleReads)
  /\ Under(ViewerReads, "viewer") /\ Of(ViewerReads, {"awards", "scores"}) /\ Plain(ViewerReads)
<1>1. Under(AdminBookingReads, "adminBookings") /\ Of(AdminBookingReads, {"places", "bookings", "loans", "rooms", "settings"}) /\ Plain(AdminBookingReads)
  BY ReadsAre DEF AdminBookingReads, Under, Of, Plain
<1>2. Under(AdminActivityReads, "adminActivities") /\ Of(AdminActivityReads, {"activities"}) /\ Plain(AdminActivityReads)
  BY ReadsAre DEF AdminActivityReads, Under, Of, Plain
<1>3. Under(OpenViolations, "adminOverview") /\ Of(OpenViolations, {"violations"}) /\ Plain(OpenViolations)
  BY ReadsAre DEF OpenViolations, Under, Of, Plain
<1>4. Under(ApplicationReads, "adminApplications") /\ Of(ApplicationReads, {"certificates", "postal"}) /\ Plain(ApplicationReads)
  BY ReadsAre DEF ApplicationReads, Under, Of, Plain
<1>5. Under(AdminMaintenanceReads, "adminMaintenance") /\ Of(AdminMaintenanceReads, {"maintenance"}) /\ Plain(AdminMaintenanceReads)
  BY ReadsAre DEF AdminMaintenanceReads, Under, Of, Plain
<1>6. Under(AdminAnnouncementRead, "adminAnnouncements") /\ Of(AdminAnnouncementRead, {"announcements"}) /\ Plain(AdminAnnouncementRead)
  BY ReadsAre DEF AdminAnnouncementRead, Under, Of, Plain
<1>7. Under(ClubReads, "adminClubs") /\ Of(ClubReads, {"clubs", "members"}) /\ Plain(ClubReads)
  BY ReadsAre DEF ClubReads, Under, Of, Plain, Read
<1>8. Under(AdminSignupReads, "adminSignups") /\ Of(AdminSignupReads, {"items", "entries", "sessions"}) /\ Plain(AdminSignupReads)
  BY ReadsAre DEF AdminSignupReads, Under, Of, Plain
<1>9. Under(EvalReads, "adminEval") /\ Of(EvalReads, {"awards", "merits"}) /\ Plain(EvalReads)
  BY ReadsAre DEF EvalReads, Under, Of, Plain
<1>10. Under(AuditReads, "adminAudit") /\ Of(AuditReads, {"audit"}) /\ Plain(AuditReads)
  BY ReadsAre DEF AuditReads, Under, Of, Plain, Read
<1>11. Under(AdminViolationReads, "adminViolations") /\ Of(AdminViolationReads, {"violations"}) /\ Plain(AdminViolationReads)
  BY ReadsAre DEF AdminViolationReads, Under, Of, Plain
<1>12. Under(FileReads, "adminFiles") /\ Of(FileReads, {"files"}) /\ Plain(FileReads)
  BY ReadsAre DEF FileReads, Under, Of, Plain
<1>13. Under(SettingsRead, "adminSettings") /\ Of(SettingsRead, {"settings"}) /\ Plain(SettingsRead)
  BY ReadsAre DEF SettingsRead, Under, Of, Plain, Read
<1>14. Under(AccountReads, "adminAccounts") /\ Of(AccountReads, {"accounts"}) /\ Plain(AccountReads)
  BY ReadsAre DEF AccountReads, Under, Of, Plain
<1>15. Under(VenueRead, "adminVenues") /\ Of(VenueRead, {"places"}) /\ Plain(VenueRead)
  BY ReadsAre DEF VenueRead, Under, Of, Plain, Read
<1>16. Under(EquipmentRead, "adminEquipment") /\ Of(EquipmentRead, {"stock"}) /\ Plain(EquipmentRead)
  BY ReadsAre DEF EquipmentRead, Under, Of, Plain, Read
<1>17. Under(HolidayRead, "adminHolidays") /\ Of(HolidayRead, {"holidays"}) /\ Plain(HolidayRead)
  BY ReadsAre DEF HolidayRead, Under, Of, Plain, Read
<1>18. Under(RuleReads, "adminVenueRules") /\ Of(RuleReads, {"rules"}) /\ Plain(RuleReads)
  BY ReadsAre DEF RuleReads, Under, Of, Plain
<1>19. Under(ViewerReads, "viewer") /\ Of(ViewerReads, {"awards", "scores"}) /\ Plain(ViewerReads)
  BY ReadsAre DEF ViewerReads, Under, Of, Plain
<1>. QED
  BY <1>1, <1>2, <1>3, <1>4, <1>5, <1>6, <1>7, <1>8, <1>9, <1>10, <1>11, <1>12, <1>13, <1>14, <1>15, <1>16, <1>17, <1>18, <1>19

LEMMA ClubCallGroups ==
  /\ Writing(BookingCalls, {"rooms", "bookings", "requests", "loans"}) /\ Dropping(BookingCalls, "bookings") /\ Dropping(BookingCalls, "badges") /\ Settling(BookingCalls)
  /\ Writing(ActivityCalls, {"activities"}) /\ Dropping(ActivityCalls, "activities") /\ Dropping(ActivityCalls, "badges") /\ Settling(ActivityCalls)
  /\ Writing(DeleteCall, {"activities", "bookings", "loans"}) /\ Settling(DeleteCall)
  /\ Writing(MaintenanceCalls, {"maintenance"}) /\ Dropping(MaintenanceCalls, "maintenance") /\ Dropping(MaintenanceCalls, "badges") /\ Settling(MaintenanceCalls)
  /\ Writing(PostalCalls, {"postal"}) /\ Dropping(PostalCalls, "postal-changes") /\ Dropping(PostalCalls, "badges") /\ Settling(PostalCalls)
  /\ Writing(CertificateCalls, {"certificates"}) /\ Dropping(CertificateCalls, "officer-certificates") /\ Dropping(CertificateCalls, "badges") /\ Settling(CertificateCalls)
  /\ Writing(AnnouncementCalls, {"seen", "dismissed"}) /\ Settling(AnnouncementCalls)
  /\ Writing(SignupCalls, {"entries"}) /\ Dropping(SignupCalls, "signups") /\ Dropping(SignupCalls, "badges") /\ Settling(SignupCalls)
  /\ Writing(MemberCalls, {"members"}) /\ Dropping(MemberCalls, "members") /\ Settling(MemberCalls)
  /\ Writing(AwardCalls, {"awards"}) /\ Dropping(AwardCalls, "eval") /\ Settling(AwardCalls)
<1>1. Writing(BookingCalls, {"rooms", "bookings", "requests", "loans"}) /\ Dropping(BookingCalls, "bookings") /\ Dropping(BookingCalls, "badges") /\ Settling(BookingCalls)
  BY CallsAre DEF BookingCalls, Dropping, Writing, Settling, Badges
<1>2. Writing(ActivityCalls, {"activities"}) /\ Dropping(ActivityCalls, "activities") /\ Dropping(ActivityCalls, "badges") /\ Settling(ActivityCalls)
  BY CallsAre DEF ActivityCalls, Dropping, Writing, Settling, Badges
<1>3. Writing(DeleteCall, {"activities", "bookings", "loans"}) /\ Settling(DeleteCall)
  BY CallsAre DEF DeleteCall, Writing, Settling
<1>4. Writing(MaintenanceCalls, {"maintenance"}) /\ Dropping(MaintenanceCalls, "maintenance") /\ Dropping(MaintenanceCalls, "badges") /\ Settling(MaintenanceCalls)
  BY CallsAre DEF MaintenanceCalls, Dropping, Writing, Settling, Badges
<1>5. Writing(PostalCalls, {"postal"}) /\ Dropping(PostalCalls, "postal-changes") /\ Dropping(PostalCalls, "badges") /\ Settling(PostalCalls)
  BY CallsAre DEF PostalCalls, Dropping, Writing, Settling, Badges
<1>6. Writing(CertificateCalls, {"certificates"}) /\ Dropping(CertificateCalls, "officer-certificates") /\ Dropping(CertificateCalls, "badges") /\ Settling(CertificateCalls)
  BY CallsAre DEF CertificateCalls, Dropping, Writing, Settling, Badges
<1>7. Writing(AnnouncementCalls, {"seen", "dismissed"}) /\ Settling(AnnouncementCalls)
  BY CallsAre DEF AnnouncementCalls, Writing, Settling
<1>8. Writing(SignupCalls, {"entries"}) /\ Dropping(SignupCalls, "signups") /\ Dropping(SignupCalls, "badges") /\ Settling(SignupCalls)
  BY CallsAre DEF SignupCalls, Dropping, Writing, Settling, Badges
<1>9. Writing(MemberCalls, {"members"}) /\ Dropping(MemberCalls, "members") /\ Settling(MemberCalls)
  BY CallsAre DEF MemberCalls, Dropping, Writing, Settling
<1>10. Writing(AwardCalls, {"awards"}) /\ Dropping(AwardCalls, "eval") /\ Settling(AwardCalls)
  BY CallsAre DEF AwardCalls, Dropping, Writing, Settling
<1>. QED
  BY <1>1, <1>2, <1>3, <1>4, <1>5, <1>6, <1>7, <1>8, <1>9, <1>10

LEMMA AdminCallGroups ==
  /\ Writing(AdminBookingCalls, {"bookings", "requests", "loans", "rooms"}) /\ Dropping(AdminBookingCalls, "adminBookings") /\ Dropping(AdminBookingCalls, "bookings") /\ Dropping(AdminBookingCalls, "badges") /\ Settling(AdminBookingCalls)
  /\ Writing(ManualCalls, {"bookings", "loans"}) /\ Dropping(ManualCalls, "adminBookings") /\ Dropping(ManualCalls, "bookings") /\ Settling(ManualCalls)
  /\ Writing(AdminActivityCalls, {"activities"}) /\ Dropping(AdminActivityCalls, "adminActivities") /\ Dropping(AdminActivityCalls, "badges") /\ Settling(AdminActivityCalls)
  /\ Writing(ApplicationCalls, {"certificates", "postal"}) /\ Dropping(ApplicationCalls, "adminApplications") /\ Dropping(ApplicationCalls, "badges") /\ Settling(ApplicationCalls)
  /\ Writing(AdminMaintenanceCalls, {"maintenance"}) /\ Dropping(AdminMaintenanceCalls, "adminMaintenance") /\ Dropping(AdminMaintenanceCalls, "badges") /\ Settling(AdminMaintenanceCalls)
  /\ Writing(AdminAnnouncementCalls, {"announcements"}) /\ Dropping(AdminAnnouncementCalls, "adminAnnouncements") /\ Settling(AdminAnnouncementCalls)
  /\ Writing(ClubCalls, {"clubs"}) /\ Dropping(ClubCalls, "adminClubs") /\ Settling(ClubCalls)
  /\ Dropping(RemovalCall, "adminClubs") /\ Settling(RemovalCall)
  /\ Writing(OverdueCalls, {"clubs", "reminders"}) /\ Settling(OverdueCalls)
  /\ Writing(AdminSignupCalls, {"items", "entries", "sessions"}) /\ Settling(AdminSignupCalls)
  /\ Writing(EvalCalls, {"merits"}) /\ Dropping(EvalCalls, "adminEval") /\ Settling(EvalCalls)
  /\ Writing(AdminViolationCalls, {"violations"}) /\ Dropping(AdminViolationCalls, "adminViolations") /\ Dropping(AdminViolationCalls, "adminOverview") /\ Dropping(AdminViolationCalls, "badges") /\ Settling(AdminViolationCalls)
  /\ Writing(FileCalls, {"files"}) /\ Dropping(FileCalls, "adminFiles") /\ Settling(FileCalls)
  /\ Writing(SettingsCalls, {"settings"}) /\ Dropping(SettingsCalls, "adminSettings") /\ Dropping(SettingsCalls, "badges") /\ Settling(SettingsCalls)
  /\ Writing(AccountCalls, {"accounts"}) /\ Dropping(AccountCalls, "adminAccounts") /\ Settling(AccountCalls)
  /\ Writing(VenueCalls, {"places"}) /\ Dropping(VenueCalls, "adminVenues") /\ Dropping(VenueCalls, "bookings") /\ Settling(VenueCalls)
  /\ Writing(EquipmentCalls, {"stock"}) /\ Dropping(EquipmentCalls, "adminEquipment") /\ Dropping(EquipmentCalls, "bookings") /\ Settling(EquipmentCalls)
  /\ Writing(HolidayCalls, {"holidays"}) /\ Dropping(HolidayCalls, "adminHolidays") /\ Dropping(HolidayCalls, "badges") /\ Settling(HolidayCalls)
  /\ Writing(RuleCalls, {"rules"}) /\ Dropping(RuleCalls, "adminVenueRules") /\ Dropping(RuleCalls, "bookings") /\ Settling(RuleCalls)
  /\ Writing(StaffCalls, {"violations", "loans", "reminders"}) /\ Settling(StaffCalls)
  /\ Writing(ViewerCalls, {"scores"}) /\ Dropping(ViewerCalls, "viewer") /\ Dropping(ViewerCalls, "badges") /\ Settling(ViewerCalls)
<1>1. Writing(AdminBookingCalls, {"bookings", "requests", "loans", "rooms"}) /\ Dropping(AdminBookingCalls, "adminBookings") /\ Dropping(AdminBookingCalls, "bookings") /\ Dropping(AdminBookingCalls, "badges") /\ Settling(AdminBookingCalls)
  BY CallsAre DEF AdminBookingCalls, Dropping, Writing, Settling, Badges
<1>2. Writing(ManualCalls, {"bookings", "loans"}) /\ Dropping(ManualCalls, "adminBookings") /\ Dropping(ManualCalls, "bookings") /\ Settling(ManualCalls)
  BY CallsAre DEF ManualCalls, Dropping, Writing, Settling
<1>3. Writing(AdminActivityCalls, {"activities"}) /\ Dropping(AdminActivityCalls, "adminActivities") /\ Dropping(AdminActivityCalls, "badges") /\ Settling(AdminActivityCalls)
  BY CallsAre DEF AdminActivityCalls, Dropping, Writing, Settling, Badges
<1>4. Writing(ApplicationCalls, {"certificates", "postal"}) /\ Dropping(ApplicationCalls, "adminApplications") /\ Dropping(ApplicationCalls, "badges") /\ Settling(ApplicationCalls)
  BY CallsAre DEF ApplicationCalls, Dropping, Writing, Settling, Badges
<1>5. Writing(AdminMaintenanceCalls, {"maintenance"}) /\ Dropping(AdminMaintenanceCalls, "adminMaintenance") /\ Dropping(AdminMaintenanceCalls, "badges") /\ Settling(AdminMaintenanceCalls)
  BY CallsAre DEF AdminMaintenanceCalls, Dropping, Writing, Settling, Badges
<1>6. Writing(AdminAnnouncementCalls, {"announcements"}) /\ Dropping(AdminAnnouncementCalls, "adminAnnouncements") /\ Settling(AdminAnnouncementCalls)
  BY CallsAre DEF AdminAnnouncementCalls, Dropping, Writing, Settling
<1>7. Writing(ClubCalls, {"clubs"}) /\ Dropping(ClubCalls, "adminClubs") /\ Settling(ClubCalls)
  BY CallsAre DEF ClubCalls, Dropping, Writing, Settling
<1>8. Writing(OverdueCalls, {"clubs", "reminders"}) /\ Settling(OverdueCalls)
  BY CallsAre DEF OverdueCalls, Writing, Settling
<1>9. Writing(AdminSignupCalls, {"items", "entries", "sessions"}) /\ Settling(AdminSignupCalls)
  BY CallsAre DEF AdminSignupCalls, Writing, Settling
<1>10. Writing(EvalCalls, {"merits"}) /\ Dropping(EvalCalls, "adminEval") /\ Settling(EvalCalls)
  BY CallsAre DEF EvalCalls, Dropping, Writing, Settling
<1>11. Writing(AdminViolationCalls, {"violations"}) /\ Dropping(AdminViolationCalls, "adminViolations") /\ Dropping(AdminViolationCalls, "adminOverview") /\ Dropping(AdminViolationCalls, "badges") /\ Settling(AdminViolationCalls)
  BY CallsAre DEF AdminViolationCalls, Dropping, Writing, Settling, Badges
<1>12. Writing(FileCalls, {"files"}) /\ Dropping(FileCalls, "adminFiles") /\ Settling(FileCalls)
  BY CallsAre DEF FileCalls, Dropping, Writing, Settling
<1>13. Writing(SettingsCalls, {"settings"}) /\ Dropping(SettingsCalls, "adminSettings") /\ Dropping(SettingsCalls, "badges") /\ Settling(SettingsCalls)
  BY CallsAre DEF SettingsCalls, Dropping, Writing, Settling, Badges
<1>14. Writing(AccountCalls, {"accounts"}) /\ Dropping(AccountCalls, "adminAccounts") /\ Settling(AccountCalls)
  BY CallsAre DEF AccountCalls, Dropping, Writing, Settling
<1>15. Writing(VenueCalls, {"places"}) /\ Dropping(VenueCalls, "adminVenues") /\ Dropping(VenueCalls, "bookings") /\ Settling(VenueCalls)
  BY CallsAre DEF VenueCalls, Dropping, Writing, Settling
<1>16. Writing(EquipmentCalls, {"stock"}) /\ Dropping(EquipmentCalls, "adminEquipment") /\ Dropping(EquipmentCalls, "bookings") /\ Settling(EquipmentCalls)
  BY CallsAre DEF EquipmentCalls, Dropping, Writing, Settling
<1>17. Writing(HolidayCalls, {"holidays"}) /\ Dropping(HolidayCalls, "adminHolidays") /\ Dropping(HolidayCalls, "badges") /\ Settling(HolidayCalls)
  BY CallsAre DEF HolidayCalls, Dropping, Writing, Settling, Badges
<1>18. Writing(RuleCalls, {"rules"}) /\ Dropping(RuleCalls, "adminVenueRules") /\ Dropping(RuleCalls, "bookings") /\ Settling(RuleCalls)
  BY CallsAre DEF RuleCalls, Dropping, Writing, Settling
<1>19. Writing(StaffCalls, {"violations", "loans", "reminders"}) /\ Settling(StaffCalls)
  BY CallsAre DEF StaffCalls, Writing, Settling
<1>20. Writing(ViewerCalls, {"scores"}) /\ Dropping(ViewerCalls, "viewer") /\ Dropping(ViewerCalls, "badges") /\ Settling(ViewerCalls)
  BY CallsAre DEF ViewerCalls, Dropping, Writing, Settling, Badges
<1>21. Dropping(RemovalCall, "adminClubs") /\ Settling(RemovalCall)
  BY CallsAre DEF RemovalCall, Dropping, Settling
<1>. QED
  BY <1>1, <1>2, <1>3, <1>4, <1>5, <1>6, <1>7, <1>8, <1>9, <1>10, <1>11, <1>12, <1>13, <1>14, <1>15, <1>16, <1>17, <1>18, <1>19, <1>20, <1>21

\* The removal of a club changes nearly everything, but no account of the office and no
\* settings; that it leaves the badges is its exception.
LEMMA RemovalGroup ==
  ASSUME NEW c \in RemovalCall
  PROVE  c.name = "removeClub" /\ "accounts" \notin c.writes /\ "settings" \notin c.writes
BY CallsAre DEF RemovalCall

\* A reminder leaves every read as it is, on purpose; who starts the page over drops all.
LEMMA RemindersAreClean ==
  ASSUME NEW r, NEW c, c.writes = {"reminders"}
  PROVE  Clean(r, c)
BY DEF Clean, Unread

LEMMA DroppedPairIsClean ==
  ASSUME NEW r, NEW c, NEW d,
         \/ <<d>> \in c.drops /\ (r.key = <<d>> \/ r.key = <<d, r.key[2]>>)
         \/ \E n : <<d, n>> \in c.drops /\ r.key = <<d, n>>
  PROVE  Drops(c, r) /\ Clean(r, c)
BY PrefixOfKey DEF Clean, Drops

LEMMA DeleteIsClean ==
  ASSUME NEW R, NEW d, Under(R, d)
  PROVE  CleanAll(R, DeleteCall)
<1>1. \A c \in DeleteCall : <<>> \in c.drops
  BY CallsAre DEF DeleteCall
<1>2. QED
  BY <1>1, PrefixOfKey DEF Under, CleanAll, Clean, Drops

-----------------------------------------------------------------------------
(* The pairs that need a closer look than the first part of their keys. *)

LEMMA AnnouncementsAreClean == CleanAll(AnnouncementReads, AnnouncementCalls)
<1>. DEFINE list == Reads("announcements", {"list"}, {"announcements", "seen"})
            takeover == Reads("announcements", {"takeover"}, {"announcements", "dismissed"})
            dismiss == Calls({"dismiss"}, {"dismissed"}, {<<"announcements">>}, "success", 1)
            markRead == Calls({"markRead"}, {"seen"}, {<<"announcements", "list">>}, "success", 1)
<1>1. \A r \in list : r.key = <<"announcements", "list">>
  BY DEF Reads, Read
<1>2. CleanAll(list, markRead)
  <2>1. ASSUME NEW c \in markRead
        PROVE  <<"announcements", "list">> \in c.drops
    BY CallsAre
  <2>2. QED
    BY <1>1, <2>1, DroppedPairIsClean DEF CleanAll
<1>3. CleanAll(takeover, markRead)
  <2>1. Of(takeover, {"announcements", "dismissed"}) /\ Writing(markRead, {"seen"})
    BY ReadsAre, CallsAre DEF Writing
  <2>2. QED
    BY <2>1, ApartIsClean
<1>4. CleanAll(AnnouncementReads, dismiss)
  <2>1. Dropping(dismiss, "announcements")
    BY CallsAre DEF Dropping
  <2>2. QED
    BY <2>1, ClubReadGroups, DroppedIsClean
<1>5. QED
  BY <1>2, <1>3, <1>4 DEF AnnouncementReads, AnnouncementCalls, CleanAll

LEMMA SignupDeskIsClean == CleanAll(AdminSignupReads, AdminSignupCalls)
<1>. DEFINE items == Calls({"createItem", "updateItem"}, {"items"}, {<<"adminSignups">>}, "success", 1)
            entries == Calls({"addRegistration", "removeRegistration", "confirm"}, {"entries"}, {<<"adminSignups">>}, "success", 1)
            attendance == Calls({"markAttendance"}, {"sessions"}, {<<"adminSignups">>}, "success", 1)
            sessions == Calls({"createSession", "deleteSession"}, {"sessions"},
                              {<<"adminSignups", "sessions">>, <<"adminSignups", "registrations">>}, "success", 1)
            lists == Reads("adminSignups", {"list"}, {"items", "entries"})
            totals == Reads("adminSignups", {"openTotal"}, {"items"})
            registrations == Reads("adminSignups", {"registrations"}, {"entries", "sessions"})
            held == Reads("adminSignups", {"sessions"}, {"sessions"})
<1>1. Dropping(items, "adminSignups") /\ Dropping(entries, "adminSignups") /\ Dropping(attendance, "adminSignups")
  BY CallsAre DEF Dropping
<1>2. CleanAll(AdminSignupReads, items) /\ CleanAll(AdminSignupReads, entries) /\ CleanAll(AdminSignupReads, attendance)
  BY <1>1, AdminReadGroups, DroppedIsClean
<1>3. Writing(sessions, {"sessions"})
  BY CallsAre DEF Writing
<1>4. CleanAll(lists, sessions) /\ CleanAll(totals, sessions)
  <2>1. Of(lists, {"items", "entries"}) /\ Of(totals, {"items"})
    BY ReadsAre
  <2>2. QED
    BY <1>3, <2>1, ApartIsClean
<1>5. \A r \in registrations : r.key = <<"adminSignups", "registrations">>
  BY DEF Reads, Read
<1>6. \A r \in held : r.key = <<"adminSignups", "sessions">>
  BY DEF Reads, Read
<1>7. CleanAll(registrations, sessions) /\ CleanAll(held, sessions)
  <2>1. ASSUME NEW c \in sessions
        PROVE  <<"adminSignups", "sessions">> \in c.drops /\ <<"adminSignups", "registrations">> \in c.drops
    BY CallsAre
  <2>2. QED
    BY <1>5, <1>6, <2>1, DroppedPairIsClean DEF CleanAll
<1>8. QED
  BY <1>2, <1>4, <1>7 DEF AdminSignupReads, AdminSignupCalls, CleanAll

\* What a working student reads under "staff" is dropped by what he changes there;
\* the configuration does not depend on it.
LEMMA StaffIsClean == CleanAll(StaffReads, StaffCalls)
<1>1. ASSUME NEW c \in StaffCalls, c.writes # {"reminders"}
      PROVE  <<"staff">> \in c.drops
  BY <1>1, CallsAre DEF StaffCalls
<1>2. ASSUME NEW r \in StaffReads
      PROVE  \/ r.of = {"settings"}
             \/ r.key = <<"staff", r.key[2]>>
  BY DEF StaffReads, Reads, Read
<1>3. ASSUME NEW r \in StaffReads, NEW c \in StaffCalls
      PROVE  Clean(r, c)
  <2>1. CASE c.writes = {"reminders"}
    BY <2>1, RemindersAreClean
  <2>2. CASE c.writes # {"reminders"} /\ r.key = <<"staff", r.key[2]>>
    BY <1>1, <2>2, DroppedPairIsClean
  <2>3. CASE r.of = {"settings"}
    BY <2>3, AdminCallGroups DEF Writing, Clean
  <2>4. QED
    BY <1>2, <2>1, <2>2, <2>3
<1>4. QED
  BY <1>3 DEF CleanAll

\* The overview of one club reads under the keys of three lists.
LEMMA OverviewGroups ==
  ASSUME NEW r \in ClubOverviewReads
  PROVE  /\ \/ r.key = <<"adminActivities", r.key[2]>> /\ r.of = {"activities"}
            \/ r.key = <<"adminBookings", r.key[2]>> /\ r.of \subseteq {"rooms", "bookings", "loans", "reminders"}
            \/ r.key = <<"adminMaintenance", r.key[2]>> /\ r.of = {"maintenance"}
         /\ r.life = "none"
<1>1. CASE r \in Reads("adminActivities", {"club"}, {"activities"})
  <2>1. r.key = <<"adminActivities", r.key[2]>> /\ r.of = {"activities"} /\ r.life = "none"
    BY <1>1, ReadIs
  <2>. QED
    BY <2>1
<1>2. CASE r \in Reads("adminMaintenance", {"club"}, {"maintenance"})
  <2>1. r.key = <<"adminMaintenance", r.key[2]>> /\ r.of = {"maintenance"} /\ r.life = "none"
    BY <1>2, ReadIs
  <2>. QED
    BY <2>1
<1>3. CASE r \in Reads("adminBookings", {"clubRooms"}, {"rooms"})
  <2>1. r.key = <<"adminBookings", r.key[2]>> /\ r.of = {"rooms"} /\ r.life = "none"
    BY <1>3, ReadIs
  <2>. QED
    BY <2>1
<1>4. CASE r \in Reads("adminBookings", {"clubVenues"}, {"bookings"})
  <2>1. r.key = <<"adminBookings", r.key[2]>> /\ r.of = {"bookings"} /\ r.life = "none"
    BY <1>4, ReadIs
  <2>. QED
    BY <2>1
<1>5. CASE r \in Reads("adminBookings", {"loans"}, {"loans"})
  <2>1. r.key = <<"adminBookings", r.key[2]>> /\ r.of = {"loans"} /\ r.life = "none"
    BY <1>5, ReadIs
  <2>. QED
    BY <2>1
<1>6. CASE r \in Reads("adminBookings", {"loansOverdue"}, {"loans", "reminders"})
  <2>1. r.key = <<"adminBookings", r.key[2]>> /\ r.of = {"loans", "reminders"} /\ r.life = "none"
    BY <1>6, ReadIs
  <2>. QED
    BY <2>1
<1>7. QED
  BY <1>1, <1>2, <1>3, <1>4, <1>5, <1>6 DEF ClubOverviewReads

LEMMA OverviewIsClean ==
  /\ CleanAll(ClubOverviewReads, AdminBookingCalls)
  /\ CleanAll(ClubOverviewReads, AdminActivityCalls)
  /\ CleanAll(ClubOverviewReads, OverdueCalls)
<1>1. ASSUME NEW r \in ClubOverviewReads, NEW c \in AdminBookingCalls
      PROVE  Clean(r, c)
  <2>1. <<"adminBookings">> \in c.drops /\ c.writes \subseteq {"bookings", "requests", "loans", "rooms"}
    BY AdminCallGroups DEF Dropping, Writing
  <2>2. CASE r.key = <<"adminBookings", r.key[2]>>
    BY <2>1, <2>2, DroppedPairIsClean
  <2>3. CASE r.of = {"activities"} \/ r.of = {"maintenance"}
    BY <2>1, <2>3 DEF Clean
  <2>4. QED
    BY <2>2, <2>3, OverviewGroups
<1>2. ASSUME NEW r \in ClubOverviewReads, NEW c \in AdminActivityCalls
      PROVE  Clean(r, c)
  <2>1. <<"adminActivities">> \in c.drops /\ c.writes \subseteq {"activities"}
    BY AdminCallGroups DEF Dropping, Writing
  <2>2. CASE r.key = <<"adminActivities", r.key[2]>>
    BY <2>1, <2>2, DroppedPairIsClean
  <2>3. CASE r.of \subseteq {"rooms", "bookings", "loans", "reminders"} \/ r.of = {"maintenance"}
    BY <2>1, <2>3 DEF Clean
  <2>4. QED
    BY <2>2, <2>3, OverviewGroups
<1>3. CleanAll(ClubOverviewReads, OverdueCalls)
  <2>1. \A c \in OverdueCalls : c.writes = {"reminders"} \/ c.writes = {"clubs"}
    BY CallsAre DEF OverdueCalls
  <2>2. QED
    BY <2>1, OverviewGroups, RemindersAreClean DEF CleanAll, Clean
<1>4. QED
  BY <1>1, <1>2, <1>3 DEF CleanAll

LEMMA OverdueIsClean == CleanAll(ClubReads, OverdueCalls)
<1>1. \A c \in OverdueCalls : c.writes = {"reminders"} \/ <<"adminClubs">> \in c.drops
  BY CallsAre DEF OverdueCalls
<1>2. ASSUME NEW r \in ClubReads, NEW c \in OverdueCalls
      PROVE  Clean(r, c)
  <2>1. r.key = <<"adminClubs">> \/ r.key = <<"adminClubs", r.key[2]>>
    BY AdminReadGroups DEF Under
  <2>2. QED
    BY <1>1, <2>1, DroppedPairIsClean, RemindersAreClean
<1>3. QED
  BY <1>2 DEF CleanAll

\* The list of venues depends on nothing but the venues.
LEMMA VenueListGroup ==
  LET venues == {r \in AdminBookingReads : r.key[2] = "venues"}
  IN Under(venues, "adminBookings") /\ Of(venues, {"places"})
<1>1. \A r \in AdminBookingReads : r.key[2] = "venues" => r.of = {"places"}
  BY DEF AdminBookingReads, Reads, Read
<1>2. QED
  BY <1>1, AdminReadGroups DEF Under, Of

-----------------------------------------------------------------------------
(* Every page: what it shows next to a request is dropped by it or stays on purpose. *)

PageIsClean(p) == CleanAll(p.shows, p.asks)

LEMMA CleanPage ==
  ASSUME NEW R, NEW C, CleanAll(R, C)
  PROVE  PageIsClean(Page(R, C))
BY DEF PageIsClean, Page

LEMMA ClubPagesAreClean == \A p \in ClubPages : PageIsClean(p)
<1>1. PageIsClean(Page(AnnouncementReads \cup OverviewRead \cup MaintenanceReads \cup PostalReads \cup CertificateReads \cup BookingReads,
             AnnouncementCalls))
  <2>1. CleanAll(OverviewRead, AnnouncementCalls) /\ CleanAll(MaintenanceReads, AnnouncementCalls) /\ CleanAll(PostalReads, AnnouncementCalls) /\ CleanAll(CertificateReads, AnnouncementCalls) /\ CleanAll(BookingReads, AnnouncementCalls)
    BY ClubReadGroups, ClubCallGroups, ApartIsClean
  <2>. QED
    BY <2>1, AnnouncementsAreClean, CleanUnion, CleanPage
<1>2. PageIsClean(Page(ActivityReads \cup ReviewRead, ActivityCalls \cup DeleteCall))
  <2>1. CleanAll(ActivityReads, ActivityCalls) /\ CleanAll(ReviewRead, ActivityCalls)
    BY ClubReadGroups, ClubCallGroups, DroppedIsClean
  <2>2. CleanAll(ActivityReads, DeleteCall) /\ CleanAll(ReviewRead, DeleteCall)
    BY ClubReadGroups, DeleteIsClean
  <2>. QED
    BY <2>1, <2>2, CleanUnion, CleanPage
<1>3. PageIsClean(Page(BookingReads \cup ActivityReads, BookingCalls))
  <2>1. CleanAll(BookingReads, BookingCalls)
    BY ClubReadGroups, ClubCallGroups, DroppedIsClean
  <2>2. CleanAll(ActivityReads, BookingCalls)
    BY ClubReadGroups, ClubCallGroups, ApartIsClean
  <2>. QED
    BY <2>1, <2>2, CleanUnion, CleanPage
<1>4. PageIsClean(Page(MaintenanceReads \cup ConfigRead, MaintenanceCalls))
  <2>1. CleanAll(MaintenanceReads, MaintenanceCalls)
    BY ClubReadGroups, ClubCallGroups, DroppedIsClean
  <2>2. CleanAll(ConfigRead, MaintenanceCalls)
    BY ClubReadGroups, ClubCallGroups, ApartIsClean
  <2>. QED
    BY <2>1, <2>2, CleanUnion, CleanPage
<1>5. PageIsClean(Page(PostalReads, PostalCalls))
  BY ClubReadGroups, ClubCallGroups, DroppedIsClean, CleanPage
<1>6. PageIsClean(Page(CertificateReads \cup OfficerNames \cup MemberReads, CertificateCalls))
  <2>1. CleanAll(CertificateReads, CertificateCalls)
    BY ClubReadGroups, ClubCallGroups, DroppedIsClean
  <2>2. CleanAll(OfficerNames, CertificateCalls) /\ CleanAll(MemberReads, CertificateCalls)
    BY ClubReadGroups, ClubCallGroups, ApartIsClean
  <2>. QED
    BY <2>1, <2>2, CleanUnion, CleanPage
<1>7. PageIsClean(Page(SignupReads, SignupCalls))
  BY ClubReadGroups, ClubCallGroups, DroppedIsClean, CleanPage
<1>8. PageIsClean(Page(MemberReads, MemberCalls))
  BY ClubReadGroups, ClubCallGroups, DroppedIsClean, CleanPage
<1>9. PageIsClean(Page(AwardReads, AwardCalls))
  BY ClubReadGroups, ClubCallGroups, DroppedIsClean, CleanPage
<1>. QED
  BY <1>1, <1>2, <1>3, <1>4, <1>5, <1>6, <1>7, <1>8, <1>9 DEF ClubPages

LEMMA AdminPagesAreClean == \A p \in AdminPages : PageIsClean(p)
<1>1. PageIsClean(Page(AdminActivityReads \cup ClubReads, AdminActivityCalls \cup DeleteCall))
  <2>1. CleanAll(AdminActivityReads, AdminActivityCalls)
    BY AdminReadGroups, AdminCallGroups, DroppedIsClean
  <2>2. CleanAll(AdminActivityReads, DeleteCall) /\ CleanAll(ClubReads, DeleteCall)
    BY AdminReadGroups, DeleteIsClean
  <2>3. CleanAll(ClubReads, AdminActivityCalls)
    BY AdminReadGroups, AdminCallGroups, ApartIsClean
  <2>. QED
    BY <2>1, <2>2, <2>3, CleanUnion, CleanPage
<1>2. PageIsClean(Page(AdminSignupReads \cup ClubReads, AdminSignupCalls))
  <2>1. CleanAll(ClubReads, AdminSignupCalls)
    BY AdminReadGroups, AdminCallGroups, ApartIsClean
  <2>. QED
    BY <2>1, SignupDeskIsClean, CleanUnion, CleanPage
<1>3. PageIsClean(Page(AdminAnnouncementRead \cup ClubReads, AdminAnnouncementCalls))
  <2>1. CleanAll(AdminAnnouncementRead, AdminAnnouncementCalls)
    BY AdminReadGroups, AdminCallGroups, DroppedIsClean
  <2>2. CleanAll(ClubReads, AdminAnnouncementCalls)
    BY AdminReadGroups, AdminCallGroups, ApartIsClean
  <2>. QED
    BY <2>1, <2>2, CleanUnion, CleanPage
<1>4. PageIsClean(Page(AdminBookingReads \cup ClubReads \cup EquipmentRead, AdminBookingCalls))
  <2>1. CleanAll(AdminBookingReads, AdminBookingCalls)
    BY AdminReadGroups, AdminCallGroups, DroppedIsClean
  <2>2. CleanAll(ClubReads, AdminBookingCalls) /\ CleanAll(EquipmentRead, AdminBookingCalls)
    BY AdminReadGroups, AdminCallGroups, ApartIsClean
  <2>. QED
    BY <2>1, <2>2, CleanUnion, CleanPage
<1>5. PageIsClean(Page({r \in AdminBookingReads : r.key[2] = "venues"} \cup EquipmentRead,
             ManualCalls))
  <2>1. CleanAll({r \in AdminBookingReads : r.key[2] = "venues"}, ManualCalls)
    BY VenueListGroup, AdminCallGroups, DroppedIsClean
  <2>2. CleanAll(EquipmentRead, ManualCalls)
    BY AdminReadGroups, AdminCallGroups, ApartIsClean
  <2>. QED
    BY <2>1, <2>2, CleanUnion, CleanPage
<1>6. PageIsClean(Page({r \in AdminBookingReads : r.key[2] = "venues"} \cup RuleReads,
             RuleCalls))
  <2>1. CleanAll({r \in AdminBookingReads : r.key[2] = "venues"}, RuleCalls)
    BY VenueListGroup, AdminCallGroups, ApartIsClean
  <2>2. CleanAll(RuleReads, RuleCalls)
    BY AdminReadGroups, AdminCallGroups, DroppedIsClean
  <2>. QED
    BY <2>1, <2>2, CleanUnion, CleanPage
<1>7. PageIsClean(Page(ClubOverviewReads \cup AdminActivityReads \cup ClubReads,
             AdminBookingCalls \cup AdminActivityCalls))
  <2>1. CleanAll(AdminActivityReads, AdminBookingCalls) /\ CleanAll(ClubReads, AdminBookingCalls) /\ CleanAll(ClubReads, AdminActivityCalls)
    BY AdminReadGroups, AdminCallGroups, ApartIsClean
  <2>2. CleanAll(AdminActivityReads, AdminActivityCalls)
    BY AdminReadGroups, AdminCallGroups, DroppedIsClean
  <2>. QED
    BY <2>1, <2>2, OverviewIsClean, CleanUnion, CleanPage
<1>8. PageIsClean(Page(ClubReads,
             {c \in ClubCalls : c.name \in {"updateClub", "resetPassword"}}))
  <2>1. Dropping({c \in ClubCalls : c.name \in {"updateClub", "resetPassword"}}, "adminClubs")
    BY AdminCallGroups DEF Dropping
  <2>. QED
    BY <2>1, AdminReadGroups, DroppedIsClean, CleanPage
<1>9. PageIsClean(Page(ClubOverviewReads \cup ClubReads, OverdueCalls))
  <2>. QED
    BY OverviewIsClean, OverdueIsClean, CleanUnion, CleanPage
<1>10. PageIsClean(Page(EvalReads, EvalCalls))
  BY AdminReadGroups, AdminCallGroups, DroppedIsClean, CleanPage
<1>11. PageIsClean(Page(AccountReads \cup ClubReads, AccountCalls \cup ClubCalls \cup RemovalCall))
  <2>1. CleanAll(AccountReads, AccountCalls) /\ CleanAll(ClubReads, ClubCalls) /\ CleanAll(ClubReads, RemovalCall)
    BY AdminReadGroups, AdminCallGroups, DroppedIsClean
  <2>2. CleanAll(AccountReads, ClubCalls) /\ CleanAll(ClubReads, AccountCalls)
    BY AdminReadGroups, AdminCallGroups, ApartIsClean
  <2>3. CleanAll(AccountReads, RemovalCall)
    BY AdminReadGroups, RemovalGroup DEF Of, CleanAll, Clean
  <2>. QED
    BY <2>1, <2>2, <2>3, CleanUnion, CleanPage
<1>12. PageIsClean(Page(ApplicationReads, ApplicationCalls))
  BY AdminReadGroups, AdminCallGroups, DroppedIsClean, CleanPage
<1>13. PageIsClean(Page(AdminMaintenanceReads, AdminMaintenanceCalls))
  BY AdminReadGroups, AdminCallGroups, DroppedIsClean, CleanPage
<1>14. PageIsClean(Page(AdminViolationReads \cup OpenViolations, AdminViolationCalls))
  <2>1. CleanAll(AdminViolationReads, AdminViolationCalls) /\ CleanAll(OpenViolations, AdminViolationCalls)
    BY AdminReadGroups, AdminCallGroups, DroppedIsClean
  <2>. QED
    BY <2>1, CleanUnion, CleanPage
<1>15. PageIsClean(Page(FileReads, FileCalls))
  BY AdminReadGroups, AdminCallGroups, DroppedIsClean, CleanPage
<1>16. PageIsClean(Page(SettingsRead \cup VenueRead \cup EquipmentRead \cup HolidayRead,
             SettingsCalls \cup VenueCalls \cup EquipmentCalls \cup HolidayCalls))
  <2>1. CleanAll(SettingsRead, SettingsCalls) /\ CleanAll(VenueRead, VenueCalls) /\ CleanAll(EquipmentRead, EquipmentCalls) /\ CleanAll(HolidayRead, HolidayCalls)
    BY AdminReadGroups, AdminCallGroups, DroppedIsClean
  <2>2. CleanAll(SettingsRead, VenueCalls) /\ CleanAll(SettingsRead, EquipmentCalls) /\ CleanAll(SettingsRead, HolidayCalls) /\ CleanAll(VenueRead, SettingsCalls) /\ CleanAll(VenueRead, EquipmentCalls) /\ CleanAll(VenueRead, HolidayCalls) /\ CleanAll(EquipmentRead, SettingsCalls) /\ CleanAll(EquipmentRead, VenueCalls) /\ CleanAll(EquipmentRead, HolidayCalls) /\ CleanAll(HolidayRead, SettingsCalls) /\ CleanAll(HolidayRead, VenueCalls) /\ CleanAll(HolidayRead, EquipmentCalls)
    BY AdminReadGroups, AdminCallGroups, ApartIsClean
  <2>. QED
    BY <2>1, <2>2, CleanUnion, CleanPage
<1>. QED
  BY <1>1, <1>2, <1>3, <1>4, <1>5, <1>6, <1>7, <1>8, <1>9, <1>10, <1>11, <1>12, <1>13, <1>14, <1>15, <1>16 DEF AdminPages

LEMMA PagesAreClean ==
  ASSUME NEW p \in Pages, NEW r \in p.shows, NEW c \in p.asks
  PROVE  Clean(r, c)
<1>1. CleanAll(ViewerReads, ViewerCalls)
  BY AdminReadGroups, AdminCallGroups, DroppedIsClean
<1>2. CASE p \in ClubPages \/ p \in AdminPages
  BY <1>2, ClubPagesAreClean, AdminPagesAreClean DEF CleanAll, PageIsClean
<1>3. CASE p \in StaffPages \/ p \in ViewerPages
  BY <1>3, <1>1, StaffIsClean DEF CleanAll, StaffPages, ViewerPages, Page
<1>. QED
  BY <1>2, <1>3 DEF Pages

-----------------------------------------------------------------------------
(* Every session: the reads of the shell, which are shown next to every request. *)

\* The keys of the shell.
LEMMA ShellKeys ==
  ASSUME NEW r, InShell(r)
  PROVE  \/ r.key = Badges
         \/ r.key = <<"announcements", r.key[2]>>
         \/ r.key = <<"bookings", "fixed-window">>
         \/ r.key = <<"adminClubs", "options">>
<1>1. PICK s \in Shell : s.key = r.key
  BY DEF InShell
<1>2. CASE s \in BadgesRead({})
  BY <1>1, <1>2 DEF BadgesRead, Read
<1>3. CASE s \in AnnouncementReads
  <2>1. s.key = <<"announcements", s.key[2]>>
    BY <1>3, ReadIs DEF AnnouncementReads
  <2>. QED
    BY <1>1, <2>1
<1>4. CASE s \in BookingReads /\ s.key[2] = "fixed-window"
  <2>1. s.key = <<"bookings", s.key[2]>>
    BY <1>4, ReadIs DEF BookingReads
  <2>. QED
    BY <1>1, <1>4, <2>1
<1>5. CASE s \in ClubReads /\ s.key[2] = "options"
  <2>1. s.key = <<"adminClubs", s.key[2]>>
    <3>1. CASE \E n \in {"list", "options"} : s = Read(<<"adminClubs", n>>, {"clubs"}, "long")
      BY <3>1 DEF Read
    <3>2. CASE s \in Reads("adminClubs", {"detail", "suspended"}, {"clubs"})
               \/ s \in Reads("adminClubs", {"members", "memberSemesters"}, {"members"})
      BY <3>2, ReadIs
    <3>3. QED
      BY <1>5, <3>1, <3>2 DEF ClubReads
  <2>. QED
    BY <1>1, <1>5, <2>1
<1>6. QED
  BY <1>1, <1>2, <1>3, <1>4, <1>5 DEF Shell

LEMMA BadgesInShell ==
  ASSUME NEW r, r.key = Badges
  PROVE  InShell(r)
<1>1. Read(Badges, {}, "poll") \in Shell /\ Read(Badges, {}, "poll").key = Badges
  BY DEF Shell, BadgesRead, Read
<1>2. QED
  BY <1>1 DEF InShell

LEMMA BadgesAreClean ==
  ASSUME NEW r, NEW c, r.key = Badges, Badges \in c.drops
  PROVE  Clean(r, c)
BY DroppedPairIsClean DEF Badges

LEMMA FixedWindowGroup ==
  ASSUME NEW r \in BookingReads, r.key = <<"bookings", "fixed-window">>
  PROVE  r.of = {"settings"}
BY DEF BookingReads, Reads, Read

LEMMA OptionsGroup ==
  ASSUME NEW r \in ClubReads, r.key = <<"adminClubs", "options">>
  PROVE  r.life = "long"
BY DEF ClubReads, Reads, Read

\* The badges are read every minute, and count no reminders.
Counted(r) == r.key = Badges => r.life = "poll" /\ "reminders" \notin r.of

LEMMA BadgesGroup ==
  ASSUME NEW of, NEW r \in BadgesRead(of)
  PROVE  r.key = Badges /\ r.of = of /\ r.life = "poll"
BY DEF BadgesRead, Read

LEMMA StaffGroup ==
  ASSUME NEW r \in StaffReads
  PROVE  r.key[1] \in {"staff", "staffConfig"} /\ r.life \in {"none", "long"}
BY DEF StaffReads, Reads, Read

\* Where the keys of the shell lead in each session.
LEMMA ClubKeys ==
  ASSUME NEW r \in ClubSession.reads
  PROVE  /\ r.life \in {"none", "long"} \/ r.key = Badges
         /\ Counted(r)
         /\ r.key = Badges => r.of = {"activities", "loans", "items", "entries", "maintenance", "postal", "violations", "settings"}
         /\ r.key = <<"announcements", r.key[2]>> => r \in AnnouncementReads
         /\ r.key = <<"bookings", "fixed-window">> => r.of = {"settings"}
         /\ r.key # <<"adminClubs", "options">>
<1>1. CASE r \in BookingReads
  BY <1>1, ClubReadGroups, FixedWindowGroup DEF Under, Plain, Badges, Counted
<1>2. CASE r \in AnnouncementReads
  BY <1>2, ClubReadGroups DEF Under, Plain, Badges, Counted
<1>3. CASE r \in BadgesRead({"activities", "loans", "items", "entries", "maintenance", "postal", "violations", "settings"})
  BY <1>3, BadgesGroup DEF Badges, Counted
<1>4. CASE \/ r \in ActivityReads \/ r \in ReviewRead \/ r \in OverviewRead \/ r \in MaintenanceReads \/ r \in PostalReads
           \/ r \in CertificateReads \/ r \in OfficerNames \/ r \in SignupReads \/ r \in MemberReads \/ r \in AwardReads
           \/ r \in ViolationRead \/ r \in PublicReads \/ r \in ConfigRead
  BY <1>4, ClubReadGroups DEF Under, Plain, Badges, Counted
<1>5. QED
  BY <1>1, <1>2, <1>3, <1>4 DEF ClubSession

LEMMA AdminKeys ==
  ASSUME NEW r \in AdminSession.reads
  PROVE  /\ r.life \in {"none", "long"} \/ r.key = Badges
         /\ Counted(r)
         /\ r.key = Badges => r.of = {"activities", "requests", "rooms", "loans", "settings", "holidays", "certificates", "postal",
                                      "maintenance", "violations", "scores"}
         /\ r.key # <<"announcements", r.key[2]>>
         /\ r.key = <<"bookings", "fixed-window">> => r.of = {"settings"}
         /\ r.key = <<"adminClubs", "options">> => r.life = "long"
<1>1. CASE r \in BookingReads
  BY <1>1, ClubReadGroups, FixedWindowGroup DEF Under, Plain, Badges, Counted
<1>2. CASE r \in ClubReads
  BY <1>2, AdminReadGroups, OptionsGroup DEF Under, Plain, Badges, Counted
<1>3. CASE r \in BadgesRead({"activities", "requests", "rooms", "loans", "settings", "holidays", "certificates", "postal",
                             "maintenance", "violations", "scores"})
  BY <1>3, BadgesGroup DEF Badges, Counted
<1>4. CASE \/ r \in AdminBookingReads \/ r \in AdminActivityReads \/ r \in OpenViolations \/ r \in ApplicationReads
           \/ r \in AdminMaintenanceReads \/ r \in AdminAnnouncementRead \/ r \in AdminSignupReads \/ r \in EvalReads
           \/ r \in AuditReads \/ r \in AdminViolationReads \/ r \in FileReads \/ r \in SettingsRead \/ r \in AccountReads
           \/ r \in VenueRead \/ r \in EquipmentRead \/ r \in HolidayRead \/ r \in RuleReads \/ r \in ViewerReads
  BY <1>4, AdminReadGroups DEF Under, Plain, Badges, Counted
<1>5. CASE r \in ClubOverviewReads
  BY <1>5, OverviewGroups DEF Badges, Counted
<1>6. CASE r \in StaffReads
  BY <1>6, StaffGroup DEF Badges, Counted
<1>7. CASE r \in PublicReads
  BY <1>7, ClubReadGroups DEF Under, Plain, Badges, Counted
<1>8. QED
  BY <1>1, <1>2, <1>3, <1>4, <1>5, <1>6, <1>7 DEF AdminSession

LEMMA StaffKeys ==
  ASSUME NEW r \in StaffSession.reads
  PROVE  /\ r.life \in {"none", "long"} \/ r.key = Badges
         /\ Counted(r)
         /\ r.key # <<"announcements", r.key[2]>> /\ r.key # <<"bookings", "fixed-window">> /\ r.key # <<"adminClubs", "options">>
<1>1. CASE r \in StaffReads
  BY <1>1, StaffGroup DEF Badges, Counted
<1>2. CASE r \in BadgesRead({"loans", "settings", "holidays"})
  BY <1>2, BadgesGroup DEF Badges, Counted
<1>3. QED
  BY <1>1, <1>2 DEF StaffSession

LEMMA ViewerKeys ==
  ASSUME NEW r \in ViewerSession.reads
  PROVE  /\ r.life \in {"none", "long"} \/ r.key = Badges
         /\ Counted(r)
         /\ r.key # <<"announcements", r.key[2]>> /\ r.key # <<"bookings", "fixed-window">> /\ r.key # <<"adminClubs", "options">>
<1>1. CASE r \in ViewerReads
  BY <1>1, AdminReadGroups DEF Under, Plain, Badges, Counted
<1>2. CASE r \in BadgesRead({"scores"})
  BY <1>2, BadgesGroup DEF Badges, Counted
<1>3. QED
  BY <1>1, <1>2 DEF ViewerSession

\* The requests of each session leave the badges and the window of the fixed slots as they are, or drop them.
LEMMA ClubShell ==
  ASSUME NEW r \in ClubSession.reads, NEW c \in ClubSession.calls, InShell(r)
  PROVE  Clean(r, c)
<1>1. CASE c \in BookingCalls \/ c \in ActivityCalls \/ c \in MaintenanceCalls \/ c \in PostalCalls \/ c \in SignupCalls
  <2>1. CASE r.key = Badges
    BY <1>1, <2>1, ClubCallGroups, DroppedPairIsClean DEF Dropping, Badges
  <2>2. CASE r.key = <<"announcements", r.key[2]>> \/ r.key = <<"bookings", "fixed-window">>
    BY <1>1, <2>2, ClubKeys, ClubReadGroups, ClubCallGroups DEF Writing, Of, Clean
  <2>3. QED
    BY <2>1, <2>2, ShellKeys, ClubKeys
<1>2. CASE c \in DeleteCall
  <2>1. <<>> \in c.drops
    BY <1>2, CallsAre DEF DeleteCall
  <2>2. Drops(c, r)
    BY <2>1, PrefixOfKey, ShellKeys DEF Drops, Badges
  <2>3. QED
    BY <2>2 DEF Clean
<1>3. CASE c \in CertificateCalls \/ c \in MemberCalls \/ c \in AwardCalls
  BY <1>3, ShellKeys, ClubKeys, ClubReadGroups, ClubCallGroups DEF Writing, Of, Clean
<1>4. CASE c \in AnnouncementCalls
  <2>1. CASE r.key = <<"announcements", r.key[2]>>
    BY <1>4, <2>1, ClubKeys, AnnouncementsAreClean DEF CleanAll
  <2>2. CASE r.key = Badges \/ r.key = <<"bookings", "fixed-window">>
    BY <1>4, <2>2, ClubKeys, ClubCallGroups DEF Writing, Clean
  <2>3. QED
    BY <2>1, <2>2, ShellKeys, ClubKeys
<1>5. QED
  BY <1>1, <1>2, <1>3, <1>4 DEF ClubSession

LEMMA AdminShell ==
  ASSUME NEW r \in AdminSession.reads, NEW c \in AdminSession.calls, InShell(r)
  PROVE  Clean(r, c)
<1>1. CASE r.life = "long"
  BY <1>1 DEF Clean, Unread
<1>2. CASE c \in StaffCalls
  <2>1. c.writes = {"reminders"} \/ Badges \in c.drops
    BY <1>2, CallsAre DEF StaffCalls
  <2>2. CASE c.writes = {"reminders"}
    BY <2>2, RemindersAreClean
  <2>3. CASE Badges \in c.drops /\ r.key = Badges
    BY <2>3, BadgesAreClean
  <2>4. CASE r.key = <<"bookings", "fixed-window">>
    BY <1>2, <2>4, AdminKeys, AdminCallGroups DEF Writing, Clean
  <2>5. QED
    BY <1>1, <2>1, <2>2, <2>3, <2>4, ShellKeys, AdminKeys
<1>3. CASE c \in ManualCalls
  <2>1. CASE r.key = Badges
    <3>1. c.name = "createEquipment" \/ c.writes = {"bookings"}
      BY <1>3, CallsAre DEF ManualCalls
    <3>2. QED
      BY <2>1, <3>1, AdminKeys DEF Unread, Clean
  <2>2. CASE r.key = <<"bookings", "fixed-window">>
    BY <1>3, <2>2, AdminKeys, AdminCallGroups DEF Writing, Clean
  <2>3. QED
    BY <1>1, <2>1, <2>2, ShellKeys, AdminKeys
<1>4. CASE c \in DeleteCall
  <2>1. <<>> \in c.drops
    BY <1>4, CallsAre DEF DeleteCall
  <2>2. Drops(c, r)
    BY <2>1, PrefixOfKey, ShellKeys DEF Drops, Badges
  <2>3. QED
    BY <2>2 DEF Clean
<1>5. CASE c \in SettingsCalls
  <2>1. <<"bookings", "fixed-window">> \in c.drops /\ Badges \in c.drops
    BY <1>5, CallsAre DEF SettingsCalls
  <2>2. CASE r.key = <<"bookings", "fixed-window">>
    BY <2>1, <2>2, DroppedPairIsClean
  <2>3. QED
    BY <1>1, <2>1, <2>2, ShellKeys, AdminKeys, BadgesAreClean
<1>6. CASE \/ c \in AdminBookingCalls \/ c \in AdminActivityCalls \/ c \in ApplicationCalls \/ c \in AdminMaintenanceCalls
           \/ c \in AdminViolationCalls \/ c \in HolidayCalls \/ c \in ViewerCalls
  <2>1. CASE r.key = Badges
    BY <1>6, <2>1, AdminCallGroups, DroppedPairIsClean DEF Dropping, Badges
  <2>2. CASE r.key = <<"bookings", "fixed-window">>
    BY <1>6, <2>2, AdminKeys, AdminCallGroups DEF Writing, Clean
  <2>3. QED
    BY <1>1, <2>1, <2>2, ShellKeys, AdminKeys
<1>7. CASE \/ c \in AdminAnnouncementCalls \/ c \in ClubCalls \/ c \in OverdueCalls \/ c \in AdminSignupCalls \/ c \in EvalCalls
           \/ c \in FileCalls \/ c \in AccountCalls \/ c \in VenueCalls \/ c \in EquipmentCalls \/ c \in RuleCalls
  <2>1. c.writes \subseteq {"announcements", "clubs", "reminders", "items", "entries", "sessions", "merits", "files", "accounts",
                         "places", "stock", "rules"}
    BY <1>7, AdminCallGroups DEF Writing
  <2>2. CASE r.key = Badges \/ r.key = <<"bookings", "fixed-window">>
    BY <2>1, <2>2, AdminKeys DEF Clean
  <2>3. QED
    BY <1>1, <2>2, ShellKeys, AdminKeys
<1>8. CASE c \in RemovalCall
  <2>1. CASE r.key = Badges
    BY <1>8, <2>1, RemovalGroup DEF Unread, Clean
  <2>2. CASE r.key = <<"bookings", "fixed-window">>
    BY <1>8, <2>2, AdminKeys, RemovalGroup DEF Clean
  <2>3. QED
    BY <1>1, <2>1, <2>2, ShellKeys, AdminKeys
<1>9. QED
  BY <1>2, <1>3, <1>4, <1>5, <1>6, <1>7, <1>8 DEF AdminSession

LEMMA OfficeShell ==
  ASSUME NEW s \in {StaffSession, ViewerSession}, NEW r \in s.reads, NEW c \in s.calls, InShell(r)
  PROVE  Clean(r, c)
<1>1. r.key = Badges
  BY ShellKeys, StaffKeys, ViewerKeys
<1>2. CASE s = StaffSession
  <2>1. c.writes = {"reminders"} \/ Badges \in c.drops
    BY <1>2, CallsAre DEF StaffCalls, StaffSession
  <2>2. QED
    BY <1>1, <2>1, RemindersAreClean, BadgesAreClean
<1>3. CASE s = ViewerSession
  BY <1>1, <1>3, AdminCallGroups, DroppedPairIsClean DEF Dropping, Badges, ViewerSession
<1>4. QED
  BY <1>2, <1>3

\* A request of two steps drops its keys however it ends.
LEMMA CallsSettle ==
  ASSUME NEW s \in Sessions, NEW c \in s.calls
  PROVE  c.steps > 1 => c.on = "settled"
<1>1. Settling(ClubSession.calls)
  BY ClubCallGroups DEF ClubSession, Settling
<1>2. Settling(AdminSession.calls)
  BY ClubCallGroups, AdminCallGroups DEF AdminSession, Settling
<1>3. Settling(StaffSession.calls) /\ Settling(ViewerSession.calls)
  BY AdminCallGroups DEF StaffSession, ViewerSession, Settling
<1>4. QED
  BY <1>1, <1>2, <1>3 DEF Sessions, Settling

\* The catalogue is complete but for what it names.  Of what one session may run next to each other: a
\* request drops every read it changes that a page shows with it, or that counts
\* as fresh when a page opens, or the read is one of those it leaves (Unread): the
\* time of the last reminder, what is fresh for minutes, and the badges.  The badges
\* it leaves in two cases only, an official's own booking of equipment and the removal
\* of a club: after every other request they are read again.  A request of two steps
\* drops its keys however it ends.
THEOREM CatalogueIsComplete ==
  ASSUME NEW p \in Pairs
  PROVE  LET r == p[1]  c == p[2]
         IN /\ Together(r, c) \/ r.life # "none" => Drops(c, r) \/ Unread(r, c)
            /\ r.key = Badges /\ ~Drops(c, r) => c.name \in {"createEquipment", "removeClub"}
            /\ c.steps > 1 => c.on = "settled"
<1>. DEFINE r == p[1]  c == p[2]
<1>1. PICK s \in Sessions : r \in s.reads /\ c \in s.calls /\ r.of \cap c.writes # {}
  BY DEF Pairs
<1>2. Counted(r) /\ (r.life \in {"none", "long"} \/ r.key = Badges)
  BY <1>1, ClubKeys, AdminKeys, StaffKeys, ViewerKeys DEF Sessions
<1>3. InShell(r) => Drops(c, r) \/ Unread(r, c)
  BY <1>1, ClubShell, AdminShell, OfficeShell DEF Sessions, Clean
<1>4. Together(r, c) => Drops(c, r) \/ Unread(r, c)
  BY <1>1, <1>3, PagesAreClean DEF Together, Clean
<1>5. r.life # "none" => Drops(c, r) \/ Unread(r, c)
  BY <1>2, <1>3, BadgesInShell DEF Unread
<1>6. r.key = Badges /\ ~Drops(c, r) => c.name \in {"createEquipment", "removeClub"}
  BY <1>1, <1>2, <1>3, BadgesInShell DEF Unread, Counted
<1>7. c.steps > 1 => c.on = "settled"
  BY <1>1, CallsSettle
<1>8. QED
  BY <1>4, <1>5, <1>6, <1>7

-----------------------------------------------------------------------------
(* The machine: the inductive invariant. *)

Flights == [step : Nat, done : BOOLEAN, made : 0 .. server]

\* What was looked at is a pair of the catalogue; a request in flight is at a step
\* it has, and what it made so far is on the server.
RunInv == /\ <<read, call>> \in Pairs
          /\ flight # None => flight \in Flights /\ (flight.step > 1 => call.steps > 1)

\* As new as everything the user was told is saved.
Seen(version) == version >= told /\ version >= half

\* An answer under way that was not overtaken by a drop it does not replace.
FetchInv == fetch \in Nat /\ ~missed => Seen(fetch)

\* A page never rests on what it knows is out of date: it reads again, or is in error.
StaleInv == shown /\ stale /\ ~Fetching => failed

\* What is cached without a mark: for a read the request drops, shown or not ...
DropInv == Drops(call, read) /\ cached # None /\ ~stale /\ ~failed /\ ~Fetching /\ ~missed => Seen(cached)

\* ... and for one it does not drop (it is on another page) once that page is open.
LeaveInv == /\ ~Drops(call, read) /\ ~Unread(read, call)
            /\ shown /\ cached # None /\ ~failed /\ ~Fetching /\ ~missed
            => Seen(cached)

FreshInv == FetchInv /\ StaleInv /\ DropInv /\ LeaveInv
Inv == TypeOK /\ RunInv /\ FreshInv

\* What the catalogue says of the pair that is looked at.
LEMMA PairFacts ==
  ASSUME RunInv
  PROVE  /\ ~Drops(call, read) /\ ~Unread(read, call) => read.life = "none" /\ ~Together(read, call)
         /\ call.steps > 1 => call.on = "settled"
BY CatalogueIsComplete DEF RunInv

LEMMA Answers ==
  ASSUME Inv
  PROVE  ReadYourWrites /\ HalfDoneIsShown
BY DEF Inv, TypeOK, FreshInv, StaleInv, DropInv, LeaveInv, Seen, ReadYourWrites, HalfDoneIsShown, Settled

LEMMA InitInv == Init => Inv
<1>. SUFFICES ASSUME Init PROVE Inv
  OBVIOUS
<1>1. TypeOK
  <2>1. shown \in BOOLEAN
    BY DEF Init, InShell
  <2>2. server \in 0 .. MaxVersion /\ told \in 0 .. server /\ half \in 0 .. server
    BY CacheAssumption DEF Init
  <2>3. QED
    BY <2>1, <2>2 DEF Init, TypeOK
<1>2. RunInv
  <2>1. PICK p \in Pairs : read = p[1] /\ call = p[2]
    BY DEF Init
  <2>2. p = <<p[1], p[2]>>
    BY DEF Pairs
  <2>3. QED
    BY <2>1, <2>2 DEF Init, RunInv
<1>3. FreshInv
  BY CacheAssumption DEF Init, FreshInv, FetchInv, StaleInv, DropInv, LeaveInv, Seen, Fetching
<1>4. QED
  BY <1>1, <1>2, <1>3 DEF Inv

-----------------------------------------------------------------------------
(* The two ways in which an answer of the request meets the cache. *)

\* A drop leaves nothing unmarked that is older than the server, nor an answer under way.
LEMMA DropStep ==
  ASSUME Inv, Drop, UNCHANGED <<read, call, server, shown>>, Drops(call, read), told' \in Nat, half' \in Nat
  PROVE  /\ fetch' \in {None, Asked} \cup 0 .. server /\ stale' \in BOOLEAN /\ missed' \in BOOLEAN
         /\ FreshInv'
<1>. USE CacheAssumption DEF Inv, TypeOK, Drop, Begin, Fetching
<1>1. fetch' \in {None, Asked} \cup 0 .. server /\ stale' \in BOOLEAN /\ missed' \in BOOLEAN
  OBVIOUS
<1>2. FetchInv'
  BY DEF FetchInv
<1>3. StaleInv'
  BY DEF StaleInv, FreshInv
<1>4. DropInv'
  BY DEF DropInv
<1>5. LeaveInv'
  BY DEF LeaveInv
<1>6. QED
  BY <1>1, <1>2, <1>3, <1>4, <1>5 DEF FreshInv

\* A request that does not drop the read finds its page closed, or the page is marked.
LEMMA LeaveStep ==
  ASSUME Inv, Leave, UNCHANGED <<read, call, server, shown>>, told' \in Nat, half' \in Nat,
         Drops(call, read) => told' = told /\ half' = half
  PROVE  /\ UNCHANGED cacheVars /\ missed' \in BOOLEAN
         /\ FreshInv'
<1>. USE CacheAssumption DEF Inv, TypeOK, Leave, Fetching, cacheVars
<1>1. UNCHANGED cacheVars /\ missed' \in BOOLEAN
  OBVIOUS
<1>2. FetchInv'
  BY DEF FetchInv
<1>3. StaleInv'
  BY DEF StaleInv, FreshInv
<1>4. DropInv'
  BY DEF DropInv, FreshInv, Seen
<1>5. LeaveInv'
  BY PairFacts DEF LeaveInv
<1>6. QED
  BY <1>1, <1>2, <1>3, <1>4, <1>5 DEF FreshInv

-----------------------------------------------------------------------------
(* One step per action. *)

LEMMA ShowStep == Inv /\ Show => Inv'
<1>. SUFFICES ASSUME Inv, Show PROVE Inv'
  OBVIOUS
<1>1. TypeOK'
  BY DEF Inv, TypeOK, Show, Begin, Idle
<1>2. RunInv'
  BY DEF Inv, RunInv, Show, Flights
<1>3. \/ Begin
      \/ Idle /\ Fetching
      \/ Idle /\ ~Fetching /\ cached # None /\ ~stale /\ ~failed /\ read.life # "none"
  BY DEF Show
<1>4. CASE Begin
  BY <1>1, <1>2, <1>4, CacheAssumption DEF Inv, Begin, FreshInv, FetchInv, StaleInv, DropInv, LeaveInv, Fetching
<1>5. CASE Idle /\ Fetching
  BY <1>1, <1>2, <1>5 DEF Inv, Show, Idle, FreshInv, FetchInv, StaleInv, DropInv, LeaveInv, Fetching, Seen
<1>6. CASE Idle /\ ~Fetching /\ cached # None /\ ~stale /\ ~failed /\ read.life # "none"
  <2>1. Drops(call, read) \/ Unread(read, call)
    BY <1>6, PairFacts DEF Inv
  <2>2. QED
    BY <1>1, <1>2, <1>6, <2>1 DEF Inv, TypeOK, Show, Idle, FreshInv, FetchInv, StaleInv, DropInv, LeaveInv, Fetching, Seen
<1>7. QED
  BY <1>3, <1>4, <1>5, <1>6

LEMMA HideStep == Inv /\ Hide => Inv'
<1>. SUFFICES ASSUME Inv, Hide PROVE Inv'
  OBVIOUS
<1>1. TypeOK' /\ RunInv'
  BY DEF Inv, TypeOK, RunInv, Flights, Hide, cacheVars
<1>2. FreshInv'
  BY DEF Inv, Hide, cacheVars, FreshInv, FetchInv, StaleInv, DropInv, LeaveInv, Fetching, Seen
<1>3. QED
  BY <1>1, <1>2 DEF Inv

LEMMA ForgetStep == Inv /\ Forget => Inv'
<1>. SUFFICES ASSUME Inv, Forget PROVE Inv'
  OBVIOUS
<1>1. TypeOK' /\ RunInv'
  BY DEF Inv, TypeOK, RunInv, Flights, Forget
<1>2. FreshInv'
  BY DEF Inv, Forget, FreshInv, FetchInv, StaleInv, DropInv, LeaveInv, Fetching, Seen
<1>3. QED
  BY <1>1, <1>2 DEF Inv

LEMMA PollStep == Inv /\ Poll => Inv'
BY CacheAssumption
   DEF Inv, TypeOK, RunInv, Flights, Poll, Begin, FreshInv, FetchInv, StaleInv, DropInv, LeaveInv, Fetching, Seen

LEMMA ServeStep == Inv /\ Serve => Inv'
BY CacheAssumption DEF Inv, TypeOK, RunInv, Flights, Serve, FreshInv, FetchInv, StaleInv, DropInv, LeaveInv, Fetching, Seen

\* The answer arrives: what it brings was not overtaken, or it is marked as missed.
LEMMA LandStep == Inv /\ Land => Inv'
<1>. SUFFICES ASSUME Inv, Land PROVE Inv'
  OBVIOUS
<1>1. TypeOK' /\ RunInv'
  BY CacheAssumption DEF Inv, TypeOK, RunInv, Flights, Land
<1>2. FreshInv'
  BY CacheAssumption DEF Inv, Land, FreshInv, FetchInv, StaleInv, DropInv, LeaveInv, Fetching, Seen
<1>3. QED
  BY <1>1, <1>2 DEF Inv

LEMMA FetchFailsStep == Inv /\ FetchFails => Inv'
BY CacheAssumption
   DEF Inv, TypeOK, RunInv, Flights, FetchFails, FreshInv, FetchInv, StaleInv, DropInv, LeaveInv, Fetching, Seen

LEMMA OthersStep == Inv /\ Others => Inv'
<1>. SUFFICES ASSUME Inv, Others PROVE Inv'
  OBVIOUS
<1>1. TypeOK'
  BY CacheAssumption DEF Inv, TypeOK, Others, cacheVars
<1>2. RunInv' /\ FreshInv'
  BY DEF Inv, TypeOK, RunInv, Flights, Others, cacheVars, FreshInv, FetchInv, StaleInv, DropInv, LeaveInv, Fetching, Seen
<1>3. QED
  BY <1>1, <1>2 DEF Inv

\* The request advances without an answer to the page.
LEMMA FlightStep == Inv /\ (Send \/ Write \/ Proceed) => Inv'
<1>. SUFFICES ASSUME Inv, Send \/ Write \/ Proceed PROVE Inv'
  OBVIOUS
<1>1. TypeOK'
  BY CacheAssumption DEF Inv, TypeOK, Send, Write, Proceed, cacheVars
<1>2. FreshInv'
  BY DEF Inv, TypeOK, Send, Write, Proceed, cacheVars, FreshInv, FetchInv, StaleInv, DropInv, LeaveInv, Fetching, Seen
<1>3. CASE Send
  BY <1>1, <1>2, <1>3 DEF Inv, TypeOK, RunInv, Flights, Send
<1>4. CASE Write
  <2>1. flight \in Flights /\ flight' = [flight EXCEPT !.done = TRUE] /\ server' = server + 1 /\ server \in Nat
    BY <1>4, CacheAssumption DEF Inv, TypeOK, RunInv, Write
  <2>2. flight' \in Flights' /\ flight'.step = flight.step
    <3>1. flight.step \in Nat /\ flight.made \in 0 .. server'
      BY <2>1 DEF Flights
    <3>2. flight' = [step |-> flight.step, done |-> TRUE, made |-> flight.made]
      BY <2>1 DEF Flights
    <3>3. QED
      BY <3>1, <3>2 DEF Flights
  <2>3. RunInv'
    BY <1>4, <2>1, <2>2 DEF Inv, RunInv, Write
  <2>4. QED
    BY <1>1, <1>2, <2>3 DEF Inv
<1>5. CASE Proceed
  <2>1. flight.step + 1 > 1 => call.steps > 1
    BY <1>5 DEF Inv, RunInv, Flights, Proceed
  <2>2. QED
    BY <1>1, <1>2, <1>5, <2>1 DEF Inv, TypeOK, RunInv, Flights, Proceed
<1>6. QED
  BY <1>3, <1>4, <1>5

LEMMA SucceedStep == Inv /\ Succeed => Inv'
<1>. SUFFICES ASSUME Inv, Succeed PROVE Inv'
  OBVIOUS
<1>1. told' = server /\ told' \in 0 .. server /\ half' \in 0 .. server /\ half' = half /\ UNCHANGED <<read, call, server, shown>>
  BY DEF Inv, TypeOK, Succeed
<1>2. RunInv'
  BY DEF Inv, RunInv, Flights, Succeed
<1>3. CASE Drops(call, read)
  <2>1. Drop
    BY <1>3 DEF Succeed, Settle
  <2>2. QED
    BY <1>1, <1>2, <1>3, <2>1, DropStep DEF Inv, TypeOK, Drop
<1>4. CASE ~Drops(call, read)
  <2>1. Leave
    BY <1>4 DEF Succeed, Settle
  <2>2. QED
    BY <1>1, <1>2, <1>4, <2>1, LeaveStep DEF Inv, TypeOK, cacheVars
<1>5. QED
  BY <1>3, <1>4

\* A failure that leaves something saved is one of a request that drops its keys all the same.
LEMMA FailsStep == Inv /\ Fails => Inv'
<1>. SUFFICES ASSUME Inv, Fails PROVE Inv'
  OBVIOUS
<1>1. told' \in 0 .. server /\ told' = told /\ half' \in 0 .. server /\ UNCHANGED <<read, call, server, shown>>
  BY DEF Inv, TypeOK, RunInv, Flights, Fails
<1>2. RunInv'
  BY DEF Inv, RunInv, Flights, Fails
<1>3. CASE Drops(call, read) /\ call.on = "settled"
  <2>1. Drop
    BY <1>3 DEF Fails, Settle
  <2>2. QED
    BY <1>1, <1>2, <1>3, <2>1, DropStep DEF Inv, TypeOK, Drop
<1>4. CASE ~(Drops(call, read) /\ call.on = "settled")
  <2>1. Leave
    BY <1>4 DEF Fails, Settle
  <2>2. Drops(call, read) => half' = half
    BY <1>4, PairFacts DEF Inv, RunInv, Fails
  <2>3. QED
    BY <1>1, <1>2, <2>1, <2>2, LeaveStep DEF Inv, TypeOK, cacheVars
<1>5. QED
  BY <1>3, <1>4

LEMMA StepInv == Inv /\ [Next]_vars => Inv'
<1>. SUFFICES ASSUME Inv, [Next]_vars PROVE Inv'
  OBVIOUS
<1>1. CASE Next
  BY <1>1, ShowStep, HideStep, ForgetStep, PollStep, ServeStep, LandStep, FetchFailsStep, OthersStep, FlightStep,
     SucceedStep, FailsStep DEF Next
<1>2. CASE UNCHANGED vars
  BY <1>2 DEF vars, cacheVars, Inv, TypeOK, RunInv, Flights, FreshInv, FetchInv, StaleInv, DropInv, LeaveInv, Fetching, Seen
<1>3. QED
  BY <1>1, <1>2

-----------------------------------------------------------------------------
(* Theorems. *)

\* The inductive invariant holds of every behaviour.
THEOREM CacheIsSound == Spec => []Inv
BY InitInv, StepInv, PTL DEF Spec

\* After a request was answered with success, a page that shows what it changed, with
\* nothing under way and no error, shows a version that has the change: for every read
\* and request of a session, whoever else writes and whenever fetches answer or fail.
THEOREM WritesAreRead == Spec => []ReadYourWrites
BY CacheIsSound, Answers, PTL

\* Versions are those of the server, and what a request saved before its second step
\* failed is shown by the list its user is sent to.
THEOREM HalfDoneIsFound == Spec => []CacheInv
<1>1. Inv => CacheInv
  BY Answers DEF Inv, CacheInv
<1>2. QED
  BY <1>1, CacheIsSound, PTL

=============================================================================
