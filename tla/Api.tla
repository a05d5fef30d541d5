-------------------------------- MODULE Api --------------------------------
(***************************************************************************)
(* The HTTP surface: for each controller, what every route needs, what it     *)
(* reads or writes, and how it takes a repeated or an overtaken request.      *)
(* A table stands for the rows a screen shows from it; names of other rows    *)
(* that are joined in for display are left out.                               *)
(***************************************************************************)
(* needs: a permission, or who may call without one; module: "" when the route   *)
(* belongs to none; key: how @Idempotent() takes the Idempotency-Key; version:    *)
(* If-Match; again: what the work itself does when it is asked for twice.         *)
Route(needs, key, version, again, reads, writes) ==
    [needs |-> needs, module |-> "", key |-> key, version |-> version, again |-> again,
     reads |-> reads, writes |-> writes]

Get(needs, reads) == Route(needs, "none", FALSE, "same", reads, {})
Create(needs, key, writes) == Route(needs, key, FALSE, "repeated", {}, writes)
Update(needs, writes) == Route(needs, "none", TRUE, "repeated", {}, writes)
Set(needs, writes) == Route(needs, "none", FALSE, "same", {}, writes)

(* A unique index or a check of the state refuses the second request. *)
Guarded(route) == [route EXCEPT !.again = "refused"]

(* The second request finds the work done, or puts its own in the first one's place. *)
Repeatable(route) == [route EXCEPT !.again = "same"]
Replacing(route) == [route EXCEPT !.again = "replaced"]

(* @RequiresModule on a controller; a route's own takes its place. *)
RequiresModule(module, controller) ==
    [r \in DOMAIN controller |->
        IF controller[r].module = "" THEN [controller[r] EXCEPT !.module = module] ELSE controller[r]]
Of(module, route) == [route EXCEPT !.module = module]

-----------------------------------------------------------------------------
AccessController == [me |-> Get("self", {"ownRoles"})]

InvitationsController ==
    [inspect |-> Get("public", {"invitations"}),
     accept  |-> Guarded(Create("public", "none", {"invitations", "users"}))]

RolesController == [list |-> Get("users.read", {"roles"})]

UsersController ==
    [list       |-> Get("users.read", {"users", "assignments"}),
     get        |-> Get("users.read", {"users", "assignments"}),
     invite     |-> Create("users.invite", "required", {"users", "assignments", "invitations"}),
     resend     |-> Replacing(Create("users.manage", "optional", {"invitations"})),
     setStatus  |-> Set("users.manage", {"users", "sessions"}),
     assignRole |-> Guarded(Create("roles.assign", "none", {"assignments"})),
     removeRole |-> Set("roles.assign", {"assignments"})]

ApplicationsController ==
    [list       |-> Get("admissions.read", {"applications"}),
     get        |-> Get("admissions.read", {"applications"}),
     duplicates |-> Get("admissions.read", {"students"}),
     create     |-> Create("admissions.manage", "required", {"applications"}),
     update     |-> Update("admissions.manage", {"applications"}),
     transition |-> Update("admissions.manage", {"applications"}),
     placement  |-> Of("placement", Update("placement.record", {"applications"})),
     convert    |-> [Update("admissions.manage", {"applications", "students"})
                        EXCEPT !.key = "required"]]

AuditController ==
    [list |-> Get("audit.read", {"audit"}), verify |-> Get("audit.read", {"audit"})]

InvoicesController ==
    [list            |-> Get("billing.read", {"invoices"}),
     get             |-> Get("billing.read", {"invoices"}),
     create          |-> Create("billing.invoice", "required", {"invoices"}),
     requestDiscount |-> Guarded(Create("billing.request", "optional", {"approvals"}))]

PaymentsController ==
    [list        |-> Get("billing.read", {"payments"}),
     get         |-> Get("billing.read", {"payments"}),
     record      |-> Create("billing.receive", "required", {"payments", "invoices"}),
     requestVoid |-> Guarded(Create("billing.request", "optional", {"approvals"}))]

ApprovalsController ==
    [list   |-> Get("billing.request", {"approvals"}),
     decide |-> Guarded(Create("approvals.decide", "none", {"approvals", "invoices", "payments"}))]

FeeStructuresController ==
    [list   |-> Get("fees.read", {"fees"}),
     create |-> Create("fees.manage", "optional", {"fees"}),
     update |-> Update("fees.manage", {"fees"})]

PaymentPlansController ==
    [list   |-> Get("fees.read", {"plans"}),
     create |-> Create("fees.manage", "optional", {"plans"}),
     update |-> Update("fees.manage", {"plans"})]

-----------------------------------------------------------------------------
AcademicYearsController ==
    [list   |-> Get("catalog.read", {"years"}),
     create |-> Create("calendar.manage", "optional", {"years"}),
     update |-> Update("calendar.manage", {"years"})]

IntakesController ==
    [list   |-> Get("catalog.read", {"intakes"}),
     create |-> Create("calendar.manage", "optional", {"intakes"}),
     update |-> Update("calendar.manage", {"intakes"})]

HolidaysController ==
    [list   |-> Get("catalog.read", {"holidays"}),
     create |-> Create("calendar.manage", "optional", {"holidays"}),
     update |-> Update("calendar.manage", {"holidays"}),
     remove |-> Set("calendar.manage", {"holidays"})]

ShiftsController ==
    [list   |-> Get("catalog.read", {"shifts"}),
     create |-> Create("facilities.manage", "optional", {"shifts"}),
     update |-> Update("facilities.manage", {"shifts"})]

RoomsController ==
    [list   |-> Get("catalog.read", {"rooms"}),
     create |-> Create("facilities.manage", "optional", {"rooms"}),
     update |-> Update("facilities.manage", {"rooms"})]

ProgramsController ==
    [list   |-> Get("catalog.read", {"programs"}),
     get    |-> Get("catalog.read", {"programs"}),
     create |-> Create("catalog.manage", "optional", {"programs"}),
     update |-> Update("catalog.manage", {"programs"})]

CoursesController ==
    [list             |-> Get("catalog.read", {"courses"}),
     get              |-> Get("catalog.read", {"courses"}),
     create           |-> Create("catalog.manage", "optional", {"courses"}),
     update           |-> Update("catalog.manage", {"courses"}),
     setPrerequisites |-> Update("catalog.manage", {"courses"})]

(* A class is shown with its seats taken and its waiting list. *)
CohortsController ==
    [list        |-> Get("cohorts.read", {"cohorts", "enrollments"}),
     instructors |-> Get("cohorts.read", {"assignments"}),
     get         |-> Get("cohorts.read", {"cohorts", "enrollments"}),
     sessions    |-> Get("cohorts.read", {"classSessions"}),
     create      |-> Create("cohorts.manage", "optional", {"cohorts", "classSessions"}),
     update      |-> Update("cohorts.manage", {"cohorts", "classSessions"}),
     setStatus   |-> Update("cohorts.manage", {"cohorts", "classSessions"})]

EnrollmentsController ==
    [list     |-> Get("enrollments.read", {"enrollments"}),
     enroll   |-> Create("enrollments.manage", "required", {"enrollments", "applications"}),
     withdraw |-> Update("enrollments.manage", {"enrollments"}),
     result   |-> Update("results.record", {"enrollments"})]

DashboardController ==
    [get |-> Get("self", {"applications", "students", "cohorts", "enrollments", "payments",
                          "invoices", "approvals"})]

-----------------------------------------------------------------------------
ReceiptsController == [receipt |-> Get("billing.read", {"payments"})]

CertificatesController == RequiresModule("certificates",
    [list   |-> Get("certificates.read", {"certificates"}),
     get    |-> Get("certificates.read", {"certificates"}),
     pdf    |-> Get("certificates.read", {"certificates"}),
     revoke |-> Update("certificates.revoke", {"certificates"})])

EnrollmentCertificateController ==
    [issue |-> Of("certificates",
                  Guarded(Create("certificates.issue", "optional", {"certificates"})))]

StudentCardsController == RequiresModule("student_ids",
    [current |-> Get("students.read", {"cards"}),
     issue   |-> Replacing(Create("students.manage", "optional", {"cards"})),
     pdf     |-> Get("students.read", {"cards"})])

VerificationController == [verify |-> Get("public", {"certificates", "cards"})]

AuthController ==
    [login          |-> Create("public", "none", {"sessions"}),
     logout         |-> Set("self", {"sessions"}),
     me             |-> Get("self", {"ownAccount"}),
     forgotPassword |-> Replacing(Create("public", "none", {"resets"})),
     resetPassword  |-> Guarded(Create("public", "none", {"resets", "users", "sessions"})),
     changePassword |-> Set("self", {"users", "sessions"})]

MfaController ==
    [setup   |-> Set("self", {"factors"}),
     confirm |-> Guarded(Create("self", "none", {"factors", "sessions"})),
     verify  |-> Guarded(Create("self", "none", {"factors", "sessions"})),
     disable |-> Set("self", {"factors"})]

SessionsController ==
    [list |-> Get("self", {"sessions"}), revoke |-> Set("self", {"sessions"})]

(* Importing a file again finds its people, and adds them again when asked to *)
(* (onDuplicate: import).                                                     *)
ImportsController ==
    [preview |-> Get("students.import", {"students"}),
     commit  |-> Create("students.import", "required", {"students"})]

PostsController == RequiresModule("news",
    [list      |-> Get("posts.read", {"posts"}),
     get       |-> Get("posts.read", {"posts"}),
     create    |-> Create("posts.manage", "required", {"posts"}),
     update    |-> Update("posts.manage", {"posts"}),
     publish   |-> Update("posts.publish", {"posts"}),
     unpublish |-> Update("posts.publish", {"posts"}),
     remove    |-> Set("posts.manage", {"posts"})])

(* A person who asks for the same course again is told the reference they have. *)
PublicController == RequiresModule("website",
    [listCatalog |-> Get("public", {"programs", "courses"}),
     course      |-> Get("public", {"courses", "cohorts"}),
     upcoming    |-> Get("public", {"cohorts"}),
     contact     |-> Get("public", {"institution", "branches"}),
     listPosts   |-> Of("news", Get("public", {"posts"})),
     post        |-> Of("news", Get("public", {"posts"})),
     preRegister |-> Of("pre_registration",
                        Repeatable(Create("public", "required", {"applications"})))])

ReportsController ==
    [revenue          |-> Get("reports.finance", {"payments"}),
     revenueCsv       |-> Get("reports.finance", {"payments"}),
     outstanding      |-> Get("reports.finance", {"invoices"}),
     outstandingItems |-> Get("reports.finance", {"invoices"}),
     outstandingCsv   |-> Get("reports.finance", {"invoices"})]

-----------------------------------------------------------------------------
ModulesController ==
    [list |-> Get("settings.read", {"modules"}),
     set  |-> Set("settings.manage", {"modules"})]

DescriptorsController ==
    [list   |-> Get("settings.read", {"descriptors"}),
     create |-> Create("settings.manage", "optional", {"descriptors"}),
     update |-> Update("settings.manage", {"descriptors"})]

CustomFieldsController ==
    [list   |-> Get("settings.read", {"customFields"}),
     create |-> Create("settings.manage", "optional", {"customFields"}),
     update |-> Update("settings.manage", {"customFields"})]

TerminologyController ==
    [list |-> Get("settings.read", {"terminology"}),
     set  |-> Set("settings.manage", {"terminology"})]

NumberSeriesController ==
    [list |-> Get("settings.read", {"series"}),
     set  |-> Set("settings.manage", {"series"})]

InstitutionController ==
    [publicProfile |-> Get("public", {"institution", "modules", "terminology"}),
     get           |-> Get("settings.read", {"institution"}),
     update        |-> Update("settings.manage", {"institution"})]

BranchesController ==
    [list   |-> Get("settings.read", {"branches"}),
     create |-> Create("settings.manage", "optional", {"branches"}),
     update |-> Update("settings.manage", {"branches"})]

DepartmentsController ==
    [list   |-> Get("settings.read", {"departments"}),
     create |-> Create("settings.manage", "optional", {"departments"}),
     update |-> Update("settings.manage", {"departments"})]

SetupController ==
    [status   |-> Get("settings.manage", {"institution"}),
     complete |-> Create("settings.manage", "required",
                         {"institution", "branches", "departments", "descriptors"})]

StudentsController ==
    [list           |-> Get("students.read", {"students"}),
     findDuplicates |-> Get("students.read", {"students"}),
     get            |-> Get("students.read", {"students"}),
     create         |-> Create("students.manage", "required", {"students"}),
     update         |-> Update("students.manage", {"students"}),
     setGuardians   |-> Update("students.manage", {"students"})]

-----------------------------------------------------------------------------
Permissions ==
    {"users.read", "users.invite", "users.manage", "roles.assign", "audit.read",
     "settings.read", "settings.manage", "catalog.read", "catalog.manage", "calendar.manage",
     "facilities.manage", "students.read", "students.manage", "admissions.read",
     "admissions.manage", "placement.record", "cohorts.read", "cohorts.manage",
     "enrollments.read", "enrollments.manage", "results.record", "fees.read", "fees.manage",
     "billing.read", "billing.invoice", "billing.receive", "billing.request",
     "approvals.decide", "certificates.read", "certificates.issue", "certificates.revoke",
     "posts.read", "posts.manage", "posts.publish", "reports.finance", "students.import"}

(* What a role lets its holder do. *)
SystemRoles ==
    [admin |-> Permissions,
     coordinator |->
        {"users.read", "settings.read", "catalog.read", "catalog.manage", "students.read",
         "admissions.read", "placement.record", "cohorts.read", "cohorts.manage",
         "enrollments.read", "results.record", "fees.read", "certificates.read",
         "certificates.issue", "posts.read", "posts.manage"},
     secretary |->
        {"settings.read", "catalog.read", "students.read", "students.manage", "admissions.read",
         "admissions.manage", "placement.record", "cohorts.read", "enrollments.read",
         "enrollments.manage", "fees.read", "billing.read", "billing.invoice",
         "billing.receive", "billing.request", "certificates.read", "posts.read"},
     instructor |-> {"settings.read", "catalog.read"}]

=============================================================================
