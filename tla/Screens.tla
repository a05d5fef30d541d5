------------------------------ MODULE Screens ------------------------------
(***************************************************************************)
(* The portal's components, by what they ask of the API: the queries they      *)
(* keep mounted (and the keys these are cached under), the changes they send,  *)
(* and the links they show, each behind the permission and module that the     *)
(* component checks before it renders it.  Layout and wording are left out.    *)
(***************************************************************************)
EXTENDS Api

Query(key, route) ==
    [is |-> "query", can |-> {}, on |-> {}, key |-> key, route |-> route]

(* A change.  sends: "key" (an Idempotency-Key for the values), "nothing", or the  *)
(* version of the row with the values it goes with: kept together when the form    *)
(* was opened ("snapshot"), or read afresh by a form that starts over whenever the *)
(* row changes ("remounted").  invalidated: keys refetched on success; put: keys   *)
(* that take the answer as their data; after: what becomes of the form: it closes   *)
(* ("closes"), stays on the page with its fields as they were ("stays"), stays and    *)
(* has its key reset ("resets"), stays and keeps its key for as long as its values     *)
(* are the same ("keeps"), or leaves for another page ("leaves").                     *)
Change(route, sends, invalidated, put, after) ==
    [is |-> "change", can |-> {}, on |-> {}, route |-> route, sends |-> sends,
     invalidated |-> invalidated, put |-> put, after |-> after]

Link(page) == [is |-> "link", can |-> {}, on |-> {}, page |-> page]

(* can(permission) && ..., moduleOn(module) && ... *)
Can(permission, parts) == {[p EXCEPT !.can = @ \cup {permission}] : p \in parts}
On(module, parts) == {[p EXCEPT !.on = @ \cup {module}] : p \in parts}

-----------------------------------------------------------------------------
(* Hooks that several components share. *)
UseInstitution == {Query(<<"institution", "public">>, InstitutionController.publicProfile)}
UseBranches == {Query(<<"branches">>, BranchesController.list)}
UseDepartments == {Query(<<"departments">>, DepartmentsController.list)}
UseScopeLabel == UseBranches \cup UseDepartments
UseDescriptorOptions(namespace) ==
    {Query(<<"descriptors", namespace>>, DescriptorsController.list)}
UseCustomFieldDefinitions(entity) ==
    {Query(<<"custom-fields", entity>>, CustomFieldsController.list)}
UsePrograms == {Query(<<"programs", "all">>, ProgramsController.list)}
UseCourses == {Query(<<"courses", "program">>, CoursesController.list)}
UseIntakes == {Query(<<"intakes">>, IntakesController.list)}
UseHolidays == {Query(<<"holidays">>, HolidaysController.list)}
UseAcademicYears == {Query(<<"academic-years">>, AcademicYearsController.list)}
UseShifts == {Query(<<"shifts">>, ShiftsController.list)}
UseRooms == {Query(<<"rooms", "all">>, RoomsController.list)}
UseCourseOptions == UsePrograms \cup UseCourses
UseCohort == {Query(<<"cohorts", "one", "id">>, CohortsController.get)}
UseCohortSessions == {Query(<<"cohorts", "id", "sessions">>, CohortsController.sessions)}
UseRoster == {Query(<<"enrollments", "cohort", "id">>, EnrollmentsController.list)}
UseStudentEnrollments ==
    {Query(<<"enrollments", "student", "id">>, EnrollmentsController.list)}
UseInstructors == {Query(<<"cohorts", "instructors">>, CohortsController.instructors)}
UseInvoice == {Query(<<"invoices", "one", "id">>, InvoicesController.get)}
UseStudentInvoices == {Query(<<"invoices", "student", "id">>, InvoicesController.list)}
UseInvoicePayments == {Query(<<"payments", "invoice", "id">>, PaymentsController.list)}
UsePayment == {Query(<<"payments", "one", "id">>, PaymentsController.get)}
UseApprovals == {Query(<<"approvals", "pending">>, ApprovalsController.list)}
UseFeeStructures == {Query(<<"fee-structures">>, FeeStructuresController.list)}
UsePaymentPlans == {Query(<<"payment-plans">>, PaymentPlansController.list)}
UseDashboard == {Query(<<"dashboard">>, DashboardController.get)}
UseMoney == UseInstitution

-----------------------------------------------------------------------------
(* The frame of every staff page, and its links. *)
UseSession ==
    {Query(<<"me">>, AuthController.me), Query(<<"access">>, AccessController.me)}

Nav ==
    {Link("/")}
        \cup Can("students.read", {Link("/students")})
        \cup Can("admissions.read", {Link("/admissions")})
        \cup Can("cohorts.read", {Link("/cohorts")})
        \cup Can("billing.read", {Link("/billing")})
        \cup Can("reports.finance", {Link("/reports")})
        \cup Can("posts.read", On("news", {Link("/posts")}))
        \cup Can("catalog.read", {Link("/academics")})
        \cup Can("users.read", {Link("/users")})
        \cup Can("settings.manage", {Link("/settings")})
        \cup Can("audit.read", {Link("/audit")})

(* Until the set-up is complete, an administrator is sent there. *)
StaffShell ==
    UseSession \cup UseInstitution \cup Nav \cup Can("settings.manage", {Link("/setup")})
        \cup {Change(AuthController.logout, "nothing", {<<>>}, {}, "leaves")}

(* The API leaves out of the answer what the caller may not see, so each block of   *)
(* the page goes with the permission that the dashboard service asks for.           *)
HomeScreen ==
    UseDashboard \cup UseMoney
        \cup Can("approvals.decide", {Link("/billing/approvals")})
        \cup Can("billing.read", {Link("/billing/invoices")})
        \cup Can("reports.finance", {Link("/reports")})
        \cup Can("admissions.read", {Link("/admissions")})
        \cup Can("students.read", {Link("/students")})
        \cup Can("cohorts.read", {Link("/cohorts"), Link("/cohorts/:id")})

-----------------------------------------------------------------------------
(* Students. *)
DetailsForm ==
    UseDescriptorOptions("student_category") \cup UseCustomFieldDefinitions("student")
        \cup Can("students.manage",
                 {Change(StudentsController.update, "remounted", {<<"students">>},
                         {<<"students", "one", "id">>}, "stays")})

(* Mutant: the card offers the change to everyone. *)
GuardiansCardAnyone ==
    {Change(StudentsController.setGuardians, "remounted", {}, {<<"students", "one", "id">>}, "stays")}
GuardiansCard ==
    Can("students.manage",
        {Change(StudentsController.setGuardians, "remounted", {},
                {<<"students", "one", "id">>}, "stays")})

BillingCard ==
    UseMoney \cup UseStudentInvoices \cup UseStudentEnrollments
        \cup {Link("/billing/invoices/:id")}
        \cup Can("billing.invoice",
                 {Change(InvoicesController.create, "key", {<<"invoices">>}, {}, "resets")})

ClassesCard == UseStudentEnrollments \cup {Link("/cohorts/:id")}

IdCardCard ==
    {Query(<<"student-card", "id">>, StudentCardsController.current),
     Query(<<>>, StudentCardsController.pdf)}
        \cup Can("students.manage",
                 {Change(StudentCardsController.issue, "nothing", {}, {<<"student-card", "id">>}, "stays")})

CertificatesCard ==
    UseStudentEnrollments
        \cup {Query(<<"certificates", "student", "id">>, CertificatesController.list),
              Query(<<>>, CertificatesController.pdf)}
        \cup Can("certificates.issue",
                 {Change(EnrollmentCertificateController.issue, "nothing", {<<"certificates">>}, {}, "stays")})
        \cup Can("certificates.revoke",
                 {Change(CertificatesController.revoke, "snapshot", {<<"certificates">>}, {}, "closes")})

StudentDetailScreen ==
    UseBranches
        \cup {Query(<<"students", "one", "id">>, StudentsController.get), Link("/students")}
        \cup DetailsForm
        \cup Can("enrollments.read", ClassesCard)
        \cup Can("students.read", On("student_ids", IdCardCard))
        \cup Can("certificates.read", On("certificates", CertificatesCard))
        \cup Can("billing.read", BillingCard)
        \cup GuardiansCard

StudentForm ==
    UseBranches \cup UseDescriptorOptions("student_category")
        \cup UseCustomFieldDefinitions("student")
        \cup {Query(<<>>, StudentsController.findDuplicates),
              Change(StudentsController.create, "key", {<<"students">>}, {}, "resets")}

StudentsScreen ==
    UseBranches \cup {Query(<<"students", "q">>, StudentsController.list), Link("/students/:id")}
        \cup Can("students.import", {Link("/students/import")})
        \cup Can("students.manage", StudentForm)

StudentImportScreen ==
    {Link("/students"), Query(<<>>, ImportsController.preview),
     Change(ImportsController.commit, "key", {<<"students">>}, {}, "keeps")}

-----------------------------------------------------------------------------
(* Admissions. *)
ApplicationPut == {<<"applications", "one", "id">>}

PlacementCard ==
    UseCourseOptions
        \cup {Change(ApplicationsController.placement, "remounted", {<<"applications">>},
                     ApplicationPut, "stays")}

ConvertCard ==
    UseDescriptorOptions("student_category") \cup UseCustomFieldDefinitions("student")
        \cup {Query(<<"applications", "id", "duplicates">>, ApplicationsController.duplicates),
              Change(ApplicationsController.convert, "remounted",
                     {<<"applications">>, <<"students">>}, ApplicationPut, "closes")}

ApplicationDetailScreen ==
    UseBranches \cup UseCourseOptions \cup UseShifts \cup UseIntakes
        \cup UseDescriptorOptions("lead_source")
        \cup {Query(<<"applications", "one", "id">>, ApplicationsController.get),
              Link("/admissions"), Link("/students/:id")}
        \cup Can("admissions.manage",
                 {Change(ApplicationsController.transition, "remounted", {<<"applications">>},
                         ApplicationPut, "stays")})
        \cup Can("placement.record", On("placement", PlacementCard))
        \cup Can("admissions.manage", ConvertCard)

ApplicationForm ==
    UseBranches \cup UseCourseOptions \cup UseShifts \cup UseIntakes
        \cup UseDescriptorOptions("lead_source") \cup UseCustomFieldDefinitions("application")
        \cup {Change(ApplicationsController.create, "key", {<<"applications">>}, {}, "resets")}

ApplicationsScreen ==
    UseBranches \cup UseCourseOptions
        \cup {Query(<<"applications", "q">>, ApplicationsController.list),
              Link("/admissions/:id")}
        \cup Can("admissions.manage", ApplicationForm)

-----------------------------------------------------------------------------
(* Classes. *)
UseRefresh == {<<"enrollments">>, <<"cohorts">>}

EnrollPanel ==
    {Query(<<"students", "picker", "q">>, StudentsController.list),
     Change(EnrollmentsController.enroll, "key", UseRefresh, {}, "resets")}

EnrollmentRow ==
    {Link("/students/:id")} \cup UseDescriptorOptions("withdrawal_reason")
        \cup Can("enrollments.manage",
                 {Change(EnrollmentsController.withdraw, "remounted", UseRefresh, {}, "closes")})
        \cup Can("results.record",
                 {Change(EnrollmentsController.result, "remounted", UseRefresh, {}, "closes")})

CohortForm ==
    UseCourseOptions \cup UseShifts \cup UseRooms \cup UseIntakes \cup UseInstructors
        \cup {Change(CohortsController.update, "remounted", {<<"cohorts">>},
                     {<<"cohorts", "one", "id">>}, "closes"),
              Change(CohortsController.create, "key", {<<"cohorts">>}, {}, "closes")}

CohortDetailScreen ==
    UseCourseOptions \cup UseShifts \cup UseRooms \cup UseInstructors
        \cup UseCohort \cup UseRoster \cup UseCohortSessions \cup {Link("/cohorts")}
        \cup EnrollmentRow
        \cup Can("cohorts.manage",
                 CohortForm \cup {Change(CohortsController.setStatus, "remounted", {<<"cohorts">>},
                                         {<<"cohorts", "one", "id">>}, "stays")})
        \cup Can("enrollments.manage", EnrollPanel)

CohortsScreen ==
    UseCourseOptions \cup UseShifts \cup UseRooms
        \cup {Query(<<"cohorts", "list">>, CohortsController.list), Link("/cohorts/:id")}
        \cup Can("cohorts.manage", CohortForm)

-----------------------------------------------------------------------------
(* Billing. *)
BillingNav ==
    Can("billing.read", {Link("/billing")})
        \cup Can("billing.request", {Link("/billing/approvals")})
        \cup Can("fees.read", {Link("/billing/fees")})

MoneyKeys == {<<"invoices">>, <<"payments">>}

ApprovalCard ==
    Can("approvals.decide",
        {Change(ApprovalsController.decide, "nothing", MoneyKeys \cup {<<"approvals">>}, {},
                "stays")})

ApprovalsScreen == UseMoney \cup UseApprovals \cup ApprovalCard

(* A form that creates with a key and edits what it was opened with; the buttons    *)
(* of a list that retire a row or bring it back send the row's version as well.     *)
Form(controller, keys) ==
    {Change(controller.create, "key", keys, {}, "closes"),
     Change(controller.update, "snapshot", keys, {}, "closes")}

StructureForm ==
    UseCourseOptions \cup UseDescriptorOptions("student_category")
        \cup Form(FeeStructuresController, {<<"fee-structures">>})

PlanForm == Form(PaymentPlansController, {<<"payment-plans">>})

FeesScreen ==
    UseMoney \cup UseCourseOptions \cup UseFeeStructures \cup UsePaymentPlans
        \cup Can("fees.manage", StructureForm \cup PlanForm)

PaymentForm ==
    Can("billing.receive",
        {Change(PaymentsController.record, "key", MoneyKeys, {}, "resets")})

DiscountForm ==
    Can("billing.request",
        UseDescriptorOptions("discount_reason")
            \cup {Change(InvoicesController.requestDiscount, "nothing", {<<"approvals">>}, {},
                         "closes")})

PaymentRow ==
    {Link("/billing/receipts/:id")}
        \cup Can("billing.request",
                 {Change(PaymentsController.requestVoid, "nothing", {<<"approvals">>}, {},
                         "closes")})

InvoiceDetailScreen ==
    UseMoney \cup UseInvoice \cup UseInvoicePayments \cup {Link("/billing")}
        \cup PaymentForm \cup DiscountForm \cup PaymentRow

InvoicesScreen ==
    UseMoney
        \cup {Query(<<"invoices", "list">>, InvoicesController.list),
              Link("/billing/invoices/:id"), Link("/students/:id")}

ReceiptScreen ==
    UseMoney \cup UsePayment
        \cup {Query(<<>>, ReceiptsController.receipt), Link("/billing/invoices/:id")}

-----------------------------------------------------------------------------
(* Academics. *)
AcademicsNav ==
    {Link("/academics"), Link("/academics/years"), Link("/academics/intakes"),
     Link("/academics/holidays"), Link("/academics/shifts"), Link("/academics/rooms")}

HolidayForm == UseBranches \cup Form(HolidaysController, {<<"holidays">>})

HolidaysScreen ==
    UseHolidays \cup UseBranches
        \cup Can("calendar.manage",
                 HolidayForm
                     \cup {Change(HolidaysController.remove, "nothing", {<<"holidays">>}, {},
                                  "stays")})

IntakeForm == UsePrograms \cup Form(IntakesController, {<<"intakes">>})
IntakesScreen == UseIntakes \cup UsePrograms \cup Can("calendar.manage", IntakeForm)

YearForm == Form(AcademicYearsController, {<<"academic-years">>})
YearsScreen == UseAcademicYears \cup Can("calendar.manage", YearForm)

ShiftForm == Form(ShiftsController, {<<"shifts">>})
ShiftsScreen == UseShifts \cup Can("facilities.manage", ShiftForm)

RoomForm == UseBranches \cup Form(RoomsController, {<<"rooms">>})
RoomsScreen == UseRooms \cup UseBranches \cup Can("facilities.manage", RoomForm)

ProgramForm == UseDepartments \cup Form(ProgramsController, {<<"programs">>})

ProgramsScreen ==
    UseDepartments \cup UsePrograms \cup {Link("/academics/programs/:id")}
        \cup Can("catalog.manage", ProgramForm)

CourseForm == Form(CoursesController, {<<"courses", "program">>})

PrerequisitesForm ==
    {Change(CoursesController.setPrerequisites, "snapshot", {<<"courses", "program">>}, {},
            "closes")}

ProgramDetailScreen ==
    UseCourses
        \cup {Query(<<"programs", "one", "id">>, ProgramsController.get), Link("/academics")}
        \cup Can("catalog.manage", CourseForm \cup PrerequisitesForm)

-----------------------------------------------------------------------------
(* Settings. *)
SettingsNav ==
    {Link("/settings"), Link("/settings/branches"), Link("/settings/departments"),
     Link("/settings/modules"), Link("/settings/lists"), Link("/settings/custom-fields"),
     Link("/settings/terminology"), Link("/settings/numbering")}

PublicProfile == <<"institution", "public">>

GeneralScreen ==
    {Query(<<"institution", "profile">>, InstitutionController.get),
     Change(InstitutionController.update, "remounted", {PublicProfile},
            {<<"institution", "profile">>}, "stays")}

BranchForm == Form(BranchesController, {<<"branches">>})
BranchesScreen == UseBranches \cup BranchForm

DepartmentForm == Form(DepartmentsController, {<<"departments">>})
DepartmentsScreen == UseDepartments \cup DepartmentForm

FieldForm == Form(CustomFieldsController, {<<"custom-fields", "entity">>})
CustomFieldsScreen == UseCustomFieldDefinitions("entity") \cup FieldForm

AddValueForm ==
    {Change(DescriptorsController.create, "key", {<<"descriptors", "namespace">>}, {}, "resets")}
ValueRow ==
    {Change(DescriptorsController.update, "remounted", {<<"descriptors", "namespace">>}, {},
            "stays")}
ListsScreen == UseDescriptorOptions("namespace") \cup AddValueForm \cup ValueRow

ModulesScreen ==
    {Query(<<"modules">>, ModulesController.list),
     Change(ModulesController.set, "nothing", {PublicProfile}, {<<"modules">>}, "stays")}

SeriesRow ==
    {Change(NumberSeriesController.set, "nothing", {}, {<<"number-series">>}, "stays")}
NumberingScreen == {Query(<<"number-series">>, NumberSeriesController.list)} \cup SeriesRow

(* Every term is sent, as it was loaded or as it was edited since. *)
TerminologyScreen ==
    {Query(<<"terminology">>, TerminologyController.list),
     Change(TerminologyController.set, "nothing", {PublicProfile}, {<<"terminology">>}, "stays")}

SetupWizard ==
    {Query(<<"setup">>, SetupController.status), Link("/settings"),
     Change(SetupController.complete, "key", {<<>>}, {}, "leaves")}

-----------------------------------------------------------------------------
(* Staff, news, reports and the audit log. *)
InviteForm ==
    UseBranches \cup UseDepartments
        \cup {Query(<<"roles">>, RolesController.list),
              Change(UsersController.invite, "key", {<<"users">>}, {}, "resets")}

UsersScreen ==
    {Query(<<"users", "q">>, UsersController.list)}
        \cup Can("settings.read", UseScopeLabel)
        \cup Can("users.invite", InviteForm)
        \cup Can("users.manage",
                 {Change(UsersController.resend, "nothing", {<<"users">>}, {}, "stays"),
                  Change(UsersController.setStatus, "nothing", {<<"users">>}, {}, "stays")})

PostForm ==
    Can("posts.manage", {Change(PostsController.create, "key", {<<"posts">>}, {}, "closes"),
                         Change(PostsController.update, "snapshot", {<<"posts">>}, {}, "closes")})

PublishPanel == {Change(PostsController.publish, "snapshot", {<<"posts">>}, {}, "closes")}

PostsScreen ==
    UseInstitution \cup {Query(<<"posts", "list">>, PostsController.list)} \cup PostForm
        \cup Can("posts.publish",
                 PublishPanel
                     \cup {Change(PostsController.unpublish, "snapshot", {<<"posts">>}, {}, "stays")})
        \cup Can("posts.manage",
                 {Change(PostsController.remove, "nothing", {<<"posts">>}, {}, "stays")})

Filters == UseBranches \cup UseDepartments

RevenueReport ==
    UseMoney \cup {Query(<<"reports", "revenue", "q">>, ReportsController.revenue),
                   Query(<<>>, ReportsController.revenueCsv)}

OutstandingReport ==
    UseMoney \cup {Query(<<"reports", "outstanding", "q">>, ReportsController.outstanding),
                   Query(<<"reports", "outstanding-items", "q">>,
                         ReportsController.outstandingItems),
                   Query(<<>>, ReportsController.outstandingCsv),
                   Link("/students/:id"), Link("/billing/invoices/:id")}

ReportsScreen == Filters \cup RevenueReport \cup OutstandingReport

AuditScreen ==
    {Query(<<"audit-log">>, AuditController.list), Query(<<>>, AuditController.verify)}

-----------------------------------------------------------------------------
(* Signing in. *)
LoginForm ==
    {Change(AuthController.login, "nothing", {}, {}, "leaves"), Link("/forgot-password")}
ForgotPasswordForm ==
    {Change(AuthController.forgotPassword, "nothing", {}, {}, "leaves"), Link("/login")}
ResetPasswordForm ==
    {Change(AuthController.resetPassword, "nothing", {}, {}, "leaves"), Link("/forgot-password")}
AcceptInviteForm ==
    {Query(<<"invitation", "token">>, InvitationsController.inspect),
     Change(InvitationsController.accept, "nothing", {}, {}, "leaves")}
SetupMfaFlow ==
    {Change(MfaController.setup, "nothing", {}, {}, "stays"),
     Change(MfaController.confirm, "nothing", {}, {}, "leaves")}
VerifyMfaForm == {Change(MfaController.verify, "nothing", {}, {}, "leaves"), Link("/login")}

=============================================================================
