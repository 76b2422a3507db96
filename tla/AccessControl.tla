--------------------------- MODULE AccessControl ---------------------------
(***************************************************************************)
(* Who may call what: JwtAuthGuard and RolesGuard in front of every          *)
(* controller, and the roles each controller's routes name in @Roles.  A     *)
(* route is named after the service method it calls.  A route's own @Roles   *)
(* overrides the controller's (getAllAndOverride), and a route without any   *)
(* admits every role.                                                        *)
(***************************************************************************)
EXTENDS TLC

Roles == {"SUPER_ADMIN", "COLLEGE_ADMIN", "FACULTY", "STUDENT"}
AdminRoles == {"SUPER_ADMIN", "COLLEGE_ADMIN"}
StaffRoles == AdminRoles \cup {"FACULTY"}

\* a table: every name of a set gets the same roles
Route(names, roles) == [n \in names |-> roles]
\* tables that name different routes, as one
Together(tables) == [n \in UNION {DOMAIN t : t \in tables} |->
                        UNION {t[n] : t \in {t \in tables : n \in DOMAIN t}}]

-----------------------------------------------------------------------------
(* JwtAuthGuard and RolesGuard. *)

\* JwtAuthGuard: a token is good for a user row that is active, has the role
\* and (platform users apart) the college the token was signed for, and whose
\* college, if it has one, is active
TokenAccepted(token, user, collegeUsable) ==
    /\ user.active /\ user.role = token.role
    /\ collegeUsable
    /\ user.role # "SUPER_ADMIN" => user.college = token.college

\* RolesGuard: no required role means everyone
RoleAdmitted(required, role) == required = {} \/ role \in required

-----------------------------------------------------------------------------
(* The route tables. *)

AiJobRoutes == Route({"generateQuestions", "batchGenerateQuestions",
    "getBatchGeneration", "cancelBatchGeneration", "retryBatchGeneration",
    "generateModelAnswer", "listJobs", "getJob", "cancelJob", "regenerateJob",
    "updateGeneratedQuestion", "resultVersions", "approveResults",
    "rejectResults", "saveApprovedToQuestionBank"}, StaffRoles)

AiPromptRoutes == Together({
    Route({"listPromptTemplates"}, StaffRoles),
    Route({"createPromptTemplate", "updatePromptTemplate",
        "deletePromptTemplate", "rollbackPromptTemplate", "usage", "settings",
        "updateSettings"}, AdminRoles)})

AiImportRoutes == Route({"importDocument", "listDocumentJobs",
    "getDocumentJob", "documentValidationReport", "processDocumentJob",
    "approveDocumentJob", "deleteDocumentJob"}, StaffRoles)

AiPaperRoutes == Route({"generateExamPaper", "generateRandomPaperSets",
    "listGeneratedPaperSets", "questionAnalytics", "checkDuplicate",
    "questionDuplicates", "reviewDuplicate"}, StaffRoles)

SyllabusRoutes == Together({
    Route({"listSyllabi", "getSyllabus", "syllabusCoverage"}, StaffRoles),
    Route({"createSyllabus", "updateSyllabus", "createBlueprint"}, AdminRoles)})

AiRoutes == Together({AiJobRoutes, AiPromptRoutes, AiImportRoutes,
    AiPaperRoutes, SyllabusRoutes})

\* every route of AcademicController and of the controllers beside it
AcademicRoutes == Route({"academicDashboard", "createDepartment",
    "updateDepartment", "deleteDepartment", "createCourse", "updateCourse",
    "deleteCourse", "updateSemester", "createSubject", "updateSubject"}, AdminRoles)

PeopleRoutes == Route({"deleteSubject", "createBatch", "updateBatch",
    "deleteBatch", "createFaculty", "updateFaculty", "resetFacultyPassword",
    "createStudent"}, AdminRoles)

StudentRoutes == Route({"bulkCreateStudents", "bulkUpdateStudents",
    "updateStudent", "resetStudentPassword", "assignSubject",
    "deleteAssignment"}, AdminRoles)

CollegeRoutes == Route({"listColleges", "createCollege", "updateCollege",
    "updateCollegeStatus", "archiveCollege"}, {"SUPER_ADMIN"})

AdminPanelRoutes == Together({
    Route({"adminDashboard", "collegeSettings", "updateCollegeSettings",
        "auditLogs", "activityHistory", "permissions", "upsertPermission"}, AdminRoles),
    Route({"profile", "updateProfile", "notifications",
        "markNotificationRead"}, Roles)})

\* the routes of SaasTenantController (const adminRoles, const tenantRoles)
TenantAdminRoutes == Route({"saveOnboardingStep", "checkoutSession",
    "changeSubscription", "cancelSubscription", "reactivateSubscription",
    "updateBranding", "createDomain", "requestDataExport"}, AdminRoles)

TenantUserRoutes == Route({"createSupportTicket", "replySupportTicket",
    "createMobileDevice", "deleteMobileDevice", "createPushToken",
    "deletePushToken", "acceptLegal"}, Roles)

PlatformRoutes == Route({"platformSaasDashboard", "platformTenants",
    "platformTenant", "updateTenantStatus", "platformChangePlan",
    "extendTrial", "addCredit"}, {"SUPER_ADMIN"})

SystemRoutes == Together({
    Route({"workerStatus", "infrastructure", "capacity", "deploymentSafety",
        "backups", "alerts", "metricsSummary", "releaseReadiness", "jobs",
        "updateMaintenance"}, {"SUPER_ADMIN"}),
    Route({"maintenance"}, AdminRoles)})

AccountRoutes == Together({AcademicRoutes, PeopleRoutes, StudentRoutes,
    CollegeRoutes, AdminPanelRoutes, TenantAdminRoutes, TenantUserRoutes,
    PlatformRoutes, SystemRoutes})

\* every route of QuestionsController and AssessmentsController
QuestionRoutes == Route({"listQuestions", "importQuestions", "createQuestion",
    "updateQuestion", "updateQuestionStatus", "duplicateQuestion",
    "deleteQuestion"}, StaffRoles)

AssessmentRoutes == Route({"createAssessment", "updateAssessment",
    "deleteAssessment", "addSection", "updateSection", "deleteSection",
    "addAssessmentQuestion", "addImportSet", "deleteAssessmentQuestion",
    "addAssignment", "deleteAssignment", "previewAssessment",
    "scheduleAssessment", "publishAssessment", "cancelAssessment",
    "duplicateAssessment"}, StaffRoles)

ProctoredRoutes == Route({"studentPolicy", "consent", "systemCheck",
    "startSession", "recordEvents", "heartbeat", "uploadEvidence",
    "endStudentSession"}, {"STUDENT"})

InvigilatorRoutes == Together({
    Route({"listSessions", "warn", "message", "flag", "clear", "note",
        "endSession", "listReviews", "decideReview", "holdResult",
        "releaseResult", "listPolicies", "getPolicy"}, StaffRoles),
    Route({"createPolicy", "updatePolicy", "activatePolicy",
        "deactivatePolicy", "deleteEvidence", "runRetention"}, AdminRoles),
    Route({"getSession", "getEvidence", "evidenceLink"}, Roles)})

CodingRoutes == Together({
    Route({"runCode", "submitCode", "studentSubmissions"}, {"STUDENT"}),
    Route({"job", "cancelJob"}, Roles),
    Route({"rejudge", "hold", "release", "manualScore", "rejudgeAssessment",
        "createPlagiarismJob", "reviewPlagiarism", "codingAnalytics"}, StaffRoles)})

\* const allRoles of CodeRunnerController
RunnerRoutes == Route({"submit", "get", "health", "languages", "images"}, Roles)

AnalyticsRoutes == Together({
    Route({"platform", "colleges"}, {"SUPER_ADMIN"}),
    Route({"college"}, AdminRoles),
    Route({"student"}, {"STUDENT"}),
    Route({"leaderboard", "subjects", "topics", "compare"}, Roles),
    Route({"departments", "batches", "faculty", "studentById",
        "assessmentAnalytics", "questionAnalytics", "syllabus"}, StaffRoles)})

ReportRoutes == Route({"resultReports", "createReport", "updateReport",
    "deleteReport", "runReport", "scheduleReport", "jobs", "cancelJob",
    "download", "generateInsights", "reviewInsight"}, StaffRoles)

\* the student's exam, its reviews and results, and exam operations
ExamRoutes == Route({"listAssessments", "getAssessment", "start", "getAttempt",
    "time", "answers", "saveAnswer", "batchSave", "submit", "event", "results",
    "result"}, {"STUDENT"})

ResultRoutes == Together({
    Route({"listReviews", "getReview", "updateReview", "listResults",
        "publish", "unpublish", "attempts", "resetAttempts",
        "grantAttempt"}, StaffRoles),
    Route({"attemptResult", "stats"}, Roles)})

OperationsRoutes == Route({"dashboard", "sweep", "analytics", "listReviews",
    "completeReview", "moderate", "publishSelected", "publishEligible",
    "exportResults", "listEvents", "attemptEvents", "reviewEvent"}, StaffRoles)
=============================================================================
