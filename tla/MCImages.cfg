SPECIFICATION FairImageSpec
CONSTANTS
    window = window
    content = content
    image = image
    again = again
    Submission = {1, 2}
    Transfer = {image, again}
    App = {window}
    Subject = {content}
    SubmissionOf <- ImageOwner
    AppOf <- OneWindow
    SubjectOf <- SameContent
    MaxFault = 1
    None = None
INVARIANT ImageTypeOK
INVARIANT QueuedImagesExist
INVARIANT RecoveryIsNeverBlocked
INVARIANT DoneIsGone
INVARIANT RecordedResultsAreTrue
PROPERTY ContentSentOnce
PROPERTY ImagesAreReclaimed
CHECK_DEADLOCK FALSE
