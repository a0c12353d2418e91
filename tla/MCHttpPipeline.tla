--------------------------- MODULE MCHttpPipeline ---------------------------
(* HttpPipeline with one reply of each kind the result task distinguishes. *)
EXTENDS HttpPipeline

Answer(status) == [err |-> "ESP_OK", verifyFailed |-> FALSE, tls |-> "none",
                   status |-> status]
NoAnswer == [err |-> "HTTP_EAGAIN", verifyFailed |-> FALSE, tls |-> "none",
             status |-> 0]

\* A success, a retryable failure and a final one.
MCReplies == {Answer(200), NoAnswer, Answer(404)}
\* Nobody answers: the heaviest load on the ring of queues.
Silence == {NoAnswer}

\* What the tasks look at.  The other variables are only ever added to, so
\* states that differ in them alone go on alike.
Control == <<nextId, submit, requestQueue, work, resultQueue, res, retryQueue>>
=============================================================================
